--------------------------- MODULE OneWorkerProofs ---------------------------
(***************************************************************************)
(* Dispatch with one worker process, as it is deployed, for any numbers of *)
(* requests, providers, taps, faults and crashes: balances stay out of the *)
(* red, auto-OFF holds, a request that has ended is not written again,     *)
(* requests, offers and assignments agree, offers only take the listed     *)
(* transitions, and dispatch implements Introduction. With two workers     *)
(* each of these fails.                                                    *)
(*                                                                         *)
(* The argument is the same throughout: what the worker has read is not    *)
(* written by anybody else, so what it is about to write can be judged by  *)
(* the rows as they are; the invariants do so at every step of a handler.  *)
(* That offers agree with the rest needs, besides, that a provider is in   *)
(* one wave of a request only, and that no two chains of waves are at work *)
(* on it: an unanswered COMMIT of dispatch_request or advance_wave forks   *)
(* the chain, and what rests on a single one is claimed of the other       *)
(* requests only.                                                          *)
(***************************************************************************)
EXTENDS DispatchProofs

OneWorker == \A v, w \in Workers : v = w

USE DEF Unset, Keep

-----------------------------------------------------------------------------
(* The steps of the one worker                                             *)

\* Steps that only go on: what s is about to write, t is, and not more.
GoesOn(s, t) ==
    /\ t.job = s.job /\ t.request = s.request /\ t.charge = s.charge
    /\ t.unanswered = s.unanswered /\ t.available = s.available
    /\ t.remainder = s.remainder /\ t.entry = s.entry
    /\ s.pc # "commit" /\ (t.pc \in Planning => s.pc \in Planning)
    /\ t.pc \in Steps \ {"grant", "remainder", "adjust", "toggle", "bump"}

LEMMA GoingOn ==
    ASSUME CoreInv, NEW w \in Workers,
           \/ PlanWaves(w) \/ SendOffer(w) \/ CollectUnanswered(w) \/ ExpireOffer(w)
           \/ LockRequest(w) \/ WithdrawOffer(w) \/ DeclineOffer(w)
           \/ ReleaseToProvider(w) \/ ReleaseToCustomer(w)
           \/ (LockOffer(w) /\ tx'[w] # Idle)
           \/ (Charge(w) /\ ~ CanPay(Prov(w)))
    PROVE  /\ GoesOn(tx[w], tx'[w])
           /\ UNCHANGED dbVars
<1> DEFINE s == tx[w]
<1> USE DEF At
<1>1. TxShape(s) /\ \A t : Goto(w, t) => tx'[w] = t
  BY DEF CoreInv, CoreType, Goto
<1>2. CASE PlanWaves(w)
  BY <1>1, <1>2 DEF PlanWaves, GoesOn, Planning, TxShape, Steps
<1>3. CASE SendOffer(w)
  <2> DEFINE p == Head(s.todo)
             t(st) == [s EXCEPT !.offers[p] = st, !.todo = Tail(@),
                                !.pc = IF Len(s.todo) = 1 THEN "commit" ELSE @]
  <2>1. PICK st \in {"sent", "failed"} : Goto(w, t(st))
    BY <1>3 DEF SendOffer
  <2>2. GoesOn(s, t(st))
    BY <1>1, <1>3 DEF SendOffer, GoesOn, Planning, TxShape, Steps
  <2> QED
    BY <1>1, <1>3, <2>1, <2>2 DEF SendOffer
<1>4. CASE CollectUnanswered(w)
  BY <1>1, <1>4 DEF CollectUnanswered, AfterExpiry, GoesOn, Planning, TxShape, Steps
<1>5. CASE ExpireOffer(w)
  BY <1>1, <1>5 DEF ExpireOffer, GoesOn, Planning, TxShape, Steps
<1>6. CASE LockRequest(w)
  BY <1>1, <1>6 DEF LockRequest, GoesOn, Planning, TxShape, Steps
<1>7. CASE WithdrawOffer(w)
  <2>1. PICK offers, todo, pc :
          pc \in {"reset", s.pc} /\ Goto(w, [s EXCEPT !.offers = offers, !.todo = todo, !.pc = pc])
    BY <1>7 DEF WithdrawOffer
  <2>2. GoesOn(s, [s EXCEPT !.offers = offers, !.todo = todo, !.pc = pc])
    BY <1>1, <1>7, <2>1 DEF WithdrawOffer, GoesOn, Planning, TxShape, Steps
  <2> QED
    BY <1>1, <1>7, <2>1, <2>2 DEF WithdrawOffer
<1>8. CASE DeclineOffer(w)
  BY <1>1, <1>8 DEF DeclineOffer, GoesOn, Planning, TxShape, Steps
<1>9. CASE ReleaseToProvider(w)
  BY <1>1, <1>9 DEF ReleaseToProvider, GoesOn, Planning, TxShape, Steps
<1>10. CASE ReleaseToCustomer(w)
  BY <1>1, <1>10 DEF ReleaseToCustomer, GoesOn, Planning, TxShape, Steps
<1>11. CASE LockOffer(w) /\ tx'[w] # Idle
  <2>1. ~ RollBack(w)
    BY <1>1, <1>11 DEF RollBack
  <2>2. \E pc \in {"lockRequest", "commit"} : Goto(w, [s EXCEPT !.pc = pc])
    BY <1>11, <2>1 DEF LockOffer
  <2> QED
    BY <1>1, <1>11, <2>2 DEF LockOffer, GoesOn, Planning, TxShape, Steps
<1>12. CASE Charge(w) /\ ~ CanPay(Prov(w))
  BY <1>1, <1>12 DEF Charge, GoesOn, Planning, TxShape, Steps
<1> QED
  BY <1>2, <1>3, <1>4, <1>5, <1>6, <1>7, <1>8, <1>9, <1>10, <1>11, <1>12

\* A worker puts its job down: a failure, a deadlock or a death.
LEMMA PuttingDown ==
    ASSUME CoreInv, NEW w \in Workers,
           \/ BreakDeadlock(w) \/ RefuseOffer(w) \/ Fault(w) \/ Crash(w)
    PROVE  tx'[w] = Idle /\ UNCHANGED dbVars
BY DEF BreakDeadlock, RefuseOffer, RollBack, Fault, Crash, Goto, CoreInv, CoreType

LEMMA Claiming ==
    ASSUME CoreInv, NEW w \in Workers, NEW j \in jobs, Claim(w, j)
    PROVE  /\ UNCHANGED dbVars
           /\ \E job : tx'[w] = [Idle EXCEPT !.pc = FirstStep(job), !.job = job,
                                             !.seen = Seen(job.prov)]
<1> DEFINE mine == [j EXCEPT !.att = @ + 1]
<1>1. Goto(w, [Idle EXCEPT !.pc = FirstStep(mine), !.job = mine, !.seen = Seen(mine.prov)])
  BY DEF Claim
<1> HIDE DEF mine
<1> QED
  BY <1>1 DEF Claim, Goto, CoreInv, CoreType

\* A COMMIT, answered or not.
Committing(w) == Commit(w) \/ LoseAck(w)

LEMMA Effective == ASSUME NEW w \in Workers, Committing(w) PROVE TakeEffect(w)
BY DEF Committing, Commit, LoseAck

\* Every step of the worker goes on, puts its job down, or is named here.
LEMMA StepsOfTheWorker ==
    ASSUME CoreInv, NEW w \in Workers, Step(w) \/ Fault(w) \/ LoseAck(w) \/ Crash(w)
    PROVE  \/ GoesOn(tx[w], tx'[w]) /\ UNCHANGED dbVars
           \/ tx'[w] = Idle /\ UNCHANGED dbVars
           \/ \E j \in jobs : Claim(w, j)
           \/ Committing(w)
           \/ Unfill(w) \/ CountUnanswered(w) \/ BumpUnanswered(w)
           \/ (Charge(w) /\ CanPay(Prov(w)))
           \/ ResetUnanswered(w) \/ ToggleAvailable(w)
           \/ GrantFree(w) \/ CountFree(w) \/ AdjustFree(w)
<1>1. CASE BreakDeadlock(w) \/ RefuseOffer(w) \/ Fault(w) \/ Crash(w)
  <2>1. tx'[w] = Idle /\ UNCHANGED dbVars
    BY <1>1, PuttingDown, Zenon
  <2> QED
    BY <2>1
<1>2. CASE LockOffer(w)
  <2>1. UNCHANGED dbVars
    BY <1>2 DEF LockOffer
  <2>2. tx'[w] # Idle => GoesOn(tx[w], tx'[w])
    BY <1>2, GoingOn, Zenon
  <2> QED
    BY <2>1, <2>2
<1>3. CASE Charge(w)
  BY <1>3, GoingOn
<1>4. CASE \/ PlanWaves(w) \/ SendOffer(w) \/ CollectUnanswered(w) \/ ExpireOffer(w)
           \/ LockRequest(w) \/ WithdrawOffer(w) \/ DeclineOffer(w)
           \/ ReleaseToProvider(w) \/ ReleaseToCustomer(w)
  <2>1. GoesOn(tx[w], tx'[w]) /\ UNCHANGED dbVars
    BY <1>4, GoingOn, Zenon
  <2> QED
    BY <2>1
<1> QED
  BY <1>1, <1>2, <1>3, <1>4, Zenon DEF Step, Committing

LEMMA Expiring ==
    ASSUME NEW t, TxShape(t)
    PROVE  LET u == AfterExpiry(t)
           IN  /\ u.unanswered = t.unanswered /\ u.available = t.available
               /\ u.entry = t.entry
BY DEF AfterExpiry, TxShape

LEMMA Bumping ==
    ASSUME CoreInv, NEW w \in Workers, BumpUnanswered(w)
    PROVE  LET s == tx[w]
               t == tx'[w]
               p == Head(s.todo)
               n == s.seen.unanswered + 1
               off == n >= AutoOffThreshold /\ s.seen.available
           IN  /\ UNCHANGED dbVars
               /\ s.pc = "bump" /\ t.pc \in {"count", "unfill", "offer"}
               /\ t.job = s.job /\ t.charge = s.charge /\ t.entry = s.entry
               /\ t.request = s.request
               /\ t.unanswered = [s.unanswered EXCEPT ![p] = n]
               /\ t.available = [s.available EXCEPT ![p] = IF off THEN "off" ELSE @]
<1> DEFINE s == tx[w]
           p == Head(s.todo)
           n == s.seen.unanswered + 1
           off == n >= AutoOffThreshold /\ s.seen.available
           u == [s EXCEPT !.unanswered[p] = n,
                          !.available[p] = IF off THEN "off" ELSE @,
                          !.todo = Tail(@),
                          !.pc = "count"]
<1>1. TxShape(s) /\ \A x : Goto(w, x) => tx'[w] = x
  BY DEF CoreInv, CoreType, Goto
<1>2. /\ UNCHANGED dbVars /\ s.pc = "bump"
      /\ Goto(w, IF u.todo = <<>> THEN AfterExpiry(u) ELSE u)
  BY DEF BumpUnanswered, At
<1>3. /\ TxShape(u) /\ u.pc = "count" /\ u.job = s.job /\ u.charge = s.charge
      /\ u.entry = s.entry /\ u.request = s.request
      /\ u.unanswered = [s.unanswered EXCEPT ![p] = n]
      /\ u.available = [s.available EXCEPT ![p] = IF off THEN "off" ELSE @]
  BY <1>1 DEF TxShape, Steps
<1> HIDE DEF u, n, off, p
<1> QED
  BY <1>1, <1>2, <1>3, AfterExpiryShape, Expiring DEF n, off, p

\* What the steps that neither charge nor give credits leave as it is.
LEMMA Writing ==
    ASSUME CoreInv, NEW w \in Workers,
           \/ Unfill(w) \/ CountUnanswered(w) \/ BumpUnanswered(w)
           \/ ResetUnanswered(w) \/ ToggleAvailable(w)
    PROVE  LET s == tx[w]
               t == tx'[w]
           IN  /\ UNCHANGED dbVars
               /\ t.job = s.job /\ t.charge = s.charge /\ t.entry = s.entry
               /\ s.pc # "commit" /\ t.pc # "adjust"
<1> DEFINE s == tx[w]
<1>1. TxShape(s) /\ \A u : Goto(w, u) => tx'[w] = u
  BY DEF CoreInv, CoreType, Goto
<1> USE DEF At
<1>2. CASE Unfill(w)
  BY <1>1, <1>2 DEF Unfill, TxShape
<1>3. CASE CountUnanswered(w)
  BY <1>1, <1>3 DEF CountUnanswered, TxShape
<1>4. CASE BumpUnanswered(w)
  BY <1>4, Bumping
<1>5. CASE ResetUnanswered(w)
  BY <1>1, <1>5 DEF ResetUnanswered, AfterReset, TxShape
<1>6. CASE ToggleAvailable(w)
  BY <1>1, <1>6 DEF ToggleAvailable, TxShape
<1> QED
  BY <1>2, <1>3, <1>4, <1>5, <1>6

LEMMA Charging ==
    ASSUME CoreInv, NEW w \in Workers, Charge(w), CanPay(Prov(w))
    PROVE  LET s == tx[w]
               t == tx'[w]
           IN  /\ UNCHANGED dbVars
               /\ s.pc = "charge" /\ t.pc \in {"reset", "withdraw"}
               /\ t.job = s.job /\ t.entry = s.entry
               /\ t.unanswered = s.unanswered /\ t.available = s.available
<1> DEFINE s == tx[w]
<1>1. TxShape(s) /\ \A u : Goto(w, u) => tx'[w] = u
  BY DEF CoreInv, CoreType, Goto
<1>2. \E request_, offers, todo, out :
        \E pc \in {"reset", "withdraw"} :
          Goto(w, [s EXCEPT !.charge = TRUE, !.offers = offers, !.request = request_,
                            !.todo = todo, !.out = out, !.pc = pc])
  BY DEF Charge
<1>3. s.pc = "charge" /\ UNCHANGED dbVars
  BY DEF Charge, At
<1> QED
  BY <1>1, <1>2, <1>3 DEF TxShape

-----------------------------------------------------------------------------
(* Balances                                                                *)

\* What t adds to the ledger of its provider leaves him and his free credits
\* out of the red, given the sums as they are.
Ledger(t, b, f) ==
    LET p == t.job.prov
    IN  /\ t.pc # "commit" => t.entry = 0
        /\ t.charge => t.entry = 0
        /\ p \in Providers => /\ t.entry \in Int
                              /\ t.charge => b[p] >= 1
                              /\ b[p] + t.entry >= 0
                              /\ f[p] + t.entry >= 0
                              /\ t.pc = "adjust" => t.remainder = f[p]

LedgerInv ==
    /\ balance \in [Providers -> Nat]
    /\ free \in [Providers -> Nat]
    /\ \A w \in Workers : Ledger(tx[w], balance, free)

LEMMA FreshLedger ==
    ASSUME LedgerInv, NEW t, t.entry = 0, t.charge = FALSE, t.pc # "adjust"
    PROVE  Ledger(t, balance, free)
BY DEF Ledger, LedgerInv

LEMMA LedgerInit == ASSUME Init PROVE LedgerInv
<1>1. balance = Credits /\ free = Credits /\ Credits \in [Providers -> Nat]
  BY DispatchAssumption DEF Init
<1>2. Idle.entry = 0 /\ Idle.charge = FALSE /\ Idle.pc = "idle"
  BY DEF Idle
<1>3. Ledger(Idle, balance, free)
  BY <1>1, <1>2 DEF Ledger
<1> QED
  BY <1>1, <1>3 DEF Init, LedgerInv

LEMMA CommitLedger ==
    ASSUME OneWorker, CoreInv, LedgerInv, NEW w \in Workers, TakeEffect(w)
    PROVE  LedgerInv'
<1> DEFINE t == tx[w]
           p == Prov(w)
<1>1. /\ balance' = [x \in Providers |-> IF x = p THEN balance[x] + Entries(t) ELSE balance[x]]
      /\ free' = [x \in Providers |-> IF x = p THEN free[x] + t.entry ELSE free[x]]
      /\ tx'[w] = Idle
  BY DEF TakeEffect, Goto, CoreInv, CoreType
<1>2. Ledger(t, balance, free) /\ t.charge \in BOOLEAN
  BY DEF LedgerInv, CoreInv, CoreType, TxShape
<1>3. p \in Providers => balance[p] + Entries(t) \in Nat /\ free[p] + t.entry \in Nat
  BY <1>2 DEF Ledger, Entries, Prov, LedgerInv
<1>4. balance' \in [Providers -> Nat] /\ free' \in [Providers -> Nat]
  BY <1>1, <1>3 DEF LedgerInv
<1>5. Idle.entry = 0 /\ Idle.charge = FALSE /\ Idle.pc = "idle"
  BY DEF Idle
<1>6. Ledger(Idle, balance', free')
  BY <1>4, <1>5 DEF Ledger
<1> QED
  BY <1>1, <1>4, <1>6 DEF OneWorker, LedgerInv

LEMMA LedgerStep ==
    ASSUME OneWorker, CoreInv, LedgerInv, [Next]_vars
    PROVE  LedgerInv'
<1>1. ASSUME NEW w \in Workers, Step(w) \/ Fault(w) \/ LoseAck(w) \/ Crash(w) PROVE LedgerInv'
  <2> DEFINE s == tx[w]
             t == tx'[w]
  <2>1. SUFFICES ASSUME ~ Committing(w)
                 PROVE  UNCHANGED dbVars /\ Ledger(t, balance, free)
    BY CommitLedger, Effective DEF OneWorker, LedgerInv, dbVars
  <2>2. TxShape(s) /\ Ledger(s, balance, free) /\ \A u : Goto(w, u) => tx'[w] = u
    BY DEF LedgerInv, CoreInv, CoreType, Goto
  <2>3. s.charge => s.pc \in {"withdraw", "reset", "decline", "commit"}
    BY DEF CoreInv, AcceptanceInv, ChargeUnderLock
  <2> USE DEF At
  <2>4. CASE GoesOn(s, t) /\ UNCHANGED dbVars
    BY <2>2, <2>4 DEF GoesOn, Ledger
  <2>5. CASE t = Idle /\ UNCHANGED dbVars
    <3>1. Idle.entry = 0 /\ Idle.charge = FALSE /\ Idle.pc = "idle"
      BY DEF Idle
    <3> QED
      BY <2>5, <3>1, FreshLedger
  <2>6. CASE \E j \in jobs : Claim(w, j)
    <3>1. PICK job : t = [Idle EXCEPT !.pc = FirstStep(job), !.job = job,
                                      !.seen = Seen(job.prov)]
      BY <2>6, Claiming
    <3>2. t.entry = 0 /\ t.charge = FALSE /\ t.pc = FirstStep(job)
      BY <3>1 DEF Idle
    <3>3. FirstStep(job) # "adjust"
      BY DEF FirstStep
    <3> QED
      BY <2>6, <3>2, <3>3, Claiming, FreshLedger
  <2>7. CASE \/ Unfill(w) \/ CountUnanswered(w) \/ BumpUnanswered(w)
             \/ ResetUnanswered(w) \/ ToggleAvailable(w)
    BY <2>2, <2>7, Writing DEF Ledger
  <2>9. CASE Charge(w) /\ CanPay(Prov(w))
    BY <2>2, <2>9, Charging DEF Ledger, CanPay, Prov
  <2>10. CASE GrantFree(w)
    <3>1. /\ UNCHANGED dbVars /\ s.charge = FALSE
          /\ t.job = s.job /\ t.charge = FALSE /\ t.entry = FreeCap /\ t.pc = "commit"
      BY <2>2, <2>3, <2>10 DEF GrantFree, TxShape
    <3> QED
      BY <3>1, DispatchAssumption DEF Ledger, LedgerInv
  <2>11. CASE CountFree(w)
    <3>1. /\ UNCHANGED dbVars
          /\ t.job = s.job /\ t.charge = s.charge /\ t.entry = s.entry
          /\ t.remainder = free[s.job.prov] /\ s.pc = "remainder"
      BY <2>2, <2>11 DEF CountFree, TxShape, Prov
    <3> QED
      BY <2>2, <3>1 DEF Ledger
  <2>12. CASE AdjustFree(w)
    <3> DEFINE n == Removable(Prov(w), s.remainder)
    <3>1. /\ UNCHANGED dbVars /\ s.pc = "adjust" /\ s.charge = FALSE
          /\ t.job = s.job /\ t.charge = FALSE
          /\ t.entry = (IF n > 0 THEN - n ELSE 0) /\ t.pc = "commit"
      BY <2>2, <2>3, <2>12 DEF AdjustFree, TxShape
    <3>2. s.job.prov \in Providers =>
             n \in Nat /\ n <= balance[s.job.prov] /\ n <= free[s.job.prov]
      BY <2>2, <3>1 DEF Ledger, LedgerInv, Removable, Prov
    <3> HIDE DEF n
    <3>3. CASE s.job.prov \in Providers
      <4>1. balance[s.job.prov] \in Nat /\ free[s.job.prov] \in Nat
        BY <3>3 DEF LedgerInv
      <4> QED
        BY <3>1, <3>2, <3>3, <4>1 DEF Ledger
    <3>4. CASE s.job.prov \notin Providers
      BY <3>1, <3>4 DEF Ledger
    <3> QED
      BY <3>3, <3>4
  <2> QED
    BY <1>1, <2>1, <2>4, <2>5, <2>6, <2>7, <2>9, <2>10, <2>11, <2>12, StepsOfTheWorker
<1>2. CASE UNCHANGED <<dbVars, tx>>
  BY <1>2 DEF LedgerInv, dbVars, Ledger
<1> QED
  BY <1>1, <1>2 DEF Next, Tap, Command, Arrive, vars

\* With one worker no sequence of acceptances, grants and removals, retried
\* or not, takes a balance or the free credits below zero.
THEOREM BalanceNeverNegativeHolds == OneWorker => (Spec => []BalanceNeverNegative)
<1> SUFFICES ASSUME OneWorker PROVE Spec => []BalanceNeverNegative
  OBVIOUS
<1>1. Init => LedgerInv
  BY LedgerInit
<1>2. CoreInv /\ LedgerInv /\ [Next]_vars => LedgerInv'
  BY LedgerStep
<1>3. LedgerInv => BalanceNeverNegative
  BY DEF LedgerInv, BalanceNeverNegative
<1> QED
  BY <1>1, <1>2, <1>3, CoreInvariant, PTL DEF Spec

-----------------------------------------------------------------------------
(* Auto-OFF                                                                *)

\* p's counter and availability once t has committed.
CountOf(t, p, un) == IF t.unanswered[p] = Unset THEN un[p] ELSE t.unanswered[p]
IsOn(t, p, av) == IF t.available[p] = Keep THEN p \in av ELSE t.available[p] = "on"

Looked(t, p, un, av) ==
    p \in Providers => t.seen.unanswered = un[p] /\ t.seen.available = (p \in av)

\* What t writes leaves nobody ON who is at the threshold, given the counters
\* and the availability as they are, which are what t saw of them.
Counted(t, un, av) ==
    /\ t.unanswered \in [Providers -> Nat \cup {Unset}]
    /\ t.available \in [Providers -> {Keep, "on", "off"}]
    /\ \A p \in Providers : IsOn(t, p, av) => CountOf(t, p, un) < AutoOffThreshold
    /\ t.pc # "commit" => \A p \in Providers : t.available[p] # "on"
    /\ t.pc = "bump" => Looked(t, Head(t.todo), un, av)
    /\ t.pc = "toggle" => Looked(t, t.job.prov, un, av)

AutoOffInv ==
    /\ unanswered \in [Providers -> Nat]
    /\ available \subseteq Providers
    /\ AutoOffHolds
    /\ \A w \in Workers : Counted(tx[w], unanswered, available)

LEMMA FreshCount ==
    ASSUME NEW un, NEW av, \A p \in av : un[p] < AutoOffThreshold, NEW t,
           t.unanswered = Idle.unanswered, t.available = Idle.available,
           t.pc # "bump", t.pc = "toggle" => Looked(t, t.job.prov, un, av)
    PROVE  Counted(t, un, av)
<1>1. /\ t.unanswered = [p \in Providers |-> Unset]
      /\ t.available = [p \in Providers |-> Keep]
  BY DEF Idle
<1>2. t.unanswered \in [Providers -> Nat \cup {Unset}]
  BY <1>1
<1>3. t.available \in [Providers -> {Keep, "on", "off"}]
  BY <1>1
<1>4. \A p \in Providers : CountOf(t, p, un) = un[p] /\ (IsOn(t, p, av) => p \in av)
                             /\ t.available[p] # "on"
  BY <1>1 DEF CountOf, IsOn
<1> QED
  BY <1>2, <1>3, <1>4 DEF Counted

LEMMA Looking ==
    ASSUME NEW p, NEW t, t.seen = Seen(p)
    PROVE  Looked(t, p, unanswered, available)
<1> SUFFICES ASSUME p \in Providers
             PROVE  /\ t.seen.unanswered = unanswered[p]
                    /\ t.seen.available = (p \in available)
  BY DEF Looked
<1>1. t.seen = [unanswered |-> unanswered[p], available |-> p \in available]
  BY DEF Seen
<1> QED
  BY <1>1

LEMMA AutoOffInit == ASSUME AutoOffThreshold > 0, Init PROVE AutoOffInv
<1>1. /\ unanswered = [p \in Providers |-> 0] /\ available = Providers
      /\ tx = [w \in Workers |-> Idle]
  BY DEF Init
<1>2. \A p \in available : unanswered[p] < AutoOffThreshold
  BY <1>1
<1>3. Idle.pc = "idle"
  BY DEF Idle
<1>4. Counted(Idle, unanswered, available)
  BY <1>2, <1>3, FreshCount
<1> QED
  BY <1>1, <1>2, <1>4 DEF AutoOffInv, AutoOffHolds

LEMMA CommitCount ==
    ASSUME OneWorker, CoreInv, AutoOffInv, NEW w \in Workers, TakeEffect(w)
    PROVE  AutoOffInv'
<1> DEFINE t == tx[w]
<1>1. /\ unanswered' = [x \in Providers |-> CountOf(t, x, unanswered)]
      /\ available' = {x \in Providers : IsOn(t, x, available)}
      /\ tx'[w] = Idle
  BY DEF TakeEffect, Goto, CoreInv, CoreType, CountOf, IsOn
<1>2. Counted(t, unanswered, available)
  BY DEF AutoOffInv
<1>3. unanswered' \in [Providers -> Nat]
  BY <1>1, <1>2 DEF Counted, CountOf, AutoOffInv
<1>4. \A p \in available' : unanswered'[p] < AutoOffThreshold
  BY <1>1, <1>2 DEF Counted
<1>5. Idle.pc = "idle"
  BY DEF Idle
<1>6. Counted(Idle, unanswered', available')
  BY <1>4, <1>5, FreshCount
<1> QED
  BY <1>1, <1>3, <1>4, <1>6 DEF OneWorker, AutoOffInv, AutoOffHolds

LEMMA BumpCount ==
    ASSUME OneWorker, CoreInv, AutoOffInv, NEW w \in Workers, BumpUnanswered(w)
    PROVE  Counted(tx'[w], unanswered, available)
<1> DEFINE s == tx[w]
           t == tx'[w]
           p == Head(s.todo)
           n == s.seen.unanswered + 1
           off == n >= AutoOffThreshold /\ s.seen.available
<1>1. /\ s.pc = "bump" /\ t.pc \in {"count", "unfill", "offer"}
      /\ t.unanswered = [s.unanswered EXCEPT ![p] = n]
      /\ t.available = [s.available EXCEPT ![p] = IF off THEN "off" ELSE @]
  BY Bumping
<1>2. Counted(s, unanswered, available)
  BY DEF AutoOffInv
<1>3. p \in Providers =>
        /\ n \in Nat
        /\ n >= AutoOffThreshold /\ ~ off => p \notin available
  <2> SUFFICES ASSUME p \in Providers
               PROVE  /\ n \in Nat
                      /\ n >= AutoOffThreshold /\ ~ off => p \notin available
    OBVIOUS
  <2>1. s.seen.unanswered = unanswered[p] /\ s.seen.available = (p \in available)
    BY <1>1, <1>2 DEF Counted, Looked
  <2>2. n \in Nat
    BY <2>1 DEF AutoOffInv
  <2>3. n >= AutoOffThreshold /\ ~ off => p \notin available
    BY <2>1, Zenon
  <2> QED
    BY <2>2, <2>3
<1> HIDE DEF n, off
<1>4. /\ t.unanswered \in [Providers -> Nat \cup {Unset}]
      /\ t.available \in [Providers -> {Keep, "on", "off"}]
      /\ \A q \in Providers : t.available[q] # "on"
  BY <1>1, <1>2, <1>3 DEF Counted
<1>5. ASSUME NEW q \in Providers, IsOn(t, q, available)
      PROVE  CountOf(t, q, unanswered) < AutoOffThreshold
  <2>1. CASE q # p
    BY <1>1, <1>2, <1>5, <2>1 DEF Counted, IsOn, CountOf
  <2>2. CASE q = p
    <3>1. ~ off /\ p \in available
      BY <1>1, <1>2, <1>4, <1>5, <2>2 DEF Counted, IsOn
    <3>2. n < AutoOffThreshold
      BY <1>3, <2>2, <3>1, DispatchAssumption
    <3>3. t.unanswered[q] = n
      BY <1>1, <1>2, <2>2 DEF Counted
    <3> QED
      BY <1>3, <2>2, <3>2, <3>3 DEF CountOf
  <2> QED
    BY <2>1, <2>2
<1> QED
  BY <1>1, <1>4, <1>5 DEF Counted

LEMMA ToggleCount ==
    ASSUME OneWorker, CoreInv, AutoOffInv, AutoOffThreshold > 0,
           NEW w \in Workers, ToggleAvailable(w)
    PROVE  Counted(tx'[w], unanswered, available)
<1> DEFINE s == tx[w]
           t == tx'[w]
           p == Prov(w)
           on == s.job.kind = "available"
           av == IF on = s.seen.available THEN Keep ELSE IF on THEN "on" ELSE "off"
           un == Forgotten(on, s.seen.unanswered)
<1>1. TxShape(s) /\ \A u : Goto(w, u) => tx'[w] = u
  BY DEF CoreInv, CoreType, Goto
<1>2. /\ s.pc = "toggle" /\ t.pc = "commit"
      /\ t.available = [s.available EXCEPT ![p] = av]
      /\ t.unanswered = [s.unanswered EXCEPT ![p] = un]
  BY <1>1 DEF ToggleAvailable, At, TxShape
<1>3. Counted(s, unanswered, available)
  BY DEF AutoOffInv
<1>4. p \in Providers => s.seen.unanswered = unanswered[p]
                         /\ (s.seen.available <=> p \in available)
  BY <1>2, <1>3 DEF Counted, Looked, Prov
<1>5. /\ av \in {Keep, "on", "off"} /\ un \in {0, Unset}
      /\ on => un = 0 \/ s.seen.unanswered = 0
      /\ ~ on => un = Unset /\ av # "on"
  BY DEF Forgotten
<1>6. p \in Providers /\ ~ on /\ av = Keep => p \notin available
  BY <1>4
<1> HIDE DEF av, un, on
<1>7. /\ t.unanswered \in [Providers -> Nat \cup {Unset}]
      /\ t.available \in [Providers -> {Keep, "on", "off"}]
  <2>1. un \in Nat \cup {Unset}
    BY <1>5
  <2>2. t.unanswered \in [Providers -> Nat \cup {Unset}]
    BY <1>2, <1>3, <2>1 DEF Counted
  <2>3. t.available \in [Providers -> {Keep, "on", "off"}]
    BY <1>2, <1>3, <1>5 DEF Counted
  <2> QED
    BY <2>2, <2>3
<1>8. ASSUME NEW q \in Providers, IsOn(t, q, available)
      PROVE  CountOf(t, q, unanswered) < AutoOffThreshold
  <2>1. CASE q # p
    BY <1>2, <1>3, <1>8, <2>1 DEF Counted, IsOn, CountOf
  <2>2. CASE q = p
    <3>1. t.available[q] = av /\ t.unanswered[q] = un
      BY <1>2, <1>3, <2>2 DEF Counted
    <3>2. on
      BY <1>5, <1>6, <1>8, <2>2, <3>1 DEF IsOn
    <3>3. CountOf(t, q, unanswered) = 0
      BY <1>4, <1>5, <2>2, <3>1, <3>2 DEF CountOf
    <3> QED
      BY <3>3
  <2> QED
    BY <2>1, <2>2
<1> QED
  BY <1>2, <1>7, <1>8 DEF Counted

LEMMA ResetCount ==
    ASSUME OneWorker, CoreInv, AutoOffInv, AutoOffThreshold > 0,
           NEW w \in Workers, ResetUnanswered(w)
    PROVE  Counted(tx'[w], unanswered, available)
<1> DEFINE s == tx[w]
           t == tx'[w]
           p == Prov(w)
<1>1. TxShape(s) /\ \A u : Goto(w, u) => tx'[w] = u
  BY DEF CoreInv, CoreType, Goto
<1>2. /\ s.pc = "reset" /\ t.pc \in {"decline", "commit"}
      /\ t.available = s.available
      /\ t.unanswered = [s.unanswered EXCEPT ![p] = IF s.seen.unanswered = 0 THEN @ ELSE 0]
  BY <1>1 DEF ResetUnanswered, AfterReset, At, TxShape
<1>3. Counted(s, unanswered, available)
  BY DEF AutoOffInv
<1>4. t.unanswered \in [Providers -> Nat \cup {Unset}]
  <2>1. s.unanswered \in [Providers -> Nat \cup {Unset}]
    BY <1>3 DEF Counted
  <2>2. CASE s.seen.unanswered = 0
    BY <1>2, <2>1, <2>2
  <2>3. CASE s.seen.unanswered # 0
    <3>1. t.unanswered = [s.unanswered EXCEPT ![p] = 0] /\ 0 \in Nat \cup {Unset}
      BY <1>2, <2>3
    <3> HIDE DEF s, t, p
    <3> QED
      BY <2>1, <3>1
  <2> QED
    BY <2>2, <2>3
<1>5. \A q \in Providers : t.unanswered[q] \in {s.unanswered[q], 0}
  BY <1>2, <1>3 DEF Counted
<1>6. ASSUME NEW q \in Providers, IsOn(t, q, available)
      PROVE  CountOf(t, q, unanswered) < AutoOffThreshold
  BY <1>2, <1>3, <1>5, <1>6 DEF Counted, IsOn, CountOf
<1> QED
  BY <1>2, <1>3, <1>4, <1>6 DEF Counted

LEMMA AutoOffStep ==
    ASSUME OneWorker, AutoOffThreshold > 0, CoreInv, AutoOffInv, [Next]_vars
    PROVE  AutoOffInv'
<1>1. ASSUME NEW w \in Workers, Step(w) \/ Fault(w) \/ LoseAck(w) \/ Crash(w) PROVE AutoOffInv'
  <2> DEFINE s == tx[w]
             t == tx'[w]
  <2>1. SUFFICES ASSUME ~ Committing(w)
                 PROVE  UNCHANGED dbVars /\ Counted(t, unanswered, available)
    BY CommitCount, Effective DEF OneWorker, AutoOffInv, AutoOffHolds, dbVars
  <2>2. /\ TxShape(s) /\ Counted(s, unanswered, available)
        /\ \A u : Goto(w, u) => tx'[w] = u
    BY DEF AutoOffInv, CoreInv, CoreType, Goto
  <2>3. \A p \in available : unanswered[p] < AutoOffThreshold
    BY DEF AutoOffInv, AutoOffHolds
  <2> USE DEF At
  <2>4. CASE GoesOn(s, t) /\ UNCHANGED dbVars
    BY <2>2, <2>4 DEF GoesOn, Counted, IsOn, CountOf
  <2>5. CASE t = Idle /\ UNCHANGED dbVars
    <3>1. Idle.pc = "idle"
      BY DEF Idle
    <3> QED
      BY <2>3, <2>5, <3>1, FreshCount
  <2>6. CASE \E j \in jobs : Claim(w, j)
    <3>1. PICK job : t = [Idle EXCEPT !.pc = FirstStep(job), !.job = job,
                                      !.seen = Seen(job.prov)]
      BY <2>6, Claiming
    <3>2. /\ t.unanswered = Idle.unanswered /\ t.available = Idle.available
          /\ t.pc = FirstStep(job) /\ t.job = job /\ t.seen = Seen(job.prov)
      BY <3>1 DEF Idle
    <3>3. FirstStep(job) # "bump"
      BY DEF FirstStep
    <3>4. Looked(t, t.job.prov, unanswered, available)
      BY <3>2, Looking
    <3> QED
      BY <2>3, <2>6, <3>2, <3>3, <3>4, Claiming, FreshCount
  <2>7. CASE Unfill(w)
    <3>1. /\ t.unanswered = s.unanswered /\ t.available = s.available
          /\ s.pc = "unfill" /\ t.pc = "commit"
      BY <2>2, <2>7 DEF Unfill, TxShape
    <3> QED
      BY <2>2, <2>7, <3>1, Writing DEF Counted, IsOn, CountOf
  <2>8. CASE CountUnanswered(w)
    <3>1. /\ t.unanswered = s.unanswered /\ t.available = s.available
          /\ s.pc = "count" /\ t.pc = "bump" /\ t.todo = s.todo
          /\ t.seen = Seen(Head(s.todo))
      BY <2>2, <2>8 DEF CountUnanswered, TxShape
    <3>2. Looked(t, Head(t.todo), unanswered, available)
      BY <3>1, Looking
    <3> QED
      BY <2>2, <2>8, <3>1, <3>2, Writing DEF Counted, IsOn, CountOf
  <2>9. CASE BumpUnanswered(w)
    BY <2>9, BumpCount, Writing
  <2>10. CASE Charge(w) /\ CanPay(Prov(w))
    BY <2>2, <2>10, Charging DEF Counted, IsOn, CountOf
  <2>11. CASE ResetUnanswered(w)
    BY <2>11, ResetCount, Writing
  <2>12. CASE ToggleAvailable(w)
    BY <2>12, ToggleCount, Writing
  <2>13. CASE GrantFree(w) \/ CountFree(w) \/ AdjustFree(w)
    <3>1. /\ t.unanswered = s.unanswered /\ t.available = s.available
          /\ s.pc # "commit" /\ t.pc \in {"adjust", "commit"}
          /\ UNCHANGED dbVars
      BY <2>2, <2>13 DEF GrantFree, CountFree, AdjustFree, TxShape
    <3> QED
      BY <2>2, <3>1 DEF Counted, IsOn, CountOf
  <2> QED
    BY <1>1, <2>1, <2>4, <2>5, <2>6, <2>7, <2>8, <2>9, <2>10, <2>11, <2>12, <2>13,
       StepsOfTheWorker
<1>2. CASE UNCHANGED <<dbVars, tx>>
  BY <1>2 DEF AutoOffInv, AutoOffHolds, dbVars
<1> QED
  BY <1>1, <1>2 DEF Next, Tap, Command, Arrive, vars

\* With one worker and a threshold above zero, whoever has left as many offers
\* in a row unanswered is OFF: no answer, AVAILABLE, OFF or timeout that comes
\* in between is lost.
THEOREM AutoOffIsKept ==
    OneWorker /\ AutoOffThreshold > 0 => (Spec => []AutoOffHolds)
<1> SUFFICES ASSUME OneWorker, AutoOffThreshold > 0 PROVE Spec => []AutoOffHolds
  OBVIOUS
<1>1. Init => AutoOffInv
  BY AutoOffInit
<1>2. CoreInv /\ AutoOffInv /\ [Next]_vars => AutoOffInv'
  BY AutoOffStep
<1>3. AutoOffInv => AutoOffHolds
  BY DEF AutoOffInv
<1> QED
  BY <1>1, <1>2, <1>3, CoreInvariant, PTL DEF Spec

-----------------------------------------------------------------------------
(* The end of a request                                                    *)

\* An assignment is never written over by an unfilled, or otherwise undone.
MatchedIsAssigned ==
    \A r \in Requests, p \in Providers : <<r, p>> \in assigned => request[r] = "assigned"

EndsOnce ==
    [][\A r \in Requests : request[r] # "dispatching" => request'[r] = request[r]]_vars

\* Whoever drives a request, or is about to write its state, has found it
\* dispatching, and so it is.
Found(t, reqs) ==
    t.job.req \in Requests /\ (t.pc \in Planning \/ t.request # Keep) =>
        reqs[t.job.req] = "dispatching"

RequestInv ==
    /\ MatchedIsAssigned
    /\ \A w \in Workers : Found(tx[w], request)

LEMMA RequestInit == ASSUME Init PROVE RequestInv
BY IdleShape DEF Init, RequestInv, MatchedIsAssigned, Found, Planning

\* A COMMIT ends the request it found dispatching, and touches no other.
LEMMA CommitRequest ==
    ASSUME OneWorker, CoreInv, RequestInv, NEW w \in Workers, TakeEffect(w)
    PROVE  /\ RequestInv'
           /\ \A r \in Requests : request[r] # "dispatching" => request'[r] = request[r]
<1> DEFINE t == tx[w]
<1>1. /\ request' = [q \in Requests |->
                       IF q = t.job.req THEN Merge(request[q], t.request) ELSE request[q]]
      /\ tx'[w] = Idle
  BY DEF TakeEffect, Req, Goto, CoreInv, CoreType
<1>2. /\ t.charge => assigned' = assigned \cup {<<t.job.req, t.job.prov>>}
      /\ ~ t.charge => assigned' = assigned
  BY DEF TakeEffect, Req, Prov
<1>3. Found(t, request) /\ (t.charge => t.request = "assigned") /\ t.charge \in BOOLEAN
  BY DEF RequestInv, CoreInv, CoreType, TxShape, AcceptanceInv, ChargeUnderLock
<1>4. \A r \in Requests : request[r] # "dispatching" => request'[r] = request[r]
  BY <1>1, <1>3 DEF Found, Merge
<1>5. MatchedIsAssigned'
  <2> SUFFICES ASSUME NEW r \in Requests, NEW p \in Providers, <<r, p>> \in assigned'
               PROVE  request'[r] = "assigned"
    BY DEF MatchedIsAssigned
  <2>1. CASE <<r, p>> \in assigned
    BY <1>4, <2>1 DEF RequestInv, MatchedIsAssigned
  <2>2. CASE <<r, p>> \notin assigned
    BY <1>1, <1>2, <1>3, <2>2 DEF Merge
  <2> QED
    BY <2>1, <2>2
<1>6. Found(Idle, request')
  BY IdleShape DEF Found, Planning
<1> QED
  BY <1>1, <1>4, <1>5, <1>6 DEF OneWorker, RequestInv

LEMMA InsideRequest ==
    ASSUME CoreInv, RequestInv, NEW w \in Workers, Step(w) \/ Fault(w) \/ LoseAck(w) \/ Crash(w),
           ~ Committing(w)
    PROVE  UNCHANGED dbVars /\ Found(tx'[w], request)
<1> DEFINE s == tx[w]
           t == tx'[w]
<1>1. /\ TxShape(s) /\ Found(s, request)
      /\ \A u : Goto(w, u) => tx'[w] = u
  BY DEF RequestInv, CoreInv, CoreType, Goto
<1> USE DEF At
<1>2. CASE GoesOn(s, t) /\ UNCHANGED dbVars
  BY <1>1, <1>2 DEF GoesOn, Found
<1>3. CASE t = Idle /\ UNCHANGED dbVars
  BY <1>3, IdleShape DEF Found, Planning
<1>4. CASE \E j \in jobs : Claim(w, j)
  <2>1. PICK job : t = [Idle EXCEPT !.pc = FirstStep(job), !.job = job,
                                    !.seen = Seen(job.prov)]
    BY <1>4, Claiming
  <2>2. t.request = Keep /\ t.pc = FirstStep(job) /\ t.job = job
    BY <2>1 DEF Idle
  <2>3. FirstStep(job) \in Planning => request[job.req] = "dispatching"
    BY DEF FirstStep, StillDispatching, Planning
  <2> QED
    BY <1>4, <2>2, <2>3, Claiming DEF Found
<1>5. CASE Unfill(w)
  <2>1. t.job = s.job /\ s.pc = "unfill"
    BY <1>1, <1>5 DEF Unfill, TxShape
  <2> QED
    BY <1>1, <1>5, <2>1, Writing DEF Found, Planning
<1>6. CASE CountUnanswered(w)
  <2>1. t.job = s.job /\ s.pc = "count"
    BY <1>1, <1>6 DEF CountUnanswered, TxShape
  <2> QED
    BY <1>1, <1>6, <2>1, Writing DEF Found, Planning
<1>7. CASE BumpUnanswered(w)
  BY <1>1, <1>7, Bumping DEF Found, Planning
<1>8. CASE Charge(w) /\ CanPay(Prov(w))
  <2>1. s.job.req \in Requests => request[s.job.req] = "dispatching"
    BY <1>8, Charging DEF CoreInv, AcceptanceInv, ChargeUnderLock, Req
  <2> QED
    BY <1>8, <2>1, Charging DEF Found
<1>9. CASE \/ ResetUnanswered(w) \/ ToggleAvailable(w)
           \/ GrantFree(w) \/ CountFree(w) \/ AdjustFree(w)
  <2>1. /\ t.job = s.job /\ t.request = s.request /\ UNCHANGED dbVars
        /\ t.pc \in {"decline", "adjust", "commit"}
    <3>1. CASE ResetUnanswered(w)
      BY <1>1, <3>1 DEF ResetUnanswered, AfterReset, TxShape
    <3>2. CASE ToggleAvailable(w)
      BY <1>1, <3>2 DEF ToggleAvailable, TxShape
    <3>3. CASE GrantFree(w) \/ CountFree(w) \/ AdjustFree(w)
      BY <1>1, <3>3 DEF GrantFree, CountFree, AdjustFree, TxShape
    <3> QED
      BY <1>9, <3>1, <3>2, <3>3
  <2> QED
    BY <1>1, <2>1 DEF Found, Planning
<1> QED
  BY <1>2, <1>3, <1>4, <1>5, <1>6, <1>7, <1>8, <1>9, StepsOfTheWorker

LEMMA RequestStep ==
    ASSUME OneWorker, CoreInv, RequestInv, [Next]_vars
    PROVE  /\ RequestInv'
           /\ \A r \in Requests : request[r] # "dispatching" => request'[r] = request[r]
<1>1. ASSUME NEW w \in Workers, Step(w) \/ Fault(w) \/ LoseAck(w) \/ Crash(w), ~ Committing(w)
      PROVE  RequestInv' /\ UNCHANGED request
  BY <1>1, InsideRequest DEF OneWorker, RequestInv, MatchedIsAssigned, dbVars
<1>2. CASE UNCHANGED <<dbVars, tx>>
  BY <1>2 DEF RequestInv, MatchedIsAssigned, dbVars
<1> QED
  BY <1>1, <1>2, CommitRequest, Effective DEF Next, Tap, Command, Arrive, vars

\* With one worker a wave that runs out never writes unfilled over the
\* acceptance that beat it: who is matched stays matched, ...
THEOREM MatchedIsAssignedHolds == OneWorker => (Spec => []MatchedIsAssigned)
<1> SUFFICES ASSUME OneWorker PROVE Spec => []MatchedIsAssigned
  OBVIOUS
<1>1. Init => RequestInv
  BY RequestInit
<1>2. CoreInv /\ RequestInv /\ [Next]_vars => RequestInv'
  BY RequestStep
<1>3. RequestInv => MatchedIsAssigned
  BY DEF RequestInv
<1> QED
  BY <1>1, <1>2, <1>3, CoreInvariant, PTL DEF Spec

\* ... and a request that has ended, either way, is not written again.
THEOREM RequestsEndOnce == OneWorker => (Spec => EndsOnce)
<1> SUFFICES ASSUME OneWorker PROVE Spec => EndsOnce
  OBVIOUS
<1>1. Init => RequestInv
  BY RequestInit
<1>2. CoreInv /\ RequestInv /\ [Next]_vars =>
        RequestInv' /\ \A r \in Requests :
                          request[r] # "dispatching" => request'[r] = request[r]
  BY RequestStep
<1> QED
  BY <1>1, <1>2, CoreInvariant, PTL DEF Spec, EndsOnce

-----------------------------------------------------------------------------
(* Offers. Each handler is judged by what it has written so far: nothing,  *)
(* the expiry of a wave, the next wave, an acceptance or a refusal. What   *)
(* rests on a single chain of waves is not asked of a request whose chain  *)
(* is forked.                                                              *)

\* Who a list, or a list of waves, has still to come to.
OnList(s, p) == \E i \in 1 .. Len(s) : s[i] = p
InWaves(waves, p) == \E i \in 1 .. Len(waves) : OnList(waves[i], p)

\* The rest of a wave and the waves after it ask nobody twice.
AskOnce(todo, rest) ==
    /\ \A x, y \in 1 .. Len(todo) : todo[x] = todo[y] => x = y
    /\ \A p : ~ (OnList(todo, p) /\ InWaves(rest, p))

\* He can be made an offer of r, given the offers of r. When the chain of r is
\* forked, the other branch may have made it.
Askable(r, p, offers, forked) == (forked \/ offers[p] = NoOffer) /\ p \in Qualified[r]

Asked(p, offers) == offers[p].st = "sent"

\* The providers a job has still to ask have no offer of its request yet; the
\* offers that wait for an answer are those of the wave it times out.
Ready(j, r, offers, forked) ==
    /\ OnceEach(j.rest)
    /\ \A p \in Providers : InWaves(j.rest, p) => Askable(r, p, offers, forked)
    /\ ~ forked => \A p \in Providers : Asked(p, offers) => WaveOf(offers[p].id) = PrevWave(j)
    /\ j.kind = "dispatch" =>
          j.wave = 1 /\ (~ forked => \A p \in Providers : offers[p] = NoOffer)

\* The worker has written nothing of the request, ...
Resting(t, offers) ==
    /\ \A p \in Providers : t.offers[p] = Keep
    /\ t.request = Keep /\ t.charge = FALSE /\ t.out = {}
    /\ t.pc \notin {"offer", "expire", "count", "bump", "unfill", "withdraw"}
    /\ t.pc \in {"lockRequest", "charge", "reset", "decline"} => Asked(t.job.prov, offers)
    /\ t.pc = "reset" => t.job.kind = "decline"
    /\ t.pc = "plan" => t.job.kind = "dispatch"
    /\ t.pc # "commit" \/ t.job.kind \in Drivers => t.entry = 0

\* ... or lets the offers of a wave expire, and leaves the request unfilled
\* when there is no other, ...
LettingExpire(t, offers, forked) ==
    /\ t.pc \in {"expire", "count", "bump", "unfill", "commit"}
    /\ t.request = IF t.pc = "commit" THEN "unfilled" ELSE Keep
    /\ t.out = {}
    /\ \A p \in Providers :
          /\ t.offers[p] \in {Keep, "expired"}
          /\ t.offers[p] = "expired" => Asked(p, offers)
          /\ ~ forked /\ Asked(p, offers) =>
                t.offers[p] = "expired" \/ (t.pc = "expire" /\ OnList(t.todo, p))
          /\ t.pc = "expire" /\ OnList(t.todo, p) => Asked(p, offers)

\* ... or goes on with the next wave, ...
Offering(t, r, offers, forked) ==
    /\ t.pc \in {"offer", "commit"}
    /\ t.request = Keep
    /\ \A p \in Providers :
          /\ t.offers[p] \in {Keep, "expired", "sent", "failed"}
          /\ t.offers[p] = "expired" => Asked(p, offers)
          /\ ~ forked /\ Asked(p, offers) => t.offers[p] = "expired"
          /\ t.offers[p] \in {"sent", "failed"} => Askable(r, p, offers, FALSE)
          /\ t.pc = "offer" /\ OnList(t.todo, p) => Askable(r, p, offers, forked)
    /\ \E j \in t.out :
          /\ t.out = {j} /\ j.kind = "advance" /\ j.req = r /\ PrevWave(j) = t.job.wave
          /\ OnceEach(j.rest)
          /\ t.pc = "offer" => AskOnce(t.todo, j.rest)
          /\ \A p \in Providers : InWaves(j.rest, p) =>
                Askable(r, p, offers, forked) /\ (~ forked => t.offers[p] = Keep)

\* ... or charges who accepts and withdraws the other offers, ...
Accepting(t, offers) ==
    /\ t.pc \in {"withdraw", "reset", "commit"}
    /\ t.job.kind = "accept" /\ t.charge = TRUE /\ t.request = "assigned"
    /\ \A j \in t.out : j.kind \notin Drivers
    /\ \A p \in Providers :
          /\ t.offers[p] \in {Keep, "accepted", "withdrawn"}
          /\ t.offers[p] # Keep => Asked(p, offers)
          /\ t.offers[p] = "accepted" <=> p = t.job.prov
          /\ Asked(p, offers) => t.offers[p] # Keep \/ (t.pc = "withdraw" /\ OnList(t.todo, p))
          /\ t.pc = "withdraw" /\ OnList(t.todo, p) => p # t.job.prov /\ Asked(p, offers)

\* ... or has written that the provider declines.
Declining(t, offers) ==
    /\ t.pc = "commit" /\ t.job.kind = "decline"
    /\ t.request = Keep /\ t.charge = FALSE /\ t.out = {}
    /\ \A p \in Providers : t.offers[p] = IF p = t.job.prov THEN "declined" ELSE Keep
    /\ Asked(t.job.prov, offers)

Handling(t, r, offers, state, forked) ==
    \/ Resting(t, offers)
    \/ /\ t.job.kind \in Drivers /\ t.charge = FALSE /\ t.entry = 0
       /\ state = "dispatching"
       /\ LettingExpire(t, offers, forked) \/ Offering(t, r, offers, forked)
    \/ Accepting(t, offers)
    \/ Declining(t, offers)

Handles(t, offers, states, forks) ==
    t.job.req \in Requests =>
        Handling(t, t.job.req, offers[t.job.req], states[t.job.req], t.job.req \in forks)

AllReady(S, offers, states, forks) ==
    \A j \in S, r \in Requests :
        Drives(j, r) /\ states[r] = "dispatching" => Ready(j, r, offers[r], r \in forks)

OffersAreDue == \A r \in Requests, p \in Providers : offer[r][p] # NoOffer => p \in Qualified[r]

WaveInv ==
    /\ TablesAgree /\ OffersAreDue
    /\ AllReady(Queue, offer, request, doubtful)
    /\ AllReady({tx[w].job : w \in Workers}, offer, request, doubtful)
    /\ \A w \in Workers : Handles(tx[w], offer, request, doubtful)

-----------------------------------------------------------------------------
(* The steps of a handler                                                  *)

\* Lists and waves, one taken off.
LEMMA OneOff ==
    ASSUME NEW s \in Seq(Providers), s # <<>>, NEW p
    PROVE  /\ OnList(s, p) <=> p = Head(s) \/ OnList(Tail(s), p)
           /\ Len(s) = 1 => (OnList(s, p) <=> p = Head(s))
           /\ OnList(s, Head(s))
<1>1. /\ Tail(s) \in Seq(Providers) /\ Len(s) \in Nat \ {0} /\ Head(s) = s[1]
      /\ Len(Tail(s)) = Len(s) - 1
      /\ \A i \in 1 .. Len(Tail(s)) : i + 1 \in 1 .. Len(s) /\ Tail(s)[i] = s[i + 1]
  BY Taken
<1>2. 1 \in 1 .. Len(s)
  BY <1>1
<1>3. ASSUME OnList(Tail(s), p) PROVE OnList(s, p)
  BY <1>1, <1>3 DEF OnList
<1>4. ASSUME OnList(s, p), p # Head(s) PROVE OnList(Tail(s), p)
  <2>1. PICK i \in 1 .. Len(s) : s[i] = p
    BY <1>4 DEF OnList
  <2>2. i # 1
    BY <1>1, <1>4, <2>1
  <2>3. i - 1 \in 1 .. Len(Tail(s)) /\ (i - 1) + 1 = i
    BY <1>1, <2>1, <2>2
  <2>4. Tail(s)[i - 1] = s[i]
    BY <1>1, <2>3
  <2> QED
    BY <2>1, <2>3, <2>4 DEF OnList
<1>5. OnList(s, Head(s))
  BY <1>1, <1>2 DEF OnList
<1>6. Len(s) = 1 /\ OnList(s, p) => p = Head(s)
  <2>1. Len(s) = 1 => \A i \in 1 .. Len(s) : i = 1
    BY <1>1
  <2> QED
    BY <1>1, <2>1 DEF OnList
<1> QED
  BY <1>3, <1>4, <1>5, <1>6

LEMMA OnEmpty == \A p : ~ OnList(<<>>, p) /\ ~ InWaves(<<>>, p)
<1>1. Len(<<>>) = 0
  OBVIOUS
<1> QED
  BY <1>1 DEF OnList, InWaves

\* The first of some waves and the others.
LEMMA FirstWave ==
    ASSUME NEW V, NEW waves \in Seq(V), waves # <<>>, OnceEach(waves)
    PROVE  /\ OnceEach(Tail(waves)) /\ AskOnce(Head(waves), Tail(waves))
           /\ \A p : OnList(Head(waves), p) \/ InWaves(Tail(waves), p) => InWaves(waves, p)
<1> DEFINE rest == Tail(waves)
           first == Head(waves)
<1>1. /\ Len(waves) \in Nat \ {0} /\ first = waves[1]
      /\ Len(rest) = Len(waves) - 1
      /\ \A i \in 1 .. Len(rest) : i + 1 \in 1 .. Len(waves) /\ rest[i] = waves[i + 1]
  BY Taken
<1>2. 1 \in 1 .. Len(waves) /\ \A i \in 1 .. Len(rest) : i \in Nat /\ i + 1 # 1
  BY <1>1
<1> HIDE DEF rest, first
<1>3. OnceEach(rest)
  <2> SUFFICES ASSUME NEW i \in 1 .. Len(rest), NEW k \in 1 .. Len(rest),
                      NEW x \in 1 .. Len(rest[i]), NEW y \in 1 .. Len(rest[k]),
                      rest[i][x] = rest[k][y]
               PROVE  i = k /\ x = y
    BY DEF OnceEach
  <2>1. /\ i + 1 \in 1 .. Len(waves) /\ k + 1 \in 1 .. Len(waves)
        /\ x \in 1 .. Len(waves[i + 1]) /\ y \in 1 .. Len(waves[k + 1])
        /\ waves[i + 1][x] = waves[k + 1][y]
    BY <1>1
  <2>2. i + 1 = k + 1 /\ x = y
    BY <2>1 DEF OnceEach
  <2> QED
    BY <1>2, <2>2
<1>4. \A x, y \in 1 .. Len(first) : first[x] = first[y] => x = y
  BY <1>1, <1>2 DEF OnceEach
<1>5. ASSUME NEW p, OnList(first, p), InWaves(rest, p) PROVE FALSE
  <2>1. PICK x \in 1 .. Len(first) : first[x] = p
    BY <1>5 DEF OnList
  <2>2. PICK i \in 1 .. Len(rest) : \E y \in 1 .. Len(rest[i]) : rest[i][y] = p
    BY <1>5 DEF InWaves, OnList
  <2>3. PICK y \in 1 .. Len(rest[i]) : rest[i][y] = p
    BY <2>2
  <2>4. 1 = i + 1
    BY <1>1, <1>2, <2>1, <2>3 DEF OnceEach
  <2> QED
    BY <1>2, <2>4
<1>6. ASSUME NEW p, OnList(first, p) \/ InWaves(rest, p) PROVE InWaves(waves, p)
  BY <1>1, <1>2, <1>6 DEF InWaves
<1> QED
  BY <1>3, <1>4, <1>5, <1>6 DEF rest, first, AskOnce

LEMMA OneAsked ==
    ASSUME NEW s \in Seq(Providers), s # <<>>, NEW rest, AskOnce(s, rest)
    PROVE  /\ AskOnce(Tail(s), rest) /\ ~ OnList(Tail(s), Head(s)) /\ ~ InWaves(rest, Head(s))
<1>1. /\ Tail(s) \in Seq(Providers) /\ Len(s) \in Nat \ {0} /\ Head(s) = s[1]
      /\ Len(Tail(s)) = Len(s) - 1
      /\ \A i \in 1 .. Len(Tail(s)) : i + 1 \in 1 .. Len(s) /\ Tail(s)[i] = s[i + 1]
  BY Taken
<1>2. 1 \in 1 .. Len(s)
  BY <1>1
<1>3. ~ OnList(Tail(s), Head(s))
  <2> SUFFICES ASSUME NEW i \in 1 .. Len(Tail(s)), Tail(s)[i] = s[1] PROVE FALSE
    BY <1>1 DEF OnList
  <2>1. i + 1 = 1
    BY <1>1, <1>2 DEF AskOnce
  <2> QED
    BY <1>1, <2>1
<1>4. ASSUME NEW x \in 1 .. Len(Tail(s)), NEW y \in 1 .. Len(Tail(s)), Tail(s)[x] = Tail(s)[y]
      PROVE  x = y
  <2>1. x + 1 = y + 1
    BY <1>1, <1>4 DEF AskOnce
  <2> QED
    BY <1>1, <2>1
<1>5. \A p : ~ (OnList(Tail(s), p) /\ InWaves(rest, p)) /\ ~ InWaves(rest, Head(s))
  BY OneOff DEF AskOnce
<1> QED
  BY <1>3, <1>4, <1>5 DEF AskOnce

\* Nothing has been written of a request with no place in the tables.
LEMMA IdleHandles ==
    ASSUME NEW offers, NEW states, NEW forks PROVE Handles(Idle, offers, states, forks)
BY DispatchAssumption DEF Idle, Job, Handles

\* What the worker is at, by its next step.
LEMMA Whereabouts ==
    ASSUME TypeInv, WaveInv, NEW w \in Workers, tx[w].job.req \in Requests
    PROVE  LET s == tx[w]
               r == s.job.req
           IN  /\ s.pc \in Steps \ {"expire", "count", "bump", "unfill", "offer", "withdraw",
                                    "reset", "commit"} => Resting(s, offer[r])
               /\ s.pc \in {"expire", "count", "bump", "unfill"} => LettingExpire(s, offer[r], r \in doubtful)
               /\ s.pc = "offer" => Offering(s, r, offer[r], r \in doubtful)
               /\ s.pc = "withdraw" => Accepting(s, offer[r])
               /\ s.pc = "reset" => Resting(s, offer[r]) \/ Accepting(s, offer[r])
               /\ s.pc \in {"expire", "count", "bump", "unfill", "offer"} =>
                      s.job.kind \in Drivers /\ s.charge = FALSE /\ s.entry = 0
                      /\ request[r] = "dispatching"
<1> DEFINE s == tx[w]
           r == s.job.req
<1>1. Handling(s, r, offer[r], request[r], r \in doubtful)
  BY DEF WaveInv, Handles
<1> HIDE DEF s, r
<1>2. /\ s.pc \in Steps \ {"expire", "count", "bump", "unfill", "offer", "withdraw",
                                    "reset", "commit"} => Resting(s, offer[r])
      /\ s.pc \in {"expire", "count", "bump", "unfill"} => LettingExpire(s, offer[r], r \in doubtful)
      /\ s.pc = "offer" => Offering(s, r, offer[r], r \in doubtful)
      /\ s.pc = "withdraw" => Accepting(s, offer[r])
      /\ s.pc = "reset" => Resting(s, offer[r]) \/ Accepting(s, offer[r])
      /\ s.pc \in {"expire", "count", "bump", "unfill", "offer"} =>
            s.job.kind \in Drivers /\ s.charge = FALSE /\ s.entry = 0
            /\ request[r] = "dispatching"
  BY <1>1 DEF Handling, Resting, LettingExpire, Offering, Accepting, Declining
<1> QED
  BY <1>2 DEF s, r

\* What the plan of a first or a later wave rests on.
LEMMA ReadyToPlan ==
    ASSUME TypeInv, RequestInv, WaveInv, NEW w \in Workers, tx[w].pc \in Planning
    PROVE  LET j == tx[w].job
           IN  /\ j.req \in Requests /\ j.kind \in Drivers
               /\ request[j.req] = "dispatching" /\ Ready(j, j.req, offer[j.req], j.req \in doubtful)
<1> DEFINE j == tx[w].job
<1>1. j.req \in Requests /\ j.kind \in Drivers /\ Drives(j, j.req)
  BY Running, Whom DEF Performs, Drives, Drivers
<1>2. request[j.req] = "dispatching"
  BY <1>1 DEF RequestInv, Found
<1>3. Ready(j, j.req, offer[j.req], j.req \in doubtful)
  BY <1>1, <1>2 DEF WaveInv, AllReady
<1> QED
  BY <1>1, <1>2, <1>3

\* The offers to the next wave begin where the expiry ends.
LEMMA ExpiryHandled ==
    ASSUME NEW t, GoodTx(t), t.job.req \in Requests, NEW r, r = t.job.req, NEW offers, NEW forked,
           Ready(t.job, r, offers, forked),
           t.request = Keep, t.out = {},
           t.job.kind \in Drivers, t.charge = FALSE, t.entry = 0,
           \A p \in Providers : /\ t.offers[p] \in {Keep, "expired"}
                                /\ t.offers[p] = "expired" => Asked(p, offers)
                                /\ ~ forked /\ Asked(p, offers) => t.offers[p] = "expired"
    PROVE  Handling(AfterExpiry(t), r, offers, "dispatching", forked)
<1> DEFINE u == AfterExpiry(t)
           rest == t.job.rest
           V == Seq(Providers)
           j == AdvanceJob(t.job.req, t.job.wave + 1, Tail(rest), t.job.n)
<1>1. t \in TxType /\ t.job \in JobType /\ rest \in Seq(V) /\ t.job.wave \in Nat
  BY GoodFields, JobFields DEF GoodTx, Rests
<1>2. CASE rest = <<>>
  <2>1. u = [t EXCEPT !.pc = "unfill"]
    BY <1>2 DEF AfterExpiry
  <2>2. /\ u.pc = "unfill" /\ u.request = Keep /\ u.out = {} /\ u.offers = t.offers
        /\ u.job = t.job /\ u.charge = FALSE /\ u.entry = 0
    BY <1>1, <2>1 DEF TxType
  <2> HIDE DEF u
  <2>3. LettingExpire(u, offers, forked)
    BY <2>2 DEF LettingExpire
  <2>4. Handling(u, r, offers, "dispatching", forked)
    BY <2>2, <2>3 DEF Handling
  <2> QED
    BY <2>4 DEF u
<1>3. CASE rest # <<>>
  <2>1. /\ OnceEach(Tail(rest)) /\ AskOnce(Head(rest), Tail(rest))
        /\ \A p : OnList(Head(rest), p) \/ InWaves(Tail(rest), p) => InWaves(rest, p)
    <3>1. OnceEach(rest)
      BY DEF Ready
    <3> HIDE DEF V, rest
    <3> QED
      BY <1>1, <1>3, <3>1, FirstWave
  <2>2. \A p \in Providers : InWaves(rest, p) =>
            Askable(r, p, offers, forked) /\ (~ forked => t.offers[p] = Keep)
    <3>1. \A p \in Providers : InWaves(rest, p) => Askable(r, p, offers, forked)
      BY DEF Ready
    <3>2. ~ forked => \A p \in Providers : Askable(r, p, offers, forked) => ~ Asked(p, offers)
      BY DEF Askable, Asked, NoOffer
    <3> HIDE DEF rest
    <3> QED
      BY <3>1, <3>2
  <2>3. u = [t EXCEPT !.pc = "offer", !.todo = Head(rest), !.out = {j}]
    BY <1>3 DEF AfterExpiry
  <2>4. /\ j.kind = "advance" /\ j.req = r /\ j.wave = t.job.wave + 1 /\ j.rest = Tail(rest)
    BY DEF AdvanceJob, Job
  <2>5. PrevWave(j) = t.job.wave
    <3> HIDE DEF j
    <3> QED
      BY <1>1, <2>4 DEF PrevWave
  <2> HIDE DEF j, rest
  <2>6. /\ u.pc = "offer" /\ u.request = Keep /\ u.out = {j} /\ u.offers = t.offers
        /\ u.job = t.job /\ u.charge = FALSE /\ u.entry = 0 /\ u.todo = Head(rest)
    BY <1>1, <2>3 DEF TxType
  <2> HIDE DEF u
  <2>7. \A p \in Providers :
          /\ u.offers[p] \in {Keep, "expired", "sent", "failed"}
          /\ u.offers[p] = "expired" => Asked(p, offers)
          /\ ~ forked /\ Asked(p, offers) => u.offers[p] = "expired"
          /\ u.offers[p] \in {"sent", "failed"} => Askable(r, p, offers, FALSE)
          /\ u.pc = "offer" /\ OnList(u.todo, p) => Askable(r, p, offers, forked)
    <3> SUFFICES ASSUME NEW p \in Providers
                 PROVE  /\ u.offers[p] \in {Keep, "expired"}
                        /\ u.offers[p] = "expired" => Asked(p, offers)
                        /\ ~ forked /\ Asked(p, offers) => u.offers[p] = "expired"
                        /\ OnList(u.todo, p) => Askable(r, p, offers, forked)
      BY <2>6
    <3>1. OnList(u.todo, p) => InWaves(rest, p)
      BY <2>1, <2>6
    <3> QED
      BY <2>2, <2>6, <3>1
  <2>8. /\ u.out = {j} /\ j.kind = "advance" /\ j.req = r /\ PrevWave(j) = u.job.wave
        /\ OnceEach(j.rest)
        /\ u.pc = "offer" => AskOnce(u.todo, j.rest)
        /\ \A p \in Providers : InWaves(j.rest, p) =>
              Askable(r, p, offers, forked) /\ (~ forked => u.offers[p] = Keep)
    BY <2>1, <2>2, <2>4, <2>5, <2>6
  <2>9. Offering(u, r, offers, forked)
    <3>1. u.pc \in {"offer", "commit"} /\ u.request = Keep /\ j \in u.out
      BY <2>6
    <3> QED
      BY <2>7, <2>8, <3>1 DEF Offering
  <2>10. Handling(u, r, offers, "dispatching", forked)
    BY <2>6, <2>9 DEF Handling
  <2> QED
    BY <2>10 DEF u
<1> QED
  BY <1>2, <1>3

LEMMA PlanHandled ==
    ASSUME TypeInv, RequestInv, WaveInv, NEW w \in Workers, PlanWaves(w)
    PROVE  \E t : Goto(w, t) /\ Handles(t, offer, request, doubtful)
<1> DEFINE s == tx[w]
           r == s.job.req
           o == offer[r]
           forked == r \in doubtful
           eligible == Eligible(r)
           V == Seq(Providers)
<1>1. /\ GoodTx(s) /\ s \in TxType /\ Performs(s) /\ s.pc = "plan"
      /\ s.job.kind \in Drivers /\ r \in Requests /\ request[r] = "dispatching"
      /\ Ready(s.job, r, o, forked)
  BY Running, ReadyToPlan DEF PlanWaves, At, Planning
<1>2. Resting(s, o)
  BY <1>1, Whereabouts DEF Steps
<1>3. /\ s.job.kind = "dispatch" /\ s.entry = 0 /\ s.charge = FALSE /\ s.request = Keep
      /\ s.out = {} /\ s.job.wave = 1 /\ \A p \in Providers : s.offers[p] = Keep
      /\ ~ forked => \A p \in Providers : o[p] = NoOffer
  BY <1>1, <1>2 DEF Resting, Ready
<1>4. ~ forked => \A p \in Providers : ~ Asked(p, o)
  BY <1>3 DEF Asked, NoOffer
<1>5. SUFFICES \E t : Goto(w, t) /\ t.job = s.job /\ Handling(t, r, o, "dispatching", forked)
  BY <1>1 DEF Handles
<1>6. CASE eligible = {}
  <2> DEFINE t == [s EXCEPT !.pc = "unfill"]
  <2>1. Goto(w, t)
    BY <1>6 DEF PlanWaves, Req
  <2>2. /\ t.pc = "unfill" /\ t.request = Keep /\ t.out = {} /\ t.offers = s.offers
        /\ t.job = s.job /\ t.charge = FALSE /\ t.entry = 0
    BY <1>1, <1>3 DEF TxType
  <2> HIDE DEF t
  <2>3. LettingExpire(t, o, forked)
    BY <1>3, <1>4, <2>2 DEF LettingExpire
  <2>4. Handling(t, r, o, "dispatching", forked)
    BY <1>1, <2>2, <2>3 DEF Handling
  <2> QED
    BY <2>1, <2>2, <2>4
<1>7. CASE eligible # {}
  <2>1. PICK ranked \in Rankings(eligible) :
          LET waves == SplitIntoWaves(ColdStartFirst(ranked, Cold(eligible)), WaveSizes)
          IN  Goto(w, [s EXCEPT !.pc = "offer", !.todo = waves[1],
                                !.out = {AdvanceJob(r, 2, Tail(waves), s.job.att)}])
    BY <1>7 DEF PlanWaves, Req
  <2> DEFINE waves == SplitIntoWaves(ColdStartFirst(ranked, Cold(eligible)), WaveSizes)
             first == Head(waves)
             rest == Tail(waves)
             j == AdvanceJob(r, 2, rest, s.job.att)
             t == [s EXCEPT !.pc = "offer", !.todo = first, !.out = {j}]
  <2>2. eligible \in SUBSET Providers /\ IsFiniteSet(eligible) /\ eligible \subseteq Qualified[r]
    BY <1>1, DispatchAssumption, FS_Subset DEF Eligible
  <2>3. waves \in Seq(Seq(eligible)) /\ waves # <<>> /\ OnceEach(waves)
    <3> DEFINE cold == Cold(eligible)
    <3>1. ranked \in SetToSeqs(eligible) /\ WaveSizes \in Seq(Nat)
      BY DispatchAssumption DEF Rankings
    <3> HIDE DEF eligible, cold
    <3>2. LET c == ColdStartFirst(ranked, cold)
              v == SplitIntoWaves(c, WaveSizes)
          IN  /\ v \in Seq(Seq(eligible))
              /\ OnceEach(v)
              /\ eligible # {} => v # <<>>
      BY <2>2, <3>1, PlanOnce
    <3> QED
      BY <1>7, <3>2 DEF cold
  <2> DEFINE E == Seq(eligible)
  <2>4. /\ first = waves[1]
        /\ OnceEach(rest) /\ AskOnce(first, rest)
        /\ \A p : OnList(first, p) \/ InWaves(rest, p) => InWaves(waves, p)
    <3> HIDE DEF E, waves
    <3> QED
      BY <2>3, FirstWave, Taken DEF E
  <2>5. \A p : InWaves(waves, p) => p \in eligible
    <3> SUFFICES ASSUME NEW p, NEW i \in 1 .. Len(waves), OnList(waves[i], p) PROVE p \in eligible
      BY DEF InWaves
    <3> HIDE DEF E, waves, eligible
    <3>1. waves[i] \in E
      BY <2>3 DEF E
    <3> QED
      BY <3>1 DEF E, OnList
  <2>6. Goto(w, t)
    BY <2>1, <2>4
  <2>7. j.kind = "advance" /\ j.req = r /\ j.wave = 2 /\ j.rest = rest
    BY DEF AdvanceJob, Job
  <2>8. PrevWave(j) = s.job.wave
    <3> HIDE DEF j
    <3> QED
      BY <1>3, <2>7 DEF PrevWave
  <2>9. \A p \in Providers : OnList(first, p) \/ InWaves(rest, p) =>
            s.offers[p] = Keep /\ Askable(r, p, o, forked)
    <3>1. \A p \in eligible : o[p] = NoOffer
      BY DEF Eligible
    <3> HIDE DEF first, rest, waves, eligible
    <3> QED
      BY <1>3, <2>2, <2>4, <2>5, <3>1 DEF Askable
  <2> HIDE DEF j, first, rest, waves, E, eligible
  <2>10. /\ t.pc = "offer" /\ t.request = Keep /\ t.out = {j} /\ t.offers = s.offers
         /\ t.job = s.job /\ t.charge = FALSE /\ t.entry = 0 /\ t.todo = first
    BY <1>1, <1>3 DEF TxType
  <2> HIDE DEF t
  <2>11. /\ t.out = {j} /\ j.kind = "advance" /\ j.req = r /\ PrevWave(j) = t.job.wave
         /\ OnceEach(j.rest) /\ AskOnce(t.todo, j.rest)
         /\ \A p \in Providers : InWaves(j.rest, p) =>
                Askable(r, p, o, forked) /\ (~ forked => t.offers[p] = Keep)
    BY <2>4, <2>7, <2>8, <2>9, <2>10
  <2>12. \A p \in Providers :
           /\ t.offers[p] = Keep /\ (~ forked => ~ Asked(p, o))
           /\ OnList(t.todo, p) => Askable(r, p, o, forked)
    BY <1>3, <1>4, <2>9, <2>10
  <2>13. Offering(t, r, o, forked)
    <3>1. t.pc \in {"offer", "commit"} /\ t.request = Keep /\ j \in t.out
      BY <2>10
    <3> HIDE DEF r, o
    <3> QED
      BY <2>11, <2>12, <3>1 DEF Offering
  <2>14. Handling(t, r, o, "dispatching", forked)
    BY <1>1, <2>10, <2>13 DEF Handling
  <2> QED
    BY <2>6, <2>10, <2>14
<1> QED
  BY <1>6, <1>7

LEMMA SendHandled ==
    ASSUME TypeInv, RequestInv, WaveInv, NEW w \in Workers, SendOffer(w)
    PROVE  \E t : Goto(w, t) /\ Handles(t, offer, request, doubtful)
<1> DEFINE s == tx[w]
           r == s.job.req
           o == offer[r]
           forked == r \in doubtful
           p == Head(s.todo)
           u(st) == [s EXCEPT !.offers[p] = st, !.todo = Tail(@),
                              !.pc = IF Len(s.todo) = 1 THEN "commit" ELSE @]
<1>1. GoodTx(s) /\ s \in TxType /\ s.pc = "offer"
  BY Running DEF SendOffer, At
<1>2. /\ r \in Requests /\ p \in Providers /\ s.todo \in Seq(Providers) /\ s.todo # <<>>
  BY <1>1, Whom DEF Planning, Listing
<1>3. /\ Offering(s, r, o, forked) /\ s.job.kind \in Drivers /\ s.charge = FALSE /\ s.entry = 0
      /\ request[r] = "dispatching"
  BY <1>1, <1>2, Whereabouts
<1>4. PICK st \in {"sent", "failed"} : Goto(w, u(st)) /\ o[p] = NoOffer
  BY DEF SendOffer, Req
<1> DEFINE t == u(st)
<1>5. /\ t.pc \in {"offer", "commit"} /\ t.job = s.job /\ t.request = s.request /\ t.out = s.out
      /\ t.charge = s.charge /\ t.entry = s.entry /\ t.todo = Tail(s.todo)
      /\ \A q \in Providers : t.offers[q] = IF q = p THEN st ELSE s.offers[q]
  BY <1>1, <1>2 DEF TxType
<1>6. Goto(w, t)
  BY <1>4
<1> HIDE DEF t
<1>7. PICK j \in s.out :
        /\ s.out = {j} /\ j.kind = "advance" /\ j.req = r /\ PrevWave(j) = s.job.wave
        /\ OnceEach(j.rest)
        /\ AskOnce(s.todo, j.rest)
        /\ \A q \in Providers : InWaves(j.rest, q) =>
              Askable(r, q, o, forked) /\ (~ forked => s.offers[q] = Keep)
  BY <1>1, <1>3 DEF Offering
<1>8. /\ AskOnce(t.todo, j.rest) /\ ~ OnList(t.todo, p) /\ ~ InWaves(j.rest, p)
      /\ OnList(s.todo, p) /\ \A q : OnList(t.todo, q) => OnList(s.todo, q)
  BY <1>2, <1>5, <1>7, OneAsked, OneOff
<1>9. \A q \in Providers :
        /\ s.offers[q] \in {Keep, "expired", "sent", "failed"}
        /\ s.offers[q] = "expired" => Asked(q, o)
        /\ ~ forked /\ Asked(q, o) => s.offers[q] = "expired"
        /\ s.offers[q] \in {"sent", "failed"} => Askable(r, q, o, FALSE)
        /\ OnList(s.todo, q) => Askable(r, q, o, forked)
  BY <1>1, <1>3 DEF Offering
<1> HIDE DEF r, o, p, forked
<1>10. \A q \in Providers :
        /\ t.offers[q] \in {Keep, "expired", "sent", "failed"}
        /\ t.offers[q] = "expired" => Asked(q, o)
        /\ ~ forked /\ Asked(q, o) => t.offers[q] = "expired"
        /\ t.offers[q] \in {"sent", "failed"} => Askable(r, q, o, FALSE)
        /\ OnList(t.todo, q) => Askable(r, q, o, forked)
  <2> SUFFICES ASSUME NEW q \in Providers
               PROVE  /\ t.offers[q] \in {Keep, "expired", "sent", "failed"}
                      /\ t.offers[q] = "expired" => Asked(q, o)
                      /\ ~ forked /\ Asked(q, o) => t.offers[q] = "expired"
                      /\ t.offers[q] \in {"sent", "failed"} => Askable(r, q, o, FALSE)
                      /\ OnList(t.todo, q) => Askable(r, q, o, forked)
    OBVIOUS
  <2>1. CASE q = p
    <3>1. t.offers[q] = st /\ ~ Asked(q, o) /\ Askable(r, q, o, FALSE) /\ ~ OnList(t.todo, q)
      BY <1>2, <1>4, <1>5, <1>8, <1>9, <2>1 DEF Askable, Asked, NoOffer
    <3> QED
      BY <1>4, <3>1
  <2>2. CASE q # p
    BY <1>5, <1>8, <1>9, <2>2
  <2> QED
    BY <2>1, <2>2
<1>11. /\ t.out = {j} /\ PrevWave(j) = t.job.wave
       /\ \A q \in Providers : InWaves(j.rest, q) =>
              Askable(r, q, o, forked) /\ (~ forked => t.offers[q] = Keep)
  BY <1>5, <1>7, <1>8
<1>12. Offering(t, r, o, forked)
  <2>1. t.pc \in {"offer", "commit"} /\ t.request = Keep /\ j \in t.out
    BY <1>3, <1>5, <1>11 DEF Offering
  <2> QED
    BY <1>7, <1>8, <1>10, <1>11, <2>1 DEF Offering
<1>13. Handling(t, r, o, request[r], forked)
  BY <1>3, <1>5, <1>12 DEF Handling
<1> QED
  BY <1>5, <1>6, <1>13 DEF Handles, r, o, forked

LEMMA CollectHandled ==
    ASSUME TypeInv, RequestInv, WaveInv, NEW w \in Workers, CollectUnanswered(w)
    PROVE  \E t : Goto(w, t) /\ Handles(t, offer, request, doubtful)
<1> DEFINE s == tx[w]
           r == s.job.req
           o == offer[r]
           forked == r \in doubtful
           open == {p \in Providers : o[p].st = "sent" /\ WaveOf(o[p].id) = PrevWave(s.job)}
<1>1. /\ GoodTx(s) /\ s \in TxType /\ s.pc = "collect"
      /\ s.job.kind \in Drivers /\ r \in Requests /\ request[r] = "dispatching"
      /\ Ready(s.job, r, o, forked)
  BY Running, ReadyToPlan DEF CollectUnanswered, At, Planning
<1>2. Resting(s, o)
  BY <1>1, Whereabouts DEF Steps
<1>3. /\ s.entry = 0 /\ s.charge = FALSE /\ s.request = Keep
      /\ s.out = {} /\ \A p \in Providers : s.offers[p] = Keep
  BY <1>1, <1>2 DEF Resting
<1>4. \A p \in Providers : /\ p \in open => Asked(p, o)
                           /\ ~ forked /\ Asked(p, o) => p \in open
  BY <1>1 DEF Asked, Ready
<1>5. IF open = {} THEN Goto(w, AfterExpiry(s))
      ELSE \E todo \in SetToSeqs(open) : Goto(w, [s EXCEPT !.pc = "expire", !.todo = todo])
  BY DEF CollectUnanswered, Req
<1> HIDE DEF open
<1>6. CASE open = {}
  <2> HIDE DEF r, o, forked
  <2>1. Handling(AfterExpiry(s), r, o, "dispatching", forked)
    BY <1>1, <1>3, <1>4, <1>6, ExpiryHandled DEF r
  <2>2. AfterExpiry(s).job = s.job
    BY <1>1 DEF AfterExpiry, TxType
  <2> QED
    BY <1>1, <1>5, <1>6, <2>1, <2>2 DEF Handles, r, o, forked
<1>7. CASE open # {}
  <2>1. PICK todo \in SetToSeqs(open) : Goto(w, [s EXCEPT !.pc = "expire", !.todo = todo])
    BY <1>5, <1>7
  <2> DEFINE t == [s EXCEPT !.pc = "expire", !.todo = todo]
  <2>2. \A p \in Providers : OnList(todo, p) <=> p \in open
    <3>1. open \in SUBSET Providers
      BY DEF open
    <3>2. todo \in Seq(open) /\ \A p \in open : \E i \in 1 .. Len(todo) : todo[i] = p
      BY <2>1, <3>1, Listed
    <3> QED
      BY <3>2 DEF OnList
  <2>3. /\ t.pc = "expire" /\ t.job = s.job /\ t.request = s.request /\ t.out = s.out
        /\ t.charge = s.charge /\ t.entry = s.entry /\ t.todo = todo /\ t.offers = s.offers
    BY <1>1 DEF TxType
  <2>4. Goto(w, t)
    BY <2>1
  <2> HIDE DEF t, r, o, forked
  <2>5. LettingExpire(t, o, forked)
    BY <1>3, <1>4, <2>2, <2>3 DEF LettingExpire
  <2>6. Handling(t, r, o, request[r], forked)
    BY <1>1, <1>3, <2>3, <2>5 DEF Handling
  <2> QED
    BY <2>3, <2>4, <2>6 DEF Handles, r, o, forked
<1> QED
  BY <1>6, <1>7

LEMMA ExpireHandled ==
    ASSUME TypeInv, RequestInv, WaveInv, NEW w \in Workers, ExpireOffer(w)
    PROVE  \E t : Goto(w, t) /\ Handles(t, offer, request, doubtful)
<1> DEFINE s == tx[w]
           r == s.job.req
           o == offer[r]
           forked == r \in doubtful
           p == Head(s.todo)
           u == [s EXCEPT !.offers[p] = "expired"]
<1>1. GoodTx(s) /\ s \in TxType /\ s.pc = "expire"
  BY Running DEF ExpireOffer, At
<1>2. /\ r \in Requests /\ p \in Providers /\ s.todo \in Seq(Providers) /\ s.todo # <<>>
  BY <1>1, Whom DEF Planning, Listing
<1>3. /\ LettingExpire(s, o, forked) /\ s.job.kind \in Drivers /\ s.charge = FALSE /\ s.entry = 0
      /\ request[r] = "dispatching"
  BY <1>1, <1>2, Whereabouts
<1>4. /\ u \in TxType /\ u.pc = "expire" /\ u.job = s.job /\ u.request = s.request /\ u.out = s.out
      /\ u.charge = s.charge /\ u.entry = s.entry /\ u.todo = s.todo
      /\ \A q \in Providers : u.offers[q] = IF q = p THEN "expired" ELSE s.offers[q]
  BY <1>1, <1>2 DEF TxType, OfferStates
<1>5. IF Len(u.todo) > 1
      THEN Goto(w, [u EXCEPT !.todo = Tail(@)])
      ELSE \E todo \in SetToSeqs({x \in Providers : u.offers[x] = "expired"}) :
             Goto(w, [u EXCEPT !.todo = todo, !.pc = "count"])
  BY DEF ExpireOffer
<1> HIDE DEF u
<1>6. \E todo, pc : /\ Goto(w, [u EXCEPT !.todo = todo, !.pc = pc])
                    /\ \/ pc = "expire" /\ todo = Tail(s.todo)
                       \/ pc = "count" /\ Len(s.todo) = 1
  <2> DEFINE G(todo, pc) == Goto(w, [u EXCEPT !.todo = todo, !.pc = pc])
             A(todo, pc) == \/ pc = "expire" /\ todo = Tail(s.todo)
                            \/ pc = "count" /\ Len(s.todo) = 1
  <2>1. CASE Len(u.todo) > 1
    <3>1. [u EXCEPT !.todo = Tail(@)] = [u EXCEPT !.todo = Tail(s.todo), !.pc = "expire"]
      BY <1>4 DEF TxType
    <3>2. G(Tail(s.todo), "expire") /\ A(Tail(s.todo), "expire")
      BY <1>5, <2>1, <3>1
    <3> HIDE DEF G, A
    <3>3. \E todo, pc : G(todo, pc) /\ A(todo, pc)
      BY <3>2
    <3> QED
      BY <3>3 DEF G, A
  <2>2. CASE ~ (Len(u.todo) > 1)
    <3>1. Len(s.todo) = 1
      BY <1>2, <1>4, <2>2, Taken
    <3>2. PICK todo : G(todo, "count")
      BY <1>5, <2>2
    <3>3. A(todo, "count")
      BY <3>1
    <3> HIDE DEF G, A
    <3>4. \E x, pc : G(x, pc) /\ A(x, pc)
      BY <3>2, <3>3
    <3> QED
      BY <3>4 DEF G, A
  <2> QED
    BY <2>1, <2>2
<1>7. PICK todo, pc : /\ Goto(w, [u EXCEPT !.todo = todo, !.pc = pc])
                      /\ \/ pc = "expire" /\ todo = Tail(s.todo)
                         \/ pc = "count" /\ Len(s.todo) = 1
  BY <1>6
<1> DEFINE t == [u EXCEPT !.todo = todo, !.pc = pc]
<1>8. /\ t.pc = pc /\ t.job = s.job /\ t.request = s.request /\ t.out = s.out
      /\ t.charge = s.charge /\ t.entry = s.entry /\ t.todo = todo /\ t.offers = u.offers
  BY <1>4 DEF TxType
<1>9. Goto(w, t)
  BY <1>7
<1> HIDE DEF t, r, o, p, forked
<1>10. /\ s.request = Keep /\ s.out = {}
       /\ \A q \in Providers :
            /\ s.offers[q] \in {Keep, "expired"}
            /\ s.offers[q] = "expired" => Asked(q, o)
            /\ ~ forked /\ Asked(q, o) => s.offers[q] = "expired" \/ OnList(s.todo, q)
            /\ OnList(s.todo, q) => Asked(q, o)
  BY <1>1, <1>3 DEF LettingExpire
<1>11. /\ OnList(s.todo, p) /\ \A q : OnList(s.todo, q) <=> q = p \/ OnList(Tail(s.todo), q)
       /\ Len(s.todo) = 1 => \A q : OnList(s.todo, q) => q = p
  BY <1>2, OneOff DEF p
<1>12. \A q \in Providers :
            /\ t.offers[q] \in {Keep, "expired"}
            /\ t.offers[q] = "expired" => Asked(q, o)
            /\ ~ forked /\ Asked(q, o) =>
                  t.offers[q] = "expired" \/ (t.pc = "expire" /\ OnList(t.todo, q))
            /\ t.pc = "expire" /\ OnList(t.todo, q) => Asked(q, o)
  <2> SUFFICES ASSUME NEW q \in Providers
               PROVE  /\ t.offers[q] \in {Keep, "expired"}
                      /\ t.offers[q] = "expired" => Asked(q, o)
                      /\ ~ forked /\ Asked(q, o) =>
                            t.offers[q] = "expired" \/ (t.pc = "expire" /\ OnList(t.todo, q))
                      /\ t.pc = "expire" /\ OnList(t.todo, q) => Asked(q, o)
    OBVIOUS
  <2>1. CASE q = p
    BY <1>4, <1>8, <1>10, <1>11, <2>1
  <2>2. CASE q # p
    BY <1>4, <1>7, <1>8, <1>10, <1>11, <2>2
  <2> QED
    BY <2>1, <2>2
<1>13. LettingExpire(t, o, forked)
  BY <1>7, <1>8, <1>10, <1>12 DEF LettingExpire
<1>14. Handling(t, r, o, request[r], forked)
  BY <1>3, <1>8, <1>13 DEF Handling
<1> QED
  BY <1>8, <1>9, <1>14 DEF Handles, r, o, forked

\* The unanswered of the wave are counted once it has expired.
LEMMA BumpHandled ==
    ASSUME TypeInv, RequestInv, WaveInv, NEW w \in Workers,
           CountUnanswered(w) \/ BumpUnanswered(w) \/ Unfill(w)
    PROVE  \E t : Goto(w, t) /\ Handles(t, offer, request, doubtful)
<1> DEFINE s == tx[w]
           r == s.job.req
           o == offer[r]
           forked == r \in doubtful
<1>1. GoodTx(s) /\ s \in TxType /\ s.pc \in {"count", "bump", "unfill"}
  BY Running DEF CountUnanswered, BumpUnanswered, Unfill, At
<1>2. /\ s.job.kind \in Drivers /\ r \in Requests /\ request[r] = "dispatching"
      /\ Ready(s.job, r, o, forked)
  BY <1>1, ReadyToPlan DEF Planning
<1>3. LettingExpire(s, o, forked) /\ s.charge = FALSE /\ s.entry = 0
  BY <1>1, <1>2, Whereabouts
<1>4. /\ s.request = Keep /\ s.out = {}
      /\ \A q \in Providers : /\ s.offers[q] \in {Keep, "expired"}
                              /\ s.offers[q] = "expired" => Asked(q, o)
                              /\ ~ forked /\ Asked(q, o) => s.offers[q] = "expired"
  BY <1>1, <1>3 DEF LettingExpire
<1>5. ASSUME NEW t, t.job = s.job, t.out = s.out, t.charge = s.charge, t.entry = s.entry,
             t.offers = s.offers, t.pc \in {"count", "bump", "commit"},
             t.request = IF t.pc = "commit" THEN "unfilled" ELSE Keep
      PROVE  Handles(t, offer, request, doubtful)
  <2> HIDE DEF r, o, forked
  <2>1. LettingExpire(t, o, forked)
    BY <1>4, <1>5 DEF LettingExpire
  <2>2. Handling(t, r, o, request[r], forked)
    BY <1>2, <1>3, <1>5, <2>1 DEF Handling
  <2> QED
    BY <1>5, <2>2 DEF Handles, r, o, forked
<1>6. CASE CountUnanswered(w)
  <2> DEFINE seen == Seen(Head(s.todo))
             t == [s EXCEPT !.seen = seen, !.pc = "bump"]
  <2>1. Goto(w, t)
    BY <1>6 DEF CountUnanswered
  <2> HIDE DEF seen
  <2>2. /\ t.job = s.job /\ t.out = s.out /\ t.charge = s.charge /\ t.entry = s.entry
        /\ t.offers = s.offers /\ t.pc = "bump" /\ t.request = s.request
    BY <1>1 DEF TxType
  <2> HIDE DEF t
  <2>3. Handles(t, offer, request, doubtful)
    BY <1>4, <1>5, <2>2
  <2> QED
    BY <2>1, <2>3
<1>7. CASE Unfill(w)
  <2> DEFINE t == [s EXCEPT !.request = "unfilled", !.pc = "commit"]
  <2>1. Goto(w, t)
    BY <1>7 DEF Unfill
  <2>2. /\ t.job = s.job /\ t.out = s.out /\ t.charge = s.charge /\ t.entry = s.entry
        /\ t.offers = s.offers /\ t.pc = "commit" /\ t.request = "unfilled"
    BY <1>1 DEF TxType
  <2> HIDE DEF t
  <2>3. Handles(t, offer, request, doubtful)
    BY <1>5, <2>2
  <2> QED
    BY <2>1, <2>3
<1>8. CASE BumpUnanswered(w)
  <2> DEFINE p == Head(s.todo)
             n == s.seen.unanswered + 1
             off == n >= AutoOffThreshold /\ s.seen.available
             u == [s EXCEPT !.unanswered[p] = n,
                            !.available[p] = IF off THEN "off" ELSE @,
                            !.todo = Tail(@),
                            !.pc = "count"]
  <2>1. Goto(w, IF u.todo = <<>> THEN AfterExpiry(u) ELSE u) /\ s.pc = "bump"
    BY <1>8 DEF BumpUnanswered, At
  <2>2. p \in Providers /\ Tail(s.todo) \in Seq(Providers) /\ n \in Nat
    BY <1>1, <2>1, Whom, Taken, GoodFields DEF Listing
  <2> HIDE DEF n, off
  <2>3. /\ u \in TxType /\ u.pc = "count" /\ u.todo = Tail(s.todo) /\ u.offers = s.offers
        /\ u.job = s.job /\ u.out = s.out /\ u.charge = s.charge /\ u.entry = s.entry
        /\ u.request = s.request
    BY <1>1, <2>2 DEF TxType, Steps
  <2> HIDE DEF u, p
  <2>4. CASE u.todo # <<>>
    <3>1. Handles(u, offer, request, doubtful)
      BY <1>4, <1>5, <2>3
    <3> QED
      BY <2>1, <2>4, <3>1
  <2>5. CASE u.todo = <<>>
    <3> DEFINE v == [u EXCEPT !.pc = "unfill"]
    <3>1. /\ v \in TxType /\ v.pc = "unfill" /\ v.offers = s.offers
          /\ v.job = s.job /\ v.out = s.out /\ v.charge = s.charge /\ v.entry = s.entry
          /\ v.request = s.request
      BY <2>3 DEF TxType, Steps
    <3>2. AfterExpiry(v) = AfterExpiry(u)
      BY <2>3 DEF AfterExpiry, TxType
    <3> HIDE DEF v
    <3>3. GoodTx(v)
      BY <1>1, <1>2, <1>3, <1>4, <3>1, Running, GoingGood DEF Performs, Planning, Listing
    <3>4. AfterExpiry(v).job = v.job
      BY <3>1 DEF AfterExpiry, TxType
    <3> HIDE DEF r, o, forked
    <3>5. Handling(AfterExpiry(v), r, o, "dispatching", forked)
      BY <1>2, <1>3, <1>4, <3>1, <3>3, ExpiryHandled DEF r
    <3>6. Handles(AfterExpiry(u), offer, request, doubtful)
      BY <1>2, <3>1, <3>2, <3>4, <3>5 DEF Handles, r, o, forked
    <3> QED
      BY <2>1, <2>5, <3>6
  <2> QED
    BY <2>4, <2>5
<1> QED
  BY <1>6, <1>7, <1>8

LEMMA ChargeHandled ==
    ASSUME TypeInv, RequestInv, WaveInv, NEW w \in Workers, Charge(w)
    PROVE  \E t : Goto(w, t) /\ Handles(t, offer, request, doubtful)
<1> DEFINE s == tx[w]
           r == s.job.req
           p == s.job.prov
           o == offer[r]
           others == {q \in Providers \ {p} : o[q].st = "sent"}
           out == {NoticeJob("release", r, p), NoticeJob("notify", r, NoProvider)}
                          \cup (IF balance[p] - 1 <= LowBalance
                                THEN {NoticeJob("warn", r, p)} ELSE {})
           pc == IF others = {} THEN "reset" ELSE "withdraw"
           t(todo) == [s EXCEPT !.charge = TRUE,
                                !.offers[p] = "accepted",
                                !.request = "assigned",
                                !.todo = todo,
                                !.out = out,
                                !.pc = pc]
<1>1. GoodTx(s) /\ s \in TxType /\ s.pc = "charge" /\ s.job.kind = "accept"
  BY Running DEF Charge, At, Performs
<1>2. r \in Requests /\ p \in Providers
  BY <1>1, Whom
<1>3. Resting(s, o)
  BY <1>1, <1>2, Whereabouts DEF Steps
<1>4. /\ \A q \in Providers : s.offers[q] = Keep
      /\ s.request = Keep /\ s.charge = FALSE /\ s.out = {} /\ Asked(p, o) /\ s.entry = 0
  BY <1>1, <1>3 DEF Resting
<1>5. CASE ~ CanPay(p)
  <2> DEFINE u == [s EXCEPT !.pc = "commit"]
  <2>1. Goto(w, u)
    BY <1>5 DEF Charge, Prov
  <2>2. /\ u.pc = "commit" /\ u.job = s.job /\ u.out = s.out /\ u.charge = s.charge
        /\ u.request = s.request /\ u.offers = s.offers /\ u.entry = s.entry
    BY <1>1 DEF TxType
  <2> HIDE DEF u, o, r
  <2>3. Resting(u, o)
    BY <1>4, <2>2 DEF Resting
  <2>4. Handling(u, r, o, request[r], r \in doubtful)
    BY <2>3 DEF Handling
  <2> QED
    BY <2>1, <2>2, <2>4 DEF Handles, r, o
<1>6. CASE CanPay(p)
  <2>1. PICK todo \in SetToSeqs(others) : Goto(w, t(todo))
    BY <1>6 DEF Charge, Req, Prov, AcceptedRequest
  <2>2. \A q \in Providers : OnList(todo, q) <=> q \in others
    <3>1. others \in SUBSET Providers
      OBVIOUS
    <3> HIDE DEF others
    <3>2. todo \in Seq(others) /\ \A q \in others : \E i \in 1 .. Len(todo) : todo[i] = q
      BY <2>1, <3>1, Listed
    <3> QED
      BY <3>2 DEF OnList
  <2>3. \A j \in out : j.kind \notin Drivers
    <3> HIDE DEF r, p
    <3>1. \A j \in {NoticeJob("release", r, p), NoticeJob("notify", r, NoProvider), NoticeJob("warn", r, p)} :
             j.kind \in {"release", "notify", "warn"}
      BY NewJobs
    <3> QED
      BY <3>1 DEF Drivers
  <2> DEFINE u == t(todo)
  <2>4. Goto(w, u)
    BY <2>1
  <2>5. \A q \in Providers : Asked(q, o) <=> q = p \/ q \in others
    BY <1>4 DEF Asked
  <2>6. p \notin others /\ pc \in {"reset", "withdraw"} /\ (pc = "reset" => others = {})
    OBVIOUS
  <2> HIDE DEF out, pc, others
  <2>7. /\ u.pc = pc /\ u.job = s.job /\ u.out = out /\ u.charge = TRUE
        /\ u.todo = todo /\ u.request = "assigned"
        /\ \A q \in Providers : u.offers[q] = IF q = p THEN "accepted" ELSE s.offers[q]
    BY <1>1, <1>2 DEF TxType
  <2> HIDE DEF u, t, r, o, p
  <2>8. \A q \in Providers :
          /\ u.offers[q] \in {Keep, "accepted", "withdrawn"}
          /\ u.offers[q] # Keep => Asked(q, o)
          /\ u.offers[q] = "accepted" <=> q = p
          /\ Asked(q, o) => u.offers[q] # Keep \/ (u.pc = "withdraw" /\ OnList(u.todo, q))
          /\ u.pc = "withdraw" /\ OnList(u.todo, q) => q # p /\ Asked(q, o)
    BY <1>4, <2>2, <2>5, <2>6, <2>7
  <2>9. Accepting(u, o)
    BY <1>1, <2>3, <2>6, <2>7, <2>8 DEF Accepting, p
  <2>10. Handling(u, r, o, request[r], r \in doubtful)
    BY <2>9 DEF Handling
  <2> QED
    BY <2>4, <2>7, <2>10 DEF Handles, r, o
<1> QED
  BY <1>5, <1>6

LEMMA WithdrawHandled ==
    ASSUME TypeInv, RequestInv, WaveInv, NEW w \in Workers, WithdrawOffer(w)
    PROVE  \E t : Goto(w, t) /\ Handles(t, offer, request, doubtful)
<1> DEFINE s == tx[w]
           r == s.job.req
           o == offer[r]
           p == Head(s.todo)
           pc == IF Len(s.todo) = 1 THEN "reset" ELSE "withdraw"
           t == [s EXCEPT !.offers[p] = "withdrawn", !.todo = Tail(s.todo), !.pc = pc]
<1>1. /\ GoodTx(s) /\ s \in TxType /\ s.pc = "withdraw"
  BY Running DEF WithdrawOffer, At
<1>2. /\ r \in Requests /\ p \in Providers /\ s.todo \in Seq(Providers) /\ s.todo # <<>>
  BY <1>1, Whom DEF Listing
<1>3. Accepting(s, o)
  BY <1>1, <1>2, Whereabouts
<1>4. /\ OnList(s.todo, p) /\ \A q : OnList(s.todo, q) <=> q = p \/ OnList(Tail(s.todo), q)
      /\ Len(s.todo) = 1 => \A q : OnList(s.todo, q) => q = p
  BY <1>2, OneOff
<1>5. /\ s.job.kind = "accept" /\ s.charge = TRUE /\ s.request = "assigned"
      /\ \A j \in s.out : j.kind \notin Drivers
      /\ \A q \in Providers :
          /\ s.offers[q] \in {Keep, "accepted", "withdrawn"}
          /\ s.offers[q] # Keep => Asked(q, o)
          /\ s.offers[q] = "accepted" <=> q = s.job.prov
          /\ Asked(q, o) => s.offers[q] # Keep \/ OnList(s.todo, q)
          /\ OnList(s.todo, q) => q # s.job.prov /\ Asked(q, o)
  BY <1>1, <1>3 DEF Accepting
<1>6. Goto(w, t)
  <2>1. Goto(w, [s EXCEPT !.offers[p] = IF Withdrawable(o[p]) THEN "withdrawn" ELSE @,
                          !.todo = Tail(@),
                          !.pc = IF Len(s.todo) = 1 THEN "reset" ELSE @])
    BY DEF WithdrawOffer, Req
  <2>2. Withdrawable(o[p])
    BY <1>2, <1>4, <1>5 DEF Asked, Withdrawable
  <2>3. [s EXCEPT !.offers[p] = IF Withdrawable(o[p]) THEN "withdrawn" ELSE @,
                  !.todo = Tail(@),
                  !.pc = IF Len(s.todo) = 1 THEN "reset" ELSE @] = t
    <3> HIDE DEF o
    <3> QED
      BY <1>1, <2>2 DEF TxType
  <2> QED
    BY <2>1, <2>3
<1>7. pc \in {"reset", "withdraw"} /\ (pc = "reset" <=> Len(s.todo) = 1)
  OBVIOUS
<1> HIDE DEF pc
<1>8. /\ t.pc = pc /\ t.job = s.job /\ t.out = s.out /\ t.charge = s.charge
      /\ t.request = s.request /\ t.todo = Tail(s.todo)
      /\ \A q \in Providers : t.offers[q] = IF q = p THEN "withdrawn" ELSE s.offers[q]
  BY <1>1, <1>2 DEF TxType
<1> HIDE DEF t, r, o, p
<1>9. \A q \in Providers :
          /\ t.offers[q] \in {Keep, "accepted", "withdrawn"}
          /\ t.offers[q] # Keep => Asked(q, o)
          /\ t.offers[q] = "accepted" <=> q = t.job.prov
          /\ Asked(q, o) => t.offers[q] # Keep \/ (t.pc = "withdraw" /\ OnList(t.todo, q))
          /\ t.pc = "withdraw" /\ OnList(t.todo, q) => q # t.job.prov /\ Asked(q, o)
  <2> SUFFICES ASSUME NEW q \in Providers
               PROVE  /\ t.offers[q] \in {Keep, "accepted", "withdrawn"}
                      /\ t.offers[q] # Keep => Asked(q, o)
                      /\ t.offers[q] = "accepted" <=> q = s.job.prov
                      /\ Asked(q, o) => t.offers[q] # Keep \/ (t.pc = "withdraw" /\ OnList(t.todo, q))
                      /\ t.pc = "withdraw" /\ OnList(t.todo, q) => q # s.job.prov /\ Asked(q, o)
    BY <1>8
  <2>1. CASE q = p
    BY <1>2, <1>4, <1>5, <1>8, <2>1
  <2>2. CASE q # p
    <3>1. t.offers[q] = s.offers[q]
      BY <1>8, <2>2
    <3>2. OnList(s.todo, q) => t.pc = "withdraw" /\ OnList(t.todo, q)
      BY <1>4, <1>7, <1>8, <2>2
    <3>3. OnList(t.todo, q) => OnList(s.todo, q)
      BY <1>4, <1>8
    <3> QED
      BY <1>5, <3>1, <3>2, <3>3
  <2> QED
    BY <2>1, <2>2
<1>10. Accepting(t, o)
  BY <1>5, <1>7, <1>8, <1>9 DEF Accepting
<1>11. Handling(t, r, o, request[r], r \in doubtful)
  BY <1>10 DEF Handling
<1> QED
  BY <1>6, <1>8, <1>11 DEF Handles, r, o

\* The handlers that look before they write.
LEMMA LookHandled ==
    ASSUME TypeInv, RequestInv, WaveInv, NEW w \in Workers,
           LockOffer(w) \/ LockRequest(w) \/ ResetUnanswered(w) \/ DeclineOffer(w)
    PROVE  \E t : Goto(w, t) /\ Handles(t, offer, request, doubtful)
<1> DEFINE s == tx[w]
           r == s.job.req
           o == offer[r]
           p == s.job.prov
<1>1. /\ GoodTx(s) /\ s \in TxType /\ Performs(s)
      /\ s.pc \in {"lockOffer", "lockRequest", "reset", "decline"}
  BY Running DEF LockOffer, LockRequest, ResetUnanswered, DeclineOffer, At
<1>2. r \in Requests /\ p \in Providers
  BY <1>1, Whom
<1>3. /\ s.pc # "reset" => Resting(s, o)
      /\ s.pc = "reset" => Resting(s, o) \/ Accepting(s, o)
  BY <1>1, <1>2, Whereabouts DEF Steps
<1>4. ASSUME NEW t, Resting(s, o), t.job = s.job, t.request = s.request, t.out = s.out,
             t.charge = s.charge, t.entry = s.entry, t.offers = s.offers,
             t.pc \in {"lockRequest", "charge", "decline", "commit"},
             t.pc # "commit" => Asked(p, o)
      PROVE  Handles(t, offer, request, doubtful)
  <2> HIDE DEF r, o
  <2>1. Resting(t, o)
    BY <1>1, <1>4 DEF Resting
  <2>2. Handling(t, r, o, request[r], r \in doubtful)
    BY <2>1 DEF Handling
  <2> QED
    BY <1>4, <2>2 DEF Handles, r, o
<1>5. CASE LockOffer(w)
  <2>1. CASE RollBack(w)
    <3>1. Goto(w, Idle)
      BY <2>1 DEF RollBack
    <3> QED
      BY <3>1, IdleHandles
  <2>2. CASE ~ RollBack(w)
    <3> DEFINE pc == IF o[p].st = "sent" THEN "lockRequest" ELSE "commit"
               t == [s EXCEPT !.pc = pc]
    <3>1. Goto(w, t) /\ s.pc = "lockOffer"
      BY <1>5, <2>2 DEF LockOffer, At, Req, Prov
    <3>2. pc \in {"lockRequest", "commit"} /\ (pc # "commit" => Asked(p, o))
      BY DEF Asked
    <3> HIDE DEF pc, o
    <3>3. /\ t.job = s.job /\ t.request = s.request /\ t.out = s.out
          /\ t.charge = s.charge /\ t.entry = s.entry /\ t.offers = s.offers /\ t.pc = pc
      BY <1>1 DEF TxType
    <3> HIDE DEF t
    <3>4. Handles(t, offer, request, doubtful)
      BY <1>3, <1>4, <3>1, <3>2, <3>3
    <3> QED
      BY <3>1, <3>4
  <2> QED
    BY <2>1, <2>2
<1>6. CASE LockRequest(w)
  <2> DEFINE pc == IF Acceptable(r) THEN "charge" ELSE "commit"
             t == [s EXCEPT !.pc = pc]
  <2>1. Goto(w, t) /\ s.pc = "lockRequest"
    BY <1>6 DEF LockRequest, At, Req
  <2>2. pc \in {"charge", "commit"} /\ Asked(p, o)
    BY <1>3, <2>1 DEF Resting
  <2> HIDE DEF pc, o
  <2>3. /\ t.job = s.job /\ t.request = s.request /\ t.out = s.out
        /\ t.charge = s.charge /\ t.entry = s.entry /\ t.offers = s.offers /\ t.pc = pc
    BY <1>1 DEF TxType
  <2> HIDE DEF t
  <2>4. Handles(t, offer, request, doubtful)
    BY <1>3, <1>4, <2>1, <2>2, <2>3
  <2> QED
    BY <2>1, <2>4
<1>7. CASE ResetUnanswered(w)
  <2>1. PICK un :
          Goto(w, [s EXCEPT !.unanswered = un, !.pc = AfterReset(s.job)])
    BY <1>7 DEF ResetUnanswered
  <2> DEFINE pc == AfterReset(s.job)
             t == [s EXCEPT !.unanswered = un, !.pc = pc]
  <2>2. Goto(w, t) /\ s.pc = "reset"
    BY <1>7, <2>1 DEF ResetUnanswered, At
  <2>3. pc = IF s.job.kind = "decline" THEN "decline" ELSE "commit"
    BY DEF AfterReset
  <2> HIDE DEF pc
  <2>4. /\ t.job = s.job /\ t.request = s.request /\ t.out = s.out /\ t.todo = s.todo
        /\ t.charge = s.charge /\ t.entry = s.entry /\ t.offers = s.offers /\ t.pc = pc
    BY <1>1 DEF TxType
  <2> HIDE DEF t
  <2>5. CASE Resting(s, o)
    <3>1. Asked(p, o)
      BY <2>2, <2>5 DEF Resting
    <3> HIDE DEF o
    <3>2. Handles(t, offer, request, doubtful)
      BY <1>4, <2>3, <2>4, <2>5, <3>1
    <3> QED
      BY <2>2, <3>2
  <2>6. CASE Accepting(s, o)
    <3> HIDE DEF r, o, p
    <3>1. pc = "commit"
      BY <2>3, <2>6 DEF Accepting
    <3>2. Accepting(t, o)
      BY <2>2, <2>4, <2>6, <3>1 DEF Accepting
    <3>3. Handling(t, r, o, request[r], r \in doubtful)
      BY <3>2 DEF Handling
    <3> QED
      BY <2>2, <2>4, <3>3 DEF Handles, r, o
  <2> QED
    BY <1>3, <2>2, <2>5, <2>6
<1>8. CASE DeclineOffer(w)
  <2> DEFINE t == [s EXCEPT !.offers[p] = "declined", !.pc = "commit"]
  <2>1. Goto(w, t) /\ s.pc = "decline"
    BY <1>8 DEF DeclineOffer, At, Prov
  <2>2. Resting(s, o)
    BY <1>3, <2>1
  <2>3. /\ t.job = s.job /\ t.request = s.request /\ t.out = s.out
        /\ t.charge = s.charge /\ t.pc = "commit"
        /\ \A q \in Providers : t.offers[q] = IF q = p THEN "declined" ELSE s.offers[q]
    BY <1>1, <1>2 DEF TxType
  <2> HIDE DEF t, r, o
  <2>4. Declining(t, o)
    BY <1>1, <2>1, <2>2, <2>3 DEF Declining, Resting, Performs
  <2>5. Handling(t, r, o, request[r], r \in doubtful)
    BY <2>4 DEF Handling
  <2> QED
    BY <2>1, <2>3, <2>5 DEF Handles, r, o
<1> QED
  BY <1>5, <1>6, <1>7, <1>8

\* The handlers that write nothing of a request.
LEMMA ElseHandled ==
    ASSUME TypeInv, RequestInv, WaveInv, NEW w \in Workers,
           \/ ReleaseToProvider(w) \/ ReleaseToCustomer(w) \/ ToggleAvailable(w)
           \/ GrantFree(w) \/ CountFree(w) \/ AdjustFree(w)
    PROVE  \E t : Goto(w, t) /\ Handles(t, offer, request, doubtful)
<1> DEFINE s == tx[w]
           r == s.job.req
           o == offer[r]
<1>1. /\ s \in TxType /\ Performs(s)
      /\ s.pc \in {"provider", "customer", "toggle", "grant", "remainder", "adjust"}
  BY Running DEF ReleaseToProvider, ReleaseToCustomer, ToggleAvailable, GrantFree, CountFree,
                 AdjustFree, At
<1>2. \E un, av, rem, entry : \E pc \in {"customer", "adjust", "commit"} :
         /\ Goto(w, [s EXCEPT !.unanswered = un, !.available = av, !.remainder = rem,
                              !.entry = entry, !.pc = pc])
         /\ pc # "commit" \/ s.job.kind \in Drivers => entry = s.entry
  <2> DEFINE G(un, av, rem, entry, pc) ==
                Goto(w, [s EXCEPT !.unanswered = un, !.available = av, !.remainder = rem,
                                  !.entry = entry, !.pc = pc])
  <2>1. \A un, av, rem, entry, pc : G(un, av, rem, entry, pc) <=>
            Goto(w, [s EXCEPT !.unanswered = un, !.available = av, !.remainder = rem,
                              !.entry = entry, !.pc = pc])
    OBVIOUS
  <2> SUFFICES \E un, av, rem, entry : \E pc \in {"customer", "adjust", "commit"} :
                  /\ G(un, av, rem, entry, pc)
                  /\ pc # "commit" \/ s.job.kind \in Drivers => entry = s.entry
    BY <2>1
  <2>2. CASE ReleaseToProvider(w) \/ ReleaseToCustomer(w)
    <3>1. PICK pc \in {"customer", "commit"} : Goto(w, [s EXCEPT !.pc = pc])
      BY <2>2 DEF ReleaseToProvider, ReleaseToCustomer
    <3>2. [s EXCEPT !.pc = pc] =
            [s EXCEPT !.unanswered = s.unanswered, !.available = s.available,
                      !.remainder = s.remainder, !.entry = s.entry, !.pc = pc]
      BY <1>1 DEF TxType
    <3>3. G(s.unanswered, s.available, s.remainder, s.entry, pc)
      BY <3>1, <3>2
    <3> HIDE DEF G
    <3> QED
      BY <3>3
  <2>3. CASE ToggleAvailable(w)
    <3>1. PICK un, av : Goto(w, [s EXCEPT !.available = av, !.unanswered = un, !.pc = "commit"])
      BY <2>3 DEF ToggleAvailable
    <3>2. [s EXCEPT !.available = av, !.unanswered = un, !.pc = "commit"] =
            [s EXCEPT !.unanswered = un, !.available = av,
                      !.remainder = s.remainder, !.entry = s.entry, !.pc = "commit"]
      BY <1>1 DEF TxType
    <3>3. G(un, av, s.remainder, s.entry, "commit")
      BY <3>1, <3>2
    <3> HIDE DEF G
    <3> QED
      BY <3>3
  <2>4. CASE GrantFree(w) \/ AdjustFree(w)
    <3>1. PICK entry : Goto(w, [s EXCEPT !.entry = entry, !.pc = "commit"])
      BY <2>4 DEF GrantFree, AdjustFree
    <3>2. [s EXCEPT !.entry = entry, !.pc = "commit"] =
            [s EXCEPT !.unanswered = s.unanswered, !.available = s.available,
                      !.remainder = s.remainder, !.entry = entry, !.pc = "commit"]
      BY <1>1 DEF TxType
    <3>3. G(s.unanswered, s.available, s.remainder, entry, "commit")
      BY <3>1, <3>2
    <3>4. s.job.kind \notin Drivers
      BY <1>1, <2>4 DEF GrantFree, AdjustFree, At, Performs, Drivers
    <3> HIDE DEF G
    <3> QED
      BY <3>3, <3>4
  <2>5. CASE CountFree(w)
    <3>1. PICK rem : \E pc \in {"adjust", "commit"} : Goto(w, [s EXCEPT !.remainder = rem, !.pc = pc])
      BY <2>5 DEF CountFree
    <3>2. PICK pc \in {"adjust", "commit"} : Goto(w, [s EXCEPT !.remainder = rem, !.pc = pc])
      BY <3>1
    <3>3. [s EXCEPT !.remainder = rem, !.pc = pc] =
            [s EXCEPT !.unanswered = s.unanswered, !.available = s.available,
                      !.remainder = rem, !.entry = s.entry, !.pc = pc]
      BY <1>1 DEF TxType
    <3>4. G(s.unanswered, s.available, rem, s.entry, pc)
      BY <3>2, <3>3
    <3> HIDE DEF G
    <3> QED
      BY <3>4
  <2> QED
    BY <2>2, <2>3, <2>4, <2>5
<1>3. PICK un, av, rem, entry, pc :
         /\ pc \in {"customer", "adjust", "commit"}
         /\ Goto(w, [s EXCEPT !.unanswered = un, !.available = av, !.remainder = rem,
                              !.entry = entry, !.pc = pc])
         /\ pc # "commit" \/ s.job.kind \in Drivers => entry = s.entry
  BY <1>2
<1> DEFINE t == [s EXCEPT !.unanswered = un, !.available = av, !.remainder = rem,
                          !.entry = entry, !.pc = pc]
<1>4. /\ t.job = s.job /\ t.request = s.request /\ t.out = s.out
      /\ t.charge = s.charge /\ t.entry = entry /\ t.offers = s.offers /\ t.pc = pc
  BY <1>1 DEF TxType
<1>5. Goto(w, t)
  BY <1>3
<1> HIDE DEF t
<1>6. Handles(t, offer, request, doubtful)
  <2> SUFFICES ASSUME r \in Requests PROVE Handling(t, r, o, request[r], r \in doubtful)
    BY <1>4 DEF Handles
  <2>1. Resting(s, o)
    BY <1>1, Whereabouts DEF Steps
  <2> HIDE DEF r, o
  <2>2. Resting(t, o)
    BY <1>1, <1>3, <1>4, <2>1 DEF Resting
  <2> QED
    BY <2>2 DEF Handling
<1> QED
  BY <1>5, <1>6

LEMMA ClaimHandled ==
    ASSUME TypeInv, RequestInv, WaveInv, NEW w \in Workers, NEW j, Claim(w, j)
    PROVE  \E t : /\ Goto(w, t) /\ Handles(t, offer, request, doubtful)
                  /\ t.job.kind = j.kind /\ t.job.req = j.req /\ t.job.rest = j.rest
                  /\ t.job.wave = j.wave
<1> DEFINE mine == [j EXCEPT !.att = @ + 1]
           seen == Seen(mine.prov)
           pc == FirstStep(mine)
           t == [Idle EXCEPT !.pc = pc, !.job = mine, !.seen = seen]
           r == mine.req
           o == offer[r]
<1>1. j \in jobs /\ Goto(w, t)
  BY DEF Claim
<1>2. j \in JobType
  BY <1>1 DEF TypeInv, Queue
<1>3. /\ mine.kind = j.kind /\ mine.req = j.req /\ mine.rest = j.rest /\ mine.wave = j.wave
  BY <1>2, JobFields
<1>4. /\ pc \notin {"offer", "expire", "count", "bump", "unfill", "withdraw", "lockRequest",
                    "charge", "decline"}
      /\ pc = "reset" => mine.kind = "decline" /\ Asked(mine.prov, o)
      /\ pc = "plan" => mine.kind = "dispatch"
  <2> HIDE DEF mine
  <2> QED
    BY DEF FirstStep, Declinable, Asked
<1> HIDE DEF mine, seen, pc
<1>5. /\ t.pc = pc /\ t.job = mine /\ t.out = {} /\ t.charge = FALSE /\ t.request = Keep
      /\ t.entry = 0 /\ \A p \in Providers : t.offers[p] = Keep
  BY DEF Idle
<1> HIDE DEF t, r, o
<1>6. Resting(t, o)
  BY <1>4, <1>5 DEF Resting
<1>7. Handles(t, offer, request, doubtful)
  BY <1>5, <1>6 DEF Handles, Handling, r, o
<1> QED
  BY <1>1, <1>3, <1>5, <1>7

-----------------------------------------------------------------------------
(* The COMMIT                                                              *)

\* The offers of a request as a COMMIT leaves them.
After(t, offers) == [x \in Providers |-> WriteOffer(offers[x], t, x)]

\* What TablesAgree says of one request.
Agree(r, offers, state, match, forked) ==
    /\ state = "assigned" <=> \E p \in Providers : <<r, p>> \in match
    /\ \A p \in Providers :
          /\ offers[p].st = "accepted" <=> <<r, p>> \in match
          /\ offers[p].st = "sent" => state = "dispatching" \/ forked

\* A COMMIT of t takes a request from one state of the tables to another as it
\* should, and leaves it ready for the job that drives it.
Sound(t, r, offers, state, match, forked) ==
    /\ Agree(r, After(t, offers), Merge(state, t.request), match, forked)
    /\ \A p \in Providers : After(t, offers)[p] # NoOffer => p \in Qualified[r]
    /\ \A p \in Providers : ValidOfferStep(offers[p].st, After(t, offers)[p].st)
    /\ ValidRequestStep(state, Merge(state, t.request))
    /\ Merge(state, t.request) = "dispatching" =>
          /\ \A j \in t.out : Drives(j, r) => Ready(j, r, After(t, offers), forked)
          /\ \/ t.job.kind \in Drivers
             \/ \A j : Ready(j, r, offers, forked) => Ready(j, r, After(t, offers), forked)

LEMMA Rewritten ==
    ASSUME NEW t, NEW offers, NEW p \in Providers
    PROVE  /\ t.offers[p] = Keep => After(t, offers)[p] = offers[p]
           /\ t.offers[p] # Keep =>
                 /\ After(t, offers)[p].st = t.offers[p]
                 /\ After(t, offers)[p].id =
                       IF offers[p] = NoOffer THEN OfferId(t.job) ELSE offers[p].id
BY DEF After, WriteOffer

LEMMA SoundCommit ==
    ASSUME NEW t, t.pc = "commit", NEW r \in Requests, r = t.job.req, NEW offers, NEW state,
           NEW before, NEW match, NEW forked,
           \A p \in Providers :
               <<r, p>> \in match <=> <<r, p>> \in before \/ (t.charge = TRUE /\ p = t.job.prov),
           Agree(r, offers, state, before, forked),
           \A p \in Providers : offers[p] # NoOffer => p \in Qualified[r],
           Handling(t, r, offers, state, forked),
           t.charge = TRUE => state = "dispatching" /\ t.job.prov \in Providers
    PROVE  Sound(t, r, offers, state, match, forked)
<1> DEFINE o == After(t, offers)
<1>1. \A p \in Providers :
        /\ t.offers[p] = Keep => o[p] = offers[p]
        /\ t.offers[p] # Keep =>
              /\ o[p].st = t.offers[p]
              /\ o[p].id = IF offers[p] = NoOffer THEN OfferId(t.job) ELSE offers[p].id
  BY Rewritten
<1>2. \A p \in Providers : Asked(p, offers) => offers[p] # NoOffer
  BY DEF Asked, NoOffer
<1>3. NoOffer.st = "none"
  BY DEF NoOffer
<1> HIDE DEF o
<1>4. CASE Resting(t, offers)
  <2>1. \A p \in Providers : o[p] = offers[p]
    BY <1>1, <1>4 DEF Resting
  <2>2. Merge(state, t.request) = state /\ t.charge = FALSE /\ t.out = {}
    BY <1>4 DEF Resting, Merge
  <2>3. Agree(r, o, state, match, forked)
    BY <2>1, <2>2 DEF Agree
  <2>4. \A j : Ready(j, r, offers, forked) => Ready(j, r, o, forked)
    BY <2>1 DEF Ready, Asked, Askable
  <2> QED
    BY <2>1, <2>2, <2>3, <2>4 DEF Sound, ValidOfferStep, ValidRequestStep, o
<1>5. CASE t.charge = FALSE /\ state = "dispatching" /\ LettingExpire(t, offers, forked)
  <2>1. Merge(state, t.request) = "unfilled" /\ t.request = "unfilled"
    BY <1>5 DEF LettingExpire, Merge
  <2>2. \A p \in Providers : \/ Asked(p, offers) /\ o[p].st = "expired" /\ p \in Qualified[r]
                             \/ o[p] = offers[p] /\ (~ forked => ~ Asked(p, offers))
    BY <1>1, <1>2, <1>5 DEF LettingExpire
  <2>3. Agree(r, o, "unfilled", match, forked)
    BY <1>5, <2>2 DEF Agree, Asked
  <2>4. \A p \in Providers : ValidOfferStep(offers[p].st, o[p].st)
    BY <2>2 DEF ValidOfferStep, Asked
  <2> QED
    BY <1>5, <2>1, <2>2, <2>3, <2>4 DEF Sound, ValidRequestStep, o
<1>6. CASE /\ t.charge = FALSE /\ state = "dispatching" /\ t.job.kind \in Drivers
           /\ Offering(t, r, offers, forked)
  <2>1. Merge(state, t.request) = "dispatching"
    BY <1>6 DEF Offering, Merge
  <2>2. \A p \in Providers :
          \/ Asked(p, offers) /\ o[p].st = "expired" /\ p \in Qualified[r]
          \/ t.offers[p] = Keep /\ o[p] = offers[p] /\ (~ forked => ~ Asked(p, offers))
          \/ /\ Askable(r, p, offers, FALSE) /\ o[p].st \in {"sent", "failed"}
             /\ o[p].id = OfferId(t.job)
    <3> SUFFICES ASSUME NEW p \in Providers
                 PROVE  \/ Asked(p, offers) /\ o[p].st = "expired" /\ p \in Qualified[r]
                        \/ t.offers[p] = Keep /\ o[p] = offers[p] /\ (~ forked => ~ Asked(p, offers))
                        \/ /\ Askable(r, p, offers, FALSE) /\ o[p].st \in {"sent", "failed"}
                           /\ o[p].id = OfferId(t.job)
      OBVIOUS
    <3>1. /\ t.offers[p] \in {Keep, "expired", "sent", "failed"}
          /\ t.offers[p] = "expired" => Asked(p, offers)
          /\ ~ forked /\ Asked(p, offers) => t.offers[p] = "expired"
          /\ t.offers[p] \in {"sent", "failed"} => Askable(r, p, offers, FALSE)
      BY <1>6 DEF Offering
    <3> QED
      BY <1>1, <1>2, <3>1 DEF Askable
  <2>3. Agree(r, o, "dispatching", match, forked)
    BY <1>3, <1>6, <2>2 DEF Agree, Asked, Askable
  <2>4. \A p \in Providers : /\ ValidOfferStep(offers[p].st, o[p].st)
                             /\ o[p] # NoOffer => p \in Qualified[r]
    BY <1>3, <2>2 DEF ValidOfferStep, Asked, Askable
  <2>5. PICK j \in t.out :
          /\ t.out = {j} /\ j.kind = "advance" /\ j.req = r /\ PrevWave(j) = t.job.wave
          /\ OnceEach(j.rest)
          /\ \A p \in Providers : InWaves(j.rest, p) =>
                Askable(r, p, offers, forked) /\ (~ forked => t.offers[p] = Keep)
    BY <1>6 DEF Offering
  <2>6. Ready(j, r, o, forked)
    <3>1. \A p \in Providers : InWaves(j.rest, p) => Askable(r, p, o, forked)
      BY <1>1, <2>5 DEF Askable
    <3>2. ~ forked => \A p \in Providers : Asked(p, o) => WaveOf(o[p].id) = PrevWave(j)
      <4>1. WaveOf(OfferId(t.job)) = t.job.wave
        BY DEF WaveOf, OfferId
      <4>2. ~ forked => \A p \in Providers : Asked(p, o) => o[p].id = OfferId(t.job)
        BY <2>2 DEF Asked
      <4> QED
        BY <2>5, <4>1, <4>2
    <3> QED
      BY <2>5, <3>1, <3>2 DEF Ready
  <2> QED
    BY <1>6, <2>1, <2>3, <2>4, <2>5, <2>6 DEF Sound, ValidRequestStep, o
<1>7. CASE Accepting(t, offers)
  <2>1. Merge(state, t.request) = "assigned" /\ t.charge = TRUE /\ state = "dispatching"
        /\ t.job.prov \in Providers
    BY <1>7 DEF Accepting, Merge
  <2>2. \A p \in Providers : /\ p = t.job.prov => Asked(p, offers) /\ o[p].st = "accepted"
                             /\ p # t.job.prov /\ Asked(p, offers) => o[p].st = "withdrawn"
                             /\ ~ Asked(p, offers) => o[p] = offers[p]
    BY <1>1, <1>7 DEF Accepting
  <2>3. Agree(r, o, "assigned", match, forked)
    BY <2>1, <2>2 DEF Agree, Asked
  <2>4. \A p \in Providers : /\ ValidOfferStep(offers[p].st, o[p].st)
                             /\ o[p] # NoOffer => p \in Qualified[r]
    BY <1>2, <2>2 DEF ValidOfferStep, Asked
  <2> QED
    BY <2>1, <2>3, <2>4 DEF Sound, ValidRequestStep, o
<1>8. CASE Declining(t, offers)
  <2>1. Merge(state, t.request) = state /\ t.charge = FALSE /\ t.out = {}
    BY <1>8 DEF Declining, Merge
  <2>2. \A p \in Providers : /\ p = t.job.prov => /\ Asked(p, offers) /\ o[p].st = "declined"
                                                  /\ o[p] # NoOffer
                             /\ p # t.job.prov => o[p] = offers[p]
    BY <1>1, <1>3, <1>8 DEF Declining
  <2>3. Agree(r, o, state, match, forked)
    BY <2>1, <2>2 DEF Agree, Asked
  <2>4. \A p \in Providers : /\ ValidOfferStep(offers[p].st, o[p].st)
                             /\ o[p] # NoOffer => p \in Qualified[r]
    BY <1>2, <2>2 DEF ValidOfferStep, Asked
  <2>5. ASSUME NEW j, Ready(j, r, offers, forked) PROVE Ready(j, r, o, forked)
    <3>1. \A p \in Providers : Askable(r, p, offers, forked) => Askable(r, p, o, forked)
      BY <1>2, <2>2 DEF Askable
    <3>2. \A p \in Providers : Asked(p, o) => o[p] = offers[p] /\ Asked(p, offers)
      BY <2>2 DEF Asked
    <3>3. j.kind = "dispatch" /\ ~ forked => \A p \in Providers : o[p] = NoOffer
      BY <1>2, <2>2, <2>5 DEF Ready
    <3> QED
      BY <2>5, <3>1, <3>2, <3>3 DEF Ready
  <2> QED
    BY <2>1, <2>3, <2>4, <2>5 DEF Sound, ValidRequestStep, o
<1> QED
  BY <1>4, <1>5, <1>6, <1>7, <1>8 DEF Handling

LEMMA AgreeingTables ==
    TablesAgree <=> \A r \in Requests : Agree(r, offer[r], request[r], assigned, r \in doubtful)
BY DEF TablesAgree, Agree

\* What may be done to the requests and offers in one step.
Transitions ==
    \A r \in Requests :
        /\ ValidRequestStep(request[r], request'[r])
        /\ \A p \in Providers : ValidOfferStep(offer[r][p].st, offer'[r][p].st)

\* Whatever becomes of the offers, a job that was ready is ready for a request
\* whose chain of waves is forked.
LEMMA ReadyIfForked ==
    ASSUME NEW j, NEW r, NEW offers, NEW forked, Ready(j, r, offers, forked), NEW others
    PROVE  Ready(j, r, others, TRUE)
BY DEF Ready, Askable

\* An unanswered COMMIT leaves the job in the queue, and its request in doubt
\* if the job drives one.
LEMMA Effects ==
    ASSUME NEW w \in Workers, Committing(w)
    PROVE  /\ TakeEffect(w)
           /\ \/ Queue' = Queue \cup tx[w].out /\ doubtful' = doubtful
              \/ /\ Queue' = Queue \cup tx[w].out \cup {tx[w].job}
                 /\ doubtful' = doubtful \cup {r \in Requests : Drives(tx[w].job, r)}
<1>1. CASE Commit(w)
  <2>1. jobs' = jobs \cup tx[w].out /\ dead' = dead /\ lost' = lost /\ doubtful' = doubtful
    BY <1>1 DEF Commit, history
  <2> QED
    BY <2>1, Effective DEF Queue
<1>2. CASE LoseAck(w)
  <2>1. /\ \/ jobs' = jobs \cup {tx[w].job} \cup tx[w].out /\ dead' = dead
           \/ dead' = dead \cup {tx[w].job} /\ jobs' = jobs \cup tx[w].out
        /\ lost' = lost
    BY <1>2 DEF LoseAck
  <2>2. doubtful' = doubtful \cup {r \in Requests : Drives(tx[w].job, r)}
    BY <1>2 DEF LoseAck
  <2>3. Queue' = Queue \cup tx[w].out \cup {tx[w].job}
    BY <2>1 DEF Queue
  <2> QED
    BY <2>2, <2>3, Effective
<1> QED
  BY <1>1, <1>2 DEF Committing

LEMMA CommitWaves ==
    ASSUME OneWorker, CoreInv, TypeInv, DriverInv, RequestInv, WaveInv,
           NEW w \in Workers, Committing(w)
    PROVE  WaveInv' /\ Transitions
<1> DEFINE t == tx[w]
           r == t.job.req
           forked == r \in doubtful
<1>0. TakeEffect(w)
  BY Effective
<1>1. /\ tx'[w] = Idle /\ t.pc = "commit" /\ t \in TxType /\ t.charge \in BOOLEAN
  BY <1>0, Running, GoodFields DEF TakeEffect, At, Goto, CoreInv, CoreType
<1>2. \/ Queue' = Queue \cup t.out /\ doubtful' = doubtful
      \/ /\ Queue' = Queue \cup t.out \cup {t.job}
         /\ doubtful' = doubtful \cup {q \in Requests : Drives(t.job, q)}
  BY Effects
<1>3. \A q \in Requests :
        /\ request'[q] = IF q = r THEN Merge(request[q], t.request) ELSE request[q]
        /\ offer'[q] = IF q = r THEN After(t, offer[q]) ELSE offer[q]
  BY <1>0 DEF TakeEffect, Req, After
<1>4. \A q \in Requests, p \in Providers :
        <<q, p>> \in assigned' <=>
            <<q, p>> \in assigned \/ (t.charge = TRUE /\ q = r /\ p = t.job.prov)
  BY <1>0, <1>1 DEF TakeEffect, Req, Prov
<1>5. r \in Requests => Sound(t, r, offer[r], request[r], assigned', forked)
  <2> SUFFICES ASSUME r \in Requests PROVE Sound(t, r, offer[r], request[r], assigned', forked)
    OBVIOUS
  <2>1. Agree(r, offer[r], request[r], assigned, forked)
    BY AgreeingTables DEF WaveInv
  <2>2. Handling(t, r, offer[r], request[r], forked)
    BY DEF WaveInv, Handles
  <2>3. t.charge = TRUE => request[r] = "dispatching" /\ t.job.prov \in Providers
    BY Running, Whom DEF CoreInv, AcceptanceInv, ChargeUnderLock, Req
  <2>4. \A p \in Providers : offer[r][p] # NoOffer => p \in Qualified[r]
    BY DEF WaveInv, OffersAreDue
  <2>5. \A p \in Providers :
          <<r, p>> \in assigned' <=> <<r, p>> \in assigned \/ (t.charge = TRUE /\ p = t.job.prov)
    BY <1>4
  <2>6. r = t.job.req
    OBVIOUS
  <2> DEFINE o == offer[r]
             state == request[r]
             match == assigned'
  <2> HIDE DEF t, r, o, state, match, forked
  <2>7. Sound(t, r, o, state, match, forked)
    BY <1>1, <2>1, <2>2, <2>3, <2>4, <2>5, <2>6, SoundCommit DEF t, o, state, match
  <2> QED
    BY <2>7 DEF o, state, match
<1>6. /\ doubtful \subseteq doubtful'
      /\ \A q \in Requests : q # r => (q \in doubtful' <=> q \in doubtful)
      /\ Queue' \subseteq Queue \cup t.out \cup {t.job}
      /\ \A q \in Requests \ doubtful', j \in Queue' : Drives(j, q) => j \in Queue \cup t.out
  BY <1>2 DEF Drives
<1>7. \A j \in t.out : j.kind \in Drivers => Drives(t.job, j.req)
  BY DEF DriverInv, Following
<1> HIDE DEF t, r, forked
<1>8. TablesAgree'
  <2>1. ASSUME NEW q \in Requests
        PROVE  Agree(q, offer'[q], request'[q], assigned', q \in doubtful')
    <3>1. CASE q = r
      <4>1. Agree(q, offer'[q], request'[q], assigned', forked)
        BY <1>3, <1>5, <3>1 DEF Sound
      <4>2. forked => q \in doubtful'
        BY <1>6, <3>1 DEF forked
      <4> QED
        BY <4>1, <4>2 DEF Agree
    <3>2. CASE q # r
      <4>1. Agree(q, offer[q], request[q], assigned, q \in doubtful)
        BY AgreeingTables DEF WaveInv
      <4>2. /\ offer'[q] = offer[q] /\ request'[q] = request[q]
            /\ \A p \in Providers : <<q, p>> \in assigned' <=> <<q, p>> \in assigned
        BY <1>3, <1>4, <3>2
      <4>3. q \in doubtful' <=> q \in doubtful
        BY <1>6, <3>2
      <4> QED
        BY <4>1, <4>2, <4>3 DEF Agree
    <3> QED
      BY <3>1, <3>2
  <2> QED
    BY <2>1 DEF TablesAgree, Agree
<1>9. OffersAreDue'
  BY <1>3, <1>5 DEF Sound, WaveInv, OffersAreDue
<1>10. Transitions
  BY <1>3, <1>5 DEF Sound, Transitions, ValidRequestStep, ValidOfferStep
<1>11. AllReady(Queue', offer', request', doubtful')
  <2> SUFFICES ASSUME NEW j \in Queue', NEW q \in Requests,
                      Drives(j, q), request'[q] = "dispatching"
               PROVE  Ready(j, q, offer'[q], q \in doubtful')
    BY DEF AllReady
  <2>1. request[q] = "dispatching"
    BY <1>10 DEF Transitions, ValidRequestStep
  <2>2. j \in Queue \cup {t.job} => Ready(j, q, offer[q], q \in doubtful)
    BY <2>1 DEF WaveInv, AllReady, t
  <2>3. j \in t.out => q = r
    BY <1>7 DEF Drives, Drivers, r
  <2>4. j = t.job => q = r
    BY DEF Drives, r
  <2>5. CASE q # r
    <3>1. j \in Queue /\ Ready(j, q, offer[q], q \in doubtful)
      BY <1>6, <2>2, <2>3, <2>4, <2>5
    <3>2. offer'[q] = offer[q] /\ (q \in doubtful' <=> q \in doubtful)
      BY <1>3, <1>6, <2>5
    <3>3. CASE q \in doubtful
      <4>1. Ready(j, q, offer[q], TRUE)
        BY <3>1, ReadyIfForked
      <4> QED
        BY <3>2, <3>3, <4>1
    <3>4. CASE q \notin doubtful
      BY <3>1, <3>2, <3>4
    <3> QED
      BY <3>3, <3>4
  <2>6. CASE q = r /\ q \in doubtful'
    <3>1. \E o, f : Ready(j, q, o, f)
      <4>1. CASE j \in t.out
        BY <1>5, <2>6, <4>1, <1>3 DEF Sound
      <4>2. CASE j \in Queue \cup {t.job}
        BY <2>2, <4>2
      <4> QED
        BY <1>6, <4>1, <4>2
    <3>2. Ready(j, q, offer'[q], TRUE)
      BY <3>1, ReadyIfForked
    <3> QED
      BY <2>6, <3>2
  <2>7. CASE q = r /\ q \notin doubtful'
    <3>1. /\ forked = FALSE /\ (q \in doubtful) = FALSE /\ (q \in doubtful') = FALSE
          /\ AtMostOne(r)
      BY <1>6, <2>7 DEF forked, DriverInv
    <3>2. CASE j \in t.out
      <4>1. Ready(j, q, offer'[q], forked)
        BY <1>3, <1>5, <2>7, <3>2 DEF Sound
      <4> QED
        BY <2>7, <3>1, <4>1
    <3>3. CASE j \in Queue
      <4>1. ~ Drives(tx[w].job, r)
        BY <2>7, <3>1, <3>3 DEF AtMostOne
      <4>2. t.job.kind \notin Drivers
        BY <4>1 DEF Drives, Drivers, t, r
      <4>3. Ready(j, q, offer[q], forked)
        BY <2>2, <2>7, <3>1, <3>3
      <4>4. Ready(j, q, offer'[q], forked)
        BY <1>3, <1>5, <2>7, <4>2, <4>3 DEF Sound
      <4> QED
        BY <2>7, <3>1, <4>4
    <3> QED
      BY <1>6, <2>7, <3>2, <3>3
  <2> QED
    BY <2>5, <2>6, <2>7
<1>12. \A v \in Workers : tx'[v] = Idle
  BY <1>1 DEF OneWorker
<1>13. AllReady({tx'[v].job : v \in Workers}, offer', request', doubtful')
  BY <1>12, IdleFollows DEF AllReady
<1>14. \A v \in Workers : Handles(tx'[v], offer', request', doubtful')
  BY <1>12, IdleHandles
<1> QED
  BY <1>8, <1>9, <1>10, <1>11, <1>13, <1>14 DEF WaveInv

LEMMA QueueInside ==
    ASSUME NEW w \in Workers, Step(w) \/ Fault(w) \/ LoseAck(w) \/ Crash(w), ~ Committing(w)
    PROVE  Queue' \subseteq Queue \cup {tx[w].job} /\ doubtful' = doubtful
<1>1. CASE \E j \in jobs : Claim(w, j)
  BY <1>1 DEF Claim, Queue, history
<1>2. CASE BreakDeadlock(w) \/ RefuseOffer(w) \/ Fault(w) \/ Crash(w) \/ LockOffer(w)
  BY <1>2 DEF BreakDeadlock, RefuseOffer, Fault, Crash, LockOffer, RollBack, Queue, history
<1>3. CASE \/ PlanWaves(w) \/ SendOffer(w) \/ Unfill(w) \/ CollectUnanswered(w)
           \/ ExpireOffer(w) \/ CountUnanswered(w) \/ BumpUnanswered(w) \/ LockRequest(w)
           \/ Charge(w) \/ WithdrawOffer(w) \/ ResetUnanswered(w) \/ DeclineOffer(w)
           \/ ReleaseToProvider(w) \/ ReleaseToCustomer(w) \/ ToggleAvailable(w)
           \/ GrantFree(w) \/ CountFree(w) \/ AdjustFree(w)
  <2>1. UNCHANGED <<queueVars, doubtful>>
    BY <1>3 DEF history, PlanWaves, SendOffer, Unfill, CollectUnanswered, ExpireOffer, CountUnanswered,
       BumpUnanswered, LockRequest, Charge, WithdrawOffer, ResetUnanswered, DeclineOffer,
       ReleaseToProvider, ReleaseToCustomer, ToggleAvailable, GrantFree, CountFree, AdjustFree
  <2> QED
    BY <2>1 DEF queueVars, Queue
<1> QED
  BY <1>1, <1>2, <1>3, Zenon DEF Step, Committing

\* Every other step leaves the tables as they are.
LEMMA InsideWaves ==
    ASSUME OneWorker, CoreInv, TypeInv, RequestInv, WaveInv,
           NEW w \in Workers, Step(w) \/ Fault(w) \/ LoseAck(w) \/ Crash(w), ~ Committing(w)
    PROVE  WaveInv' /\ UNCHANGED dbVars
<1> DEFINE s == tx[w]
           t == tx'[w]
<1>1. UNCHANGED dbVars
  BY InsideRequest
<1>2. \A u : Goto(w, u) => t = u
  BY DEF Goto, CoreInv, CoreType
<1>3. Handles(t, offer, request, doubtful)
  <2>1. CASE \E j \in jobs : Claim(w, j)
    BY <1>2, <2>1, ClaimHandled
  <2>2. CASE BreakDeadlock(w) \/ RefuseOffer(w) \/ Fault(w) \/ Crash(w)
    BY <2>2, PuttingDown, IdleHandles
  <2>3. CASE PlanWaves(w)
    BY <1>2, <2>3, PlanHandled
  <2>4. CASE SendOffer(w)
    BY <1>2, <2>4, SendHandled
  <2>5. CASE CollectUnanswered(w)
    BY <1>2, <2>5, CollectHandled
  <2>6. CASE ExpireOffer(w)
    BY <1>2, <2>6, ExpireHandled
  <2>7. CASE CountUnanswered(w) \/ BumpUnanswered(w) \/ Unfill(w)
    BY <1>2, <2>7, BumpHandled
  <2>8. CASE Charge(w)
    BY <1>2, <2>8, ChargeHandled
  <2>9. CASE WithdrawOffer(w)
    BY <1>2, <2>9, WithdrawHandled
  <2>10. CASE LockOffer(w) \/ LockRequest(w) \/ ResetUnanswered(w) \/ DeclineOffer(w)
    BY <1>2, <2>10, LookHandled
  <2>11. CASE \/ ReleaseToProvider(w) \/ ReleaseToCustomer(w) \/ ToggleAvailable(w)
              \/ GrantFree(w) \/ CountFree(w) \/ AdjustFree(w)
    BY <1>2, <2>11, ElseHandled
  <2> QED
    BY <2>1, <2>2, <2>3, <2>4, <2>5, <2>6, <2>7, <2>8, <2>9, <2>10, <2>11, Zenon
       DEF Step, Committing
<1>4. /\ Queue' \subseteq Queue \cup {s.job}
      /\ \/ t.job = s.job \/ t.job = Idle.job
         \/ \E j \in jobs : t.job.kind = j.kind /\ t.job.req = j.req /\ t.job.rest = j.rest
                            /\ t.job.wave = j.wave
  <2>1. Queue' \subseteq Queue \cup {s.job}
    BY QueueInside
  <2>2. CASE GoesOn(s, t)
    BY <2>1, <2>2 DEF GoesOn
  <2>3. CASE t = Idle
    BY <2>1, <2>3
  <2>4. CASE \E j \in jobs : Claim(w, j)
    BY <1>2, <2>1, <2>4, ClaimHandled
  <2>5. CASE Unfill(w) \/ CountUnanswered(w) \/ BumpUnanswered(w) \/ ResetUnanswered(w) \/ ToggleAvailable(w)
    BY <2>1, <2>5, Writing
  <2>6. CASE Charge(w) /\ CanPay(Prov(w))
    BY <2>1, <2>6, Charging
  <2>7. CASE GrantFree(w) \/ CountFree(w) \/ AdjustFree(w)
    <3>1. TxShape(s)
      BY DEF CoreInv, CoreType
    <3>2. t.job = s.job
      BY <1>2, <2>7, <3>1 DEF GrantFree, CountFree, AdjustFree, TxShape
    <3> QED
      BY <2>1, <3>2
  <2> QED
    BY <2>2, <2>3, <2>4, <2>5, <2>6, <2>7, StepsOfTheWorker
<1>5. \A j, k, r, offers, forked :
        /\ j.kind = k.kind /\ j.req = k.req /\ j.rest = k.rest /\ j.wave = k.wave
        /\ Ready(k, r, offers, forked)
        => Ready(j, r, offers, forked)
  BY DEF Ready, PrevWave
<1>6. s.job \in {tx[v].job : v \in Workers} /\ \A v \in Workers : tx'[v] = t
  BY DEF OneWorker
<1>7. /\ request' = request /\ offer' = offer /\ assigned' = assigned
      /\ doubtful' = doubtful
  BY <1>1, QueueInside DEF dbVars
<1> HIDE DEF s, t
<1>8. AllReady(Queue', offer', request', doubtful')
  <2> SUFFICES ASSUME NEW j \in Queue \cup {s.job}, NEW r \in Requests,
                      Drives(j, r), request[r] = "dispatching"
               PROVE  Ready(j, r, offer[r], r \in doubtful)
    BY <1>4, <1>7 DEF AllReady
  <2> QED
    BY <1>6 DEF WaveInv, AllReady
<1>9. AllReady({tx'[v].job : v \in Workers}, offer', request', doubtful')
  <2> SUFFICES ASSUME NEW r \in Requests, Drives(t.job, r), request[r] = "dispatching"
               PROVE  Ready(t.job, r, offer[r], r \in doubtful)
    BY <1>6, <1>7 DEF AllReady
  <2>1. CASE t.job = s.job
    BY <1>6, <2>1 DEF WaveInv, AllReady
  <2>2. CASE t.job = Idle.job
    BY <2>2, IdleFollows
  <2>3. ASSUME NEW j \in jobs, t.job.kind = j.kind, t.job.req = j.req, t.job.rest = j.rest,
               t.job.wave = j.wave
        PROVE  Ready(t.job, r, offer[r], r \in doubtful)
    <3>1. Ready(j, r, offer[r], r \in doubtful)
      BY <2>3 DEF WaveInv, AllReady, Drives, Queue
    <3> QED
      BY <1>5, <2>3, <3>1
  <2> QED
    BY <1>4, <2>1, <2>2, <2>3
<1>10. TablesAgree' /\ OffersAreDue'
  BY <1>7 DEF WaveInv, TablesAgree, OffersAreDue
<1>11. \A v \in Workers : Handles(tx'[v], offer', request', doubtful')
  BY <1>3, <1>6, <1>7 DEF t
<1> QED
  BY <1>1, <1>8, <1>9, <1>10, <1>11 DEF WaveInv

LEMMA WaveInit == ASSUME Init PROVE WaveInv
<1>1. /\ request = [r \in Requests |-> "dispatching"]
      /\ offer = [r \in Requests |-> [p \in Providers |-> NoOffer]]
      /\ assigned = {} /\ Queue = {DispatchJob(r) : r \in Requests}
      /\ \A w \in Workers : tx[w] = Idle
  BY DEF Init, Queue
<1>2. NoOffer.st = "none"
  BY DEF NoOffer
<1>3. TablesAgree /\ OffersAreDue
  BY <1>1, <1>2 DEF TablesAgree, OffersAreDue
<1>4. ASSUME NEW j \in Queue, NEW r \in Requests PROVE Ready(j, r, offer[r], r \in doubtful)
  <2>1. \A p \in Providers : offer[r][p] = NoOffer
    BY <1>1
  <2>2. j.rest = <<>> /\ j.wave = 1
    BY <1>1 DEF DispatchJob, Job
  <2>3. OnceEach(j.rest)
    BY <2>2 DEF OnceEach
  <2> QED
    BY <1>2, <2>1, <2>2, <2>3, OnEmpty DEF Ready, Asked
<1>5. AllReady(Queue, offer, request, doubtful)
  BY <1>4 DEF AllReady
<1>6. AllReady({tx[w].job : w \in Workers}, offer, request, doubtful)
  BY <1>1, IdleFollows DEF AllReady
<1> QED
  BY <1>1, <1>3, <1>5, <1>6, IdleHandles DEF WaveInv

LEMMA ArriveWaves ==
    ASSUME WaveInv, NEW j, j.kind \notin Drivers, Arrive(j)
    PROVE  WaveInv'
<1>1. Queue' \subseteq Queue \cup {j} /\ UNCHANGED <<dbVars, tx, doubtful>>
  BY DEF Arrive, Queue, history
<1>2. AllReady(Queue', offer', request', doubtful')
  BY <1>1 DEF WaveInv, AllReady, Drives, Drivers, dbVars
<1> QED
  BY <1>1, <1>2 DEF WaveInv, TablesAgree, OffersAreDue, AllReady, dbVars

LEMMA StayingPut == ASSUME UNCHANGED dbVars PROVE Transitions
BY DEF Transitions, ValidRequestStep, ValidOfferStep, dbVars

LEMMA WaveStep ==
    ASSUME OneWorker, CoreInv, TypeInv, DriverInv, RequestInv, WaveInv, [Next]_vars
    PROVE  WaveInv' /\ Transitions
<1>1. ASSUME NEW w \in Workers, Step(w) \/ Fault(w) \/ LoseAck(w) \/ Crash(w)
      PROVE  WaveInv' /\ Transitions
  <2>1. CASE Committing(w)
    BY <2>1, CommitWaves
  <2>2. CASE ~ Committing(w)
    BY <1>1, <2>2, InsideWaves, StayingPut
  <2> QED
    BY <2>1, <2>2
<1>2. ASSUME NEW b \in buttons, NEW kind \in {"accept", "decline"}, Tap(b, kind)
      PROVE  WaveInv' /\ Transitions
  <2> DEFINE j == TapJob(kind, b, taps + 1)
  <2>1. Arrive(j) /\ j.kind \notin Drivers
    BY <1>2, JobIs DEF Tap, TapJob, Drivers
  <2>2. UNCHANGED dbVars
    BY <2>1 DEF Arrive
  <2> HIDE DEF j
  <2> QED
    BY <2>1, <2>2, ArriveWaves, StayingPut
<1>3. ASSUME NEW p \in Providers, NEW kind \in Commands, Command(p, kind)
      PROVE  WaveInv' /\ Transitions
  <2> DEFINE j == CommandJob(kind, p, taps + 1)
  <2>1. Arrive(j) /\ j.kind \notin Drivers
    BY <1>3, NewJobs DEF Command, Commands, Drivers
  <2>2. UNCHANGED dbVars
    BY <2>1 DEF Arrive
  <2> HIDE DEF j
  <2> QED
    BY <2>1, <2>2, ArriveWaves, StayingPut
<1>4. CASE UNCHANGED vars
  <2>1. UNCHANGED <<dbVars, queueVars, tx, doubtful>>
    BY <1>4 DEF vars, history
  <2>2. Queue' = Queue
    BY <2>1 DEF queueVars, Queue
  <2>3. WaveInv'
    BY <2>1, <2>2 DEF WaveInv, TablesAgree, OffersAreDue, dbVars
  <2> QED
    BY <2>1, <2>3, StayingPut
<1> QED
  BY <1>1, <1>2, <1>3, <1>4 DEF Next

LEMMA WaveInvariant == OneWorker => (Spec => []WaveInv)
<1> SUFFICES ASSUME OneWorker PROVE Spec => []WaveInv
  OBVIOUS
<1>1. Init => WaveInv /\ RequestInv
  BY WaveInit, RequestInit
<1>2. CoreInv /\ TypeInv /\ DriverInv /\ RequestInv /\ WaveInv /\ [Next]_vars => WaveInv' /\ RequestInv'
  BY WaveStep, RequestStep
<1>3. Spec => []DriverInv
  <2>1. Init => DriverInv
    BY DriverInit
  <2>2. CoreInv /\ DriverInv /\ [Next]_vars => DriverInv'
    BY DriverStep
  <2> QED
    BY <2>1, <2>2, CoreInvariant, PTL DEF Spec
<1> QED
  BY <1>1, <1>2, <1>3, CoreInvariant, TypeInvariant, PTL DEF Spec

\* With one worker the three tables agree on who has the job, at every moment
\* anybody else can look, whatever is lost, COMMITs' answers included; and an
\* offer is still open after its request only where the COMMIT of a job that
\* drives it went unanswered: ...
THEOREM TablesAgreeHolds == OneWorker => (Spec => []TablesAgree)
<1> SUFFICES ASSUME OneWorker PROVE Spec => []TablesAgree
  OBVIOUS
<1>1. WaveInv => TablesAgree
  BY DEF WaveInv
<1> QED
  BY <1>1, WaveInvariant, PTL

\* ... and requests and offers only take the transitions of transitions.py.
THEOREM TransitionsAreValid == OneWorker => (Spec => TransitionsValid)
<1> SUFFICES ASSUME OneWorker PROVE Spec => TransitionsValid
  OBVIOUS
<1>1. Init => RequestInv /\ DriverInv
  BY RequestInit, DriverInit
<1>2. CoreInv /\ DriverInv /\ RequestInv /\ [Next]_vars => DriverInv' /\ RequestInv'
  BY DriverStep, RequestStep
<1>3. CoreInv /\ TypeInv /\ DriverInv /\ RequestInv /\ WaveInv /\ [Next]_vars =>
        \A r \in Requests :
          /\ ValidRequestStep(request[r], request'[r])
          /\ \A p \in Providers : ValidOfferStep(offer[r][p].st, offer'[r][p].st)
  BY WaveStep DEF Transitions
<1> QED
  BY <1>1, <1>2, <1>3, CoreInvariant, TypeInvariant, WaveInvariant, PTL DEF Spec, TransitionsValid

-----------------------------------------------------------------------------
(* The one-step match: dispatch implements Introduction                    *)

LEMMA AbstractInit == ASSUME Init PROVE Abstract!Init
BY DEF Init, Abstract!Init, Outcome

LEMMA AbstractStutter ==
    ASSUME UNCHANGED <<request, assigned, balance, contacts, doubtful>>
    PROVE  UNCHANGED Abstract!vars
BY DEF Abstract!vars, Outcome

\* The COMMIT of an acceptance is the match, with its credit; ...
LEMMA CommitMatches ==
    ASSUME CoreInv, TypeInv, LedgerInv, WaveInv, WaveInv',
           NEW w \in Workers, Committing(w), tx[w].charge
    PROVE  /\ Req(w) \in Requests /\ Prov(w) \in Providers
           /\ Abstract!Match(Req(w), Prov(w))
<1> DEFINE t == tx[w]
           r == Req(w)
           p == Prov(w)
<1>1. r \in Requests /\ p \in Providers
  BY Running, Whom DEF Req, Prov
<1>2. request[r] = "dispatching" /\ t.request = "assigned"
  BY <1>1 DEF CoreInv, AcceptanceInv, ChargeUnderLock
<1>3. t.entry = 0 /\ balance[p] >= 1 /\ balance \in [Providers -> Nat]
  BY <1>1 DEF LedgerInv, Ledger, Prov
<1>4. assigned' = assigned \cup {<<r, p>>}
  BY Effective DEF TakeEffect
<1>5. p \in Qualified[r]
  <2>1. offer'[r][p].st = "accepted"
    BY <1>1, <1>4 DEF WaveInv, TablesAgree
  <2> QED
    BY <1>1, <2>1 DEF WaveInv, OffersAreDue, NoOffer
<1>6. \A q \in Requests : request'[q] = IF q = r THEN "assigned" ELSE request[q]
  BY <1>2, Effective DEF TakeEffect, Merge
<1>7. [q \in Requests |-> Outcome(q)]' = [[q \in Requests |-> Outcome(q)] EXCEPT ![r] = "matched"]
  BY <1>1, <1>6 DEF Outcome
<1>8. [q \in Requests |-> Outcome(q)][r] = "open"
  BY <1>1, <1>2 DEF Outcome
<1>9. balance' = [balance EXCEPT ![p] = @ - 1]
  <2>1. balance' = [x \in Providers |-> IF x = p THEN balance[x] + Entries(t) ELSE balance[x]]
    BY Effective DEF TakeEffect
  <2>2. Entries(t) = - 1
    BY <1>3 DEF Entries
  <2> QED
    BY <1>1, <1>3, <2>1, <2>2
<1>10. UNCHANGED <<contacts, doubtful>>
  <2>1. t.job.kind = "accept"
    BY Running DEF GoodTx, Performs
  <2>2. \A q : ~ Drives(t.job, q)
    BY <2>1 DEF Drives
  <2> QED
    BY <2>2 DEF Committing, Commit, LoseAck, worldVars, history
<1> HIDE DEF t, r, p
<1>11. Abstract!Match(r, p)
  BY <1>1, <1>3, <1>4, <1>5, <1>7, <1>8, <1>9, <1>10 DEF Abstract!Match
<1> QED
  BY <1>1, <1>11 DEF r, p

\* ... any other leaves the request unmatched, gives or takes credits, or does
\* neither.
LEMMA CommitElse ==
    ASSUME CoreInv, TypeInv, LedgerInv, LedgerInv', RequestInv, WaveInv,
           NEW w \in Workers, Committing(w), ~ tx[w].charge
    PROVE  \/ Req(w) \in Requests /\ Abstract!LeaveUnmatched(Req(w))
           \/ Prov(w) \in Providers /\ Abstract!Recredit(Prov(w))
           \/ Req(w) \in Requests /\ Abstract!Doubt(Req(w))
           \/ UNCHANGED Abstract!vars
<1> DEFINE t == tx[w]
           r == Req(w)
           p == Prov(w)
<1>1. UNCHANGED <<assigned, contacts>>
  BY Effective DEF Committing, TakeEffect, Commit, LoseAck, worldVars
<1>2. /\ balance' = [x \in Providers |-> IF x = p THEN balance[x] + Entries(t) ELSE balance[x]]
      /\ balance \in [Providers -> Nat] /\ balance' \in [Providers -> Nat]
  BY Effective DEF TakeEffect, LedgerInv
<1>3. Entries(t) = t.entry /\ t.entry \in Int
  BY Running, GoodFields DEF Entries
<1>4. \A q \in Requests : request'[q] = IF q = r THEN Merge(request[q], t.request) ELSE request[q]
  BY Effective DEF TakeEffect
<1>7. \/ doubtful' = doubtful
      \/ /\ doubtful' = doubtful \cup {r} /\ r \in Requests
         /\ t.job.kind \in Drivers
  <2>1. \/ doubtful' = doubtful
        \/ doubtful' = doubtful \cup {q \in Requests : Drives(t.job, q)}
    BY Effects
  <2>2. {q \in Requests : Drives(t.job, q)} \in {{}, {r}}
    BY DEF Drives, Req
  <2>3. r \in {q \in Requests : Drives(t.job, q)} => r \in Requests /\ t.job.kind \in Drivers
    BY DEF Drives, Drivers
  <2> QED
    BY <2>1, <2>2, <2>3
<1>5. CASE r \in Requests /\ t.request # Keep
  <2>1. Handling(t, r, offer[r], request[r], r \in doubtful)
    BY <1>5 DEF WaveInv, Handles, Req
  <2>2. t.request = "unfilled" /\ t.entry = 0
    BY <1>5, <2>1 DEF Handling, Resting, LettingExpire, Offering, Accepting, Declining
  <2>3. request[r] = "dispatching"
    BY <1>5 DEF RequestInv, Found, Req
  <2>4. \A q \in Requests : request'[q] = IF q = r THEN "unfilled" ELSE request[q]
    BY <1>4, <2>2 DEF Merge
  <2>5. [q \in Requests |-> Outcome(q)]' = [[q \in Requests |-> Outcome(q)] EXCEPT ![r] = "unmatched"]
    BY <1>5, <2>4 DEF Outcome
  <2>6. [q \in Requests |-> Outcome(q)][r] = "open"
    BY <1>5, <2>3 DEF Outcome
  <2>7. balance' = balance
    BY <1>2, <1>3, <2>2
  <2> HIDE DEF t, r, p
  <2>8. Abstract!LeaveUnmatched(r)
    BY <1>1, <1>7, <2>5, <2>6, <2>7 DEF Abstract!LeaveUnmatched
  <2> QED
    BY <1>5, <2>8 DEF r
<1>6. CASE ~ (r \in Requests /\ t.request # Keep)
  <2>1. \A q \in Requests : request'[q] = request[q]
    BY <1>4, <1>6 DEF Merge
  <2>2. UNCHANGED [q \in Requests |-> Outcome(q)]
    BY <2>1 DEF Outcome
  <2>3. CASE doubtful' # doubtful
    <3>1. doubtful' = doubtful \cup {r} /\ r \in Requests /\ t.job.kind \in Drivers
      BY <1>7, <2>3
    <3>2. t.request = Keep
      BY <1>6, <3>1
    <3>3. Handling(t, r, offer[r], request[r], r \in doubtful)
      BY <3>1 DEF WaveInv, Handles, Req
    <3>4. t.entry = 0
      BY <3>1, <3>2, <3>3 DEF Handling, Resting, Accepting, Declining, Drivers
    <3>5. balance' = balance
      BY <1>2, <1>3, <3>4
    <3> HIDE DEF t, r, p
    <3>6. Abstract!Doubt(r)
      BY <1>1, <2>2, <3>1, <3>5 DEF Abstract!Doubt
    <3> QED
      BY <3>1, <3>6 DEF r
  <2>4. CASE doubtful' = doubtful /\ p \in Providers
    <3>1. balance' = [balance EXCEPT ![p] = balance'[p]] /\ balance'[p] \in Nat
      BY <1>2, <2>4
    <3> HIDE DEF t, r, p
    <3>2. Abstract!Recredit(p)
      BY <1>1, <2>2, <2>4, <3>1 DEF Abstract!Recredit
    <3> QED
      BY <2>4, <3>2 DEF p
  <2>5. CASE doubtful' = doubtful /\ p \notin Providers
    <3>1. balance' = balance
      BY <1>2, <2>5
    <3>2. UNCHANGED Abstract!vars
      BY <1>1, <2>2, <2>5, <3>1 DEF Abstract!vars
    <3> QED
      BY <3>2
  <2> QED
    BY <2>3, <2>4, <2>5
<1> QED
  BY <1>5, <1>6

\* Contacts are sent by release_contacts only.
LEMMA ContactsStay ==
    ASSUME NEW w \in Workers, Step(w) \/ Fault(w) \/ LoseAck(w) \/ Crash(w),
           ~ ReleaseToProvider(w), ~ ReleaseToCustomer(w), ~ Committing(w)
    PROVE  UNCHANGED contacts
<1>1. CASE \E j \in jobs : Claim(w, j)
  BY <1>1, Zenon DEF Claim, worldVars
<1>2. CASE \/ BreakDeadlock(w) \/ LockOffer(w) \/ LockRequest(w) \/ Charge(w)
           \/ Unfill(w) \/ WithdrawOffer(w) \/ ResetUnanswered(w) \/ DeclineOffer(w)
           \/ RefuseOffer(w) \/ Fault(w) \/ Crash(w)
  BY <1>2 DEF BreakDeadlock, RefuseOffer, LockOffer, LockRequest, Charge, Unfill, WithdrawOffer,
              ResetUnanswered, DeclineOffer, Fault, Crash, worldVars
<1>3. CASE \/ PlanWaves(w) \/ SendOffer(w) \/ CollectUnanswered(w) \/ ExpireOffer(w)
           \/ CountUnanswered(w) \/ BumpUnanswered(w) \/ ToggleAvailable(w)
           \/ GrantFree(w) \/ CountFree(w) \/ AdjustFree(w)
  BY <1>3 DEF PlanWaves, SendOffer, CollectUnanswered, ExpireOffer, CountUnanswered,
              BumpUnanswered, ToggleAvailable, GrantFree, CountFree, AdjustFree, worldVars
<1> QED
  BY <1>1, <1>2, <1>3, Zenon DEF Step, Committing

\* A message of release_contacts introduces one to the other, or shows neither
\* anything when it goes out as a template.
LEMMA ReleaseIntroduces ==
    ASSUME TypeInv, ReleaseInv, NEW w \in Workers, ReleaseToProvider(w) \/ ReleaseToCustomer(w)
    PROVE  /\ Req(w) \in Requests /\ Prov(w) \in Providers
           /\ \/ \E to \in {"provider", "customer"} : Abstract!Introduce(Req(w), Prov(w), to)
              \/ UNCHANGED Abstract!vars
<1>1. tx[w].pc \in {"provider", "customer"}
  BY DEF ReleaseToProvider, ReleaseToCustomer, At
<1>2. Req(w) \in Requests /\ Prov(w) \in Providers
  BY <1>1, Running, Whom DEF Req, Prov
<1>3. <<Req(w), Prov(w)>> \in assigned
  BY <1>1 DEF ReleaseInv, At
<1>4. \/ \E to \in {"provider", "customer"} : contacts' = contacts \cup {<<Req(w), Prov(w), to>>}
      \/ UNCHANGED contacts
  BY DEF ReleaseToProvider, ReleaseToCustomer, Delivered
<1>5. UNCHANGED <<request, assigned, balance, doubtful>>
  BY DEF ReleaseToProvider, ReleaseToCustomer, dbVars, history
<1>6. UNCHANGED [q \in Requests |-> Outcome(q)]
  BY <1>5 DEF Outcome
<1> QED
  BY <1>2, <1>3, <1>4, <1>5, <1>6 DEF Abstract!Introduce, Abstract!vars

LEMMA AbstractStep ==
    ASSUME OneWorker, CoreInv, TypeInv, ReleaseInv, LedgerInv, LedgerInv', RequestInv,
           WaveInv, WaveInv', [Next]_vars
    PROVE  [Abstract!Next]_(Abstract!vars)
<1>1. ASSUME NEW w \in Workers, Step(w) \/ Fault(w) \/ LoseAck(w) \/ Crash(w)
      PROVE  [Abstract!Next]_(Abstract!vars)
  <2>1. CASE Committing(w)
    <3>1. CASE tx[w].charge
      BY <2>1, <3>1, CommitMatches DEF Abstract!Next, Abstract!Settle
    <3>2. CASE ~ tx[w].charge
      BY <2>1, <3>2, CommitElse DEF Abstract!Next, Abstract!Settle
    <3> QED
      BY <3>1, <3>2
  <2>2. CASE ReleaseToProvider(w) \/ ReleaseToCustomer(w)
    BY <2>2, ReleaseIntroduces DEF Abstract!Next
  <2>3. CASE ~ Committing(w) /\ ~ ReleaseToProvider(w) /\ ~ ReleaseToCustomer(w)
    <3>1. UNCHANGED dbVars
      BY <1>1, <2>3, InsideRequest
    <3>2. UNCHANGED <<contacts, doubtful>>
      BY <1>1, <2>3, ContactsStay, QueueInside
    <3> QED
      BY <3>1, <3>2, AbstractStutter DEF dbVars
  <2> QED
    BY <2>1, <2>2, <2>3
<1>2. CASE UNCHANGED <<dbVars, worldVars, history>>
  BY <1>2, AbstractStutter DEF dbVars, worldVars, history
<1> QED
  BY <1>1, <1>2 DEF Next, Tap, Command, Arrive, vars

\* With one worker dispatch does what Introduction promises, for any numbers
\* of requests and providers: a request is matched, with the credit of a
\* qualified provider who has one, in one step, or left unmatched, once; and
\* only who is matched is introduced.
THEOREM DispatchImplementsIntroduction == OneWorker => (Spec => Abstract!Spec)
<1> SUFFICES ASSUME OneWorker PROVE Spec => Abstract!Spec
  OBVIOUS
<1>1. Init => Abstract!Init /\ ReleaseInv /\ LedgerInv /\ RequestInv
  BY AbstractInit, ContactsInit, LedgerInit, RequestInit
<1>2. CoreInv /\ ReleaseInv /\ LedgerInv /\ RequestInv /\ [Next]_vars =>
          ReleaseInv' /\ LedgerInv' /\ RequestInv'
  BY ReleaseStep, LedgerStep, RequestStep
<1>3. CoreInv /\ TypeInv /\ ReleaseInv /\ LedgerInv /\ LedgerInv' /\ RequestInv
          /\ WaveInv /\ WaveInv' /\ [Next]_vars => [Abstract!Next]_(Abstract!vars)
  BY AbstractStep
<1> QED
  BY <1>1, <1>2, <1>3, CoreInvariant, TypeInvariant, WaveInvariant, PTL DEF Spec, Abstract!Spec

=============================================================================
