--------------------------- MODULE DispatchProofs ---------------------------
(***************************************************************************)
(* Proofs about Dispatch, for any numbers of workers, requests, providers, *)
(* taps, faults and crashes: a request is matched and debited at most      *)
(* once, contact details reach nobody but the two who are matched, a       *)
(* request in dispatch has one driver, and every row, job and transaction  *)
(* keeps its type.                                                         *)
(***************************************************************************)
EXTENDS Dispatch, WavesProofs

(* As much of the types as the first arguments need. What SplitIntoWaves   *)
(* computes, and so the lists of providers in a transaction, is left to    *)
(* the section on types.                                                   *)
TxShape(t) ==
    t \in [pc : Steps, job : {t.job}, todo : {t.todo},
           request : {Keep} \cup RequestStates, offers : {t.offers},
           unanswered : {t.unanswered}, available : {t.available},
           charge : BOOLEAN, remainder : {t.remainder}, entry : {t.entry},
           out : {t.out}, seen : {t.seen}]

CoreType ==
    /\ request \in [Requests -> RequestStates]
    /\ debits \in [Requests -> [Providers -> Nat]]
    /\ tx = [w \in Workers |-> tx[w]]
    /\ \A w \in Workers : TxShape(tx[w])
    /\ \A l \in locks : l.by \in Workers

CoreInv == CoreType /\ AcceptanceInv

USE DEF Keep

-----------------------------------------------------------------------------
(* The row locks                                                           *)

LEMMA NeedsOwn ==
    ASSUME NEW w \in Workers, NEW n \in Needs(w)
    PROVE  n.by = w
BY DEF Needs, At

LEMMA CompatibleSymmetric ==
    ASSUME NEW m1, NEW m2, Compatible(m1, m2)
    PROVE  Compatible(m2, m1)
BY DEF Compatible

\* Acquiring a lock keeps every lock held and admits no conflict.
LEMMA AcquireSafe ==
    ASSUME CoreType, LocksExclusive, NEW w \in Workers, Acquire(w)
    PROVE  /\ locks \subseteq locks'
           /\ Needs(w) \subseteq locks'
           /\ \A l \in locks' : l.by \in Workers
           /\ LocksExclusive'
<1>1. locks' = locks \cup Needs(w)
  BY DEF Acquire
<1>2. ASSUME NEW n \in Needs(w), NEW l \in locks, l.row = n.row, l.by # w
      PROVE  Compatible(l.mode, n.mode)
  BY <1>2 DEF Acquire, Blockers, CoreType
<1>3. ASSUME NEW k \in locks', NEW l \in locks', k.row = l.row, k.by # l.by
      PROVE  Compatible(k.mode, l.mode)
  <2>1. CASE k \in locks /\ l \in locks
    BY <1>3, <2>1 DEF LocksExclusive
  <2>2. CASE k \in Needs(w) /\ l \in locks
    BY <1>2, <1>3, <2>2, NeedsOwn, CompatibleSymmetric
  <2>3. CASE k \in locks /\ l \in Needs(w)
    BY <1>2, <1>3, <2>3, NeedsOwn
  <2>4. CASE k \in Needs(w) /\ l \in Needs(w)
    BY <1>3, <2>4, NeedsOwn
  <2> QED
    BY <1>1, <2>1, <2>2, <2>3, <2>4
<1>4. \A l \in locks' : l.by \in Workers
  BY <1>1, NeedsOwn DEF CoreType
<1> QED
  BY <1>1, <1>3, <1>4 DEF LocksExclusive

\* Giving up one's own locks leaves those of the others.
LEMMA UnlockSafe ==
    ASSUME CoreType, LocksExclusive, NEW w \in Workers, Unlock(w)
    PROVE  /\ \A l \in locks : l.by # w => l \in locks'
           /\ \A l \in locks' : l.by \in Workers
           /\ LocksExclusive'
BY DEF Unlock, CoreType, LocksExclusive

-----------------------------------------------------------------------------
(* Steps that leave the tables alone                                       *)

\* A step inside a transaction that changes neither what it is going to write
\* to the request nor whether it is going to charge, and does not go to the
\* charge itself.
LEMMA QuietStep ==
    ASSUME CoreInv, NEW w \in Workers, NEW t, Goto(w, t), TxShape(t),
           t.job = tx[w].job, t.charge = tx[w].charge,
           t.request = tx[w].request, t.pc # "charge",
           t.charge => t.pc \in {"withdraw", "reset", "decline", "commit"},
           UNCHANGED dbVars, UNCHANGED locks \/ Acquire(w)
    PROVE  CoreInv'
<1> USE DEF CoreInv, AcceptanceInv, dbVars, At, Req
<1>1. /\ locks \subseteq locks'
      /\ \A l \in locks' : l.by \in Workers
      /\ LocksExclusive'
  BY AcquireSafe DEF CoreType, LocksExclusive
<1>2. tx' = [v \in Workers |-> tx'[v]] /\ tx'[w] = t
      /\ \A v \in Workers : v # w => tx'[v] = tx[v]
  BY DEF Goto, CoreType
<1>3. CoreType'
  BY <1>1, <1>2 DEF CoreType
<1>4. OneMatchOneDebit' /\ MatchedNotDispatching'
  BY DEF OneMatchOneDebit, MatchedNotDispatching
<1>5. ChargeUnderLock' /\ WriteUnderLock'
  BY <1>1, <1>2 DEF ChargeUnderLock, WriteUnderLock, RequestLock
<1> QED
  BY <1>1, <1>3, <1>4, <1>5

LEMMA IdleShape ==
    /\ TxShape(Idle)
    /\ Idle.pc = "idle" /\ Idle.charge = FALSE /\ Idle.request = Keep
BY DEF Idle, TxShape, Steps, RequestStates

\* A transaction that ends without effect, or begins.
LEMMA FreshStep ==
    ASSUME CoreInv, NEW w \in Workers, NEW t, Goto(w, t), TxShape(t),
           t.charge = FALSE, t.request = Keep, t.pc # "charge",
           UNCHANGED dbVars, UNCHANGED locks \/ Unlock(w)
    PROVE  CoreInv'
<1> USE DEF CoreInv, AcceptanceInv, dbVars, At, Req
<1>1. /\ \A l \in locks : l.by # w => l \in locks'
      /\ \A l \in locks' : l.by \in Workers
      /\ LocksExclusive'
  BY UnlockSafe DEF CoreType, LocksExclusive
<1>2. tx' = [v \in Workers |-> tx'[v]] /\ tx'[w] = t
      /\ \A v \in Workers : v # w => tx'[v] = tx[v]
  BY DEF Goto, CoreType
<1>3. CoreType'
  BY <1>1, <1>2 DEF CoreType
<1>4. OneMatchOneDebit' /\ MatchedNotDispatching'
  BY DEF OneMatchOneDebit, MatchedNotDispatching
<1>5. ChargeUnderLock' /\ WriteUnderLock'
  BY <1>1, <1>2 DEF ChargeUnderLock, WriteUnderLock, RequestLock
<1> QED
  BY <1>1, <1>3, <1>4, <1>5

LEMMA RollBackStep ==
    ASSUME CoreInv, NEW w \in Workers, RollBack(w), UNCHANGED dbVars
    PROVE  CoreInv'
BY FreshStep, IdleShape DEF RollBack

LEMMA FirstStepType ==
    ASSUME NEW j PROVE FirstStep(j) \in Steps \ {"charge"}
BY DEF FirstStep, Steps

LEMMA ClaimStep ==
    ASSUME CoreInv, NEW w \in Workers, NEW j \in jobs, Claim(w, j)
    PROVE  CoreInv'
<1> DEFINE mine == [j EXCEPT !.att = @ + 1]
           t == [Idle EXCEPT !.pc = FirstStep(mine), !.job = mine,
                             !.seen = Seen(mine.prov)]
<1>1. /\ TxShape(t) /\ t.charge = FALSE /\ t.request = Keep
      /\ t.pc = FirstStep(mine)
  BY FirstStepType DEF Idle, TxShape, RequestStates
<1>2. Goto(w, t) /\ UNCHANGED dbVars /\ UNCHANGED locks
  BY DEF Claim
<1> HIDE DEF t
<1> QED
  BY <1>1, <1>2, FirstStepType, FreshStep

-----------------------------------------------------------------------------
(* The steps of a handler                                                  *)

\* What QuietStep asks of the next value t of a transaction, and that the
\* steps of release_contacts come in their order.
Quiet(w, t) ==
    /\ Goto(w, t)
    /\ TxShape(t)
    /\ t.job = tx[w].job /\ t.charge = tx[w].charge /\ t.request = tx[w].request
    /\ t.pc # "charge"
    /\ t.charge => t.pc \in {"withdraw", "reset", "decline", "commit"}
    /\ t.pc # "provider" /\ (t.pc = "customer" => At(w, "provider"))
    /\ UNCHANGED dbVars
    /\ UNCHANGED locks \/ Acquire(w)

LEMMA QuietSteps ==
    ASSUME CoreInv, NEW w \in Workers, \E t : Quiet(w, t)
    PROVE  CoreInv'
BY QuietStep DEF Quiet

LEMMA AfterExpiryShape ==
    ASSUME NEW t, TxShape(t)
    PROVE  LET u == AfterExpiry(t)
           IN  /\ TxShape(u) /\ u.job = t.job /\ u.charge = t.charge
               /\ u.request = t.request /\ u.pc \in {"unfill", "offer"}
BY DEF AfterExpiry, TxShape, Steps

LEMMA QuietActions ==
    ASSUME CoreInv, NEW w \in Workers,
           \/ PlanWaves(w) \/ SendOffer(w) \/ CollectUnanswered(w)
           \/ ExpireOffer(w) \/ CountUnanswered(w) \/ BumpUnanswered(w)
           \/ WithdrawOffer(w) \/ ResetUnanswered(w) \/ DeclineOffer(w)
           \/ ReleaseToProvider(w) \/ ReleaseToCustomer(w) \/ ToggleAvailable(w)
           \/ GrantFree(w) \/ CountFree(w) \/ AdjustFree(w)
    PROVE  \E t : Quiet(w, t)
<1> USE DEF CoreInv, CoreType, AcceptanceInv, At, Quiet
<1>0. TxShape(tx[w]) /\ (tx[w].charge => tx[w].pc \in {"withdraw", "reset", "decline", "commit"})
  BY DEF ChargeUnderLock
<1>1. CASE PlanWaves(w)
  BY <1>0, <1>1 DEF PlanWaves, TxShape, Steps
<1>2. CASE SendOffer(w)
  <2> DEFINE p == Head(tx[w].todo)
             t(st) == [tx[w] EXCEPT !.offers[p] = st,
                                    !.todo = Tail(@),
                                    !.pc = IF Len(tx[w].todo) = 1 THEN "commit" ELSE @]
  <2>1. PICK st \in {"sent", "failed"} : Goto(w, t(st))
    BY <1>2 DEF SendOffer
  <2>2. /\ TxShape(t(st)) /\ t(st).pc \in {"offer", "commit"}
        /\ t(st).job = tx[w].job /\ t(st).charge = tx[w].charge
        /\ t(st).request = tx[w].request
    BY <1>0, <1>2 DEF SendOffer, TxShape, Steps
  <2>3. tx[w].charge = FALSE /\ UNCHANGED dbVars /\ Acquire(w)
    BY <1>0, <1>2 DEF SendOffer, TxShape
  <2> QED
    BY <2>1, <2>2, <2>3
<1>3. CASE CollectUnanswered(w)
  BY <1>0, <1>3, AfterExpiryShape DEF CollectUnanswered, TxShape, Steps
<1>4. CASE ExpireOffer(w)
  BY <1>0, <1>4 DEF ExpireOffer, TxShape, Steps
<1>5. CASE CountUnanswered(w)
  BY <1>0, <1>5 DEF CountUnanswered, TxShape, Steps
<1>6. CASE BumpUnanswered(w)
  <2> DEFINE p == Head(tx[w].todo)
             n == tx[w].seen.unanswered + 1
             off == n >= AutoOffThreshold /\ tx[w].seen.available
             t == [tx[w] EXCEPT !.unanswered[p] = n,
                                !.available[p] = IF off THEN "off" ELSE @,
                                !.todo = Tail(@),
                                !.pc = "count"]
             u == IF t.todo = <<>> THEN AfterExpiry(t) ELSE t
  <2>1. Goto(w, u) /\ UNCHANGED dbVars /\ Acquire(w)
    BY <1>6 DEF BumpUnanswered
  <2>2. /\ TxShape(t) /\ t.pc = "count" /\ t.job = tx[w].job
        /\ t.charge = tx[w].charge /\ t.request = tx[w].request
    BY <1>0 DEF TxShape, Steps
  <2>3. tx[w].charge = FALSE
    BY <1>0, <1>6 DEF BumpUnanswered, TxShape
  <2> HIDE DEF t
  <2>4. /\ TxShape(u) /\ u.pc \in {"unfill", "offer", "count"} /\ u.job = t.job
        /\ u.charge = t.charge /\ u.request = t.request
    BY <2>2, AfterExpiryShape
  <2> HIDE DEF u
  <2> QED
    BY <2>1, <2>2, <2>3, <2>4
<1>7. CASE WithdrawOffer(w)
  BY <1>0, <1>7 DEF WithdrawOffer, TxShape, Steps
<1>8. CASE ResetUnanswered(w)
  BY <1>0, <1>8 DEF ResetUnanswered, AfterReset, TxShape, Steps
<1>9. CASE DeclineOffer(w)
  BY <1>0, <1>9 DEF DeclineOffer, TxShape, Steps
<1>10. CASE ReleaseToProvider(w)
  BY <1>0, <1>10 DEF ReleaseToProvider, TxShape, Steps
<1>11. CASE ReleaseToCustomer(w)
  BY <1>0, <1>11 DEF ReleaseToCustomer, TxShape, Steps
<1>12. CASE ToggleAvailable(w)
  BY <1>0, <1>12 DEF ToggleAvailable, TxShape, Steps
<1>13. CASE GrantFree(w)
  BY <1>0, <1>13 DEF GrantFree, TxShape, Steps
<1>14. CASE CountFree(w)
  BY <1>0, <1>14 DEF CountFree, TxShape, Steps
<1>15. CASE AdjustFree(w)
  BY <1>0, <1>15 DEF AdjustFree, TxShape, Steps
<1> QED
  BY <1>1, <1>2, <1>3, <1>4, <1>5, <1>6, <1>7, <1>8, <1>9, <1>10, <1>11, <1>12,
     <1>13, <1>14, <1>15

LEMMA UnfillStep ==
    ASSUME CoreInv, NEW w \in Workers, Unfill(w)
    PROVE  CoreInv'
<1> USE DEF CoreInv, AcceptanceInv, At, Req
<1>1. /\ locks \subseteq locks'
      /\ RequestLock(w, "write") \in locks'
      /\ \A l \in locks' : l.by \in Workers
      /\ LocksExclusive'
  BY AcquireSafe DEF Unfill, Needs, RequestLock
<1>2. /\ tx' = [v \in Workers |-> tx'[v]]
      /\ \A v \in Workers : v # w => tx'[v] = tx[v]
  BY DEF Unfill, Goto, CoreType
<1>3. TxShape(tx[w]) /\ tx[w].charge = FALSE
  BY DEF Unfill, CoreType, ChargeUnderLock, TxShape
<1>4. /\ TxShape(tx'[w]) /\ tx'[w].charge = FALSE /\ tx'[w].job = tx[w].job
      /\ tx'[w].request = "unfilled" /\ tx'[w].pc = "commit"
  BY <1>3 DEF Unfill, Goto, CoreType, TxShape, Steps, RequestStates
<1>5. UNCHANGED dbVars
  BY DEF Unfill
<1>6. CoreType'
  BY <1>1, <1>2, <1>4, <1>5 DEF CoreType, dbVars
<1>7. OneMatchOneDebit' /\ MatchedNotDispatching'
  BY <1>5 DEF dbVars, OneMatchOneDebit, MatchedNotDispatching
<1>8. ChargeUnderLock' /\ WriteUnderLock'
  <2>1. ChargeUnderLock'
    BY <1>1, <1>2, <1>4, <1>5 DEF dbVars, ChargeUnderLock, RequestLock
  <2>2. RequestLock(w, "write")' \in locks'
    BY <1>1, <1>4 DEF RequestLock
  <2>3. WriteUnderLock'
    BY <1>1, <1>2, <1>4, <2>2 DEF WriteUnderLock, RequestLock
  <2> QED
    BY <2>1, <2>3
<1> QED
  BY <1>1, <1>6, <1>7, <1>8

LEMMA LockOfferStep ==
    ASSUME CoreInv, NEW w \in Workers, LockOffer(w)
    PROVE  CoreInv'
<1> DEFINE t(pc) == [tx[w] EXCEPT !.pc = pc]
<1>1. TxShape(tx[w]) /\ tx[w].charge = FALSE /\ UNCHANGED dbVars
  BY DEF LockOffer, At, CoreInv, CoreType, AcceptanceInv, ChargeUnderLock, TxShape
<1>2. CASE RollBack(w)
  BY <1>1, <1>2, RollBackStep
<1>3. ASSUME NEW pc \in {"lockRequest", "commit"}, Acquire(w), Goto(w, t(pc))
      PROVE  CoreInv'
  <2>1. /\ TxShape(t(pc)) /\ t(pc).pc = pc /\ t(pc).charge = FALSE
        /\ t(pc).job = tx[w].job /\ t(pc).request = tx[w].request
    BY <1>1 DEF TxShape, Steps
  <2> HIDE DEF t
  <2> QED
    BY <1>1, <1>3, <2>1, QuietStep
<1> QED
  BY <1>2, <1>3 DEF LockOffer

\* The request's row is locked before its state is looked at.
LEMMA LockRequestStep ==
    ASSUME CoreInv, NEW w \in Workers, LockRequest(w)
    PROVE  CoreInv'
<1> USE DEF CoreInv, AcceptanceInv, At, Req
<1>1. /\ locks \subseteq locks'
      /\ RequestLock(w, "update") \in locks'
      /\ \A l \in locks' : l.by \in Workers
      /\ LocksExclusive'
  BY AcquireSafe DEF LockRequest, Needs, RequestLock
<1>2. /\ tx' = [v \in Workers |-> tx'[v]]
      /\ \A v \in Workers : v # w => tx'[v] = tx[v]
  BY DEF LockRequest, Goto, CoreType
<1>3. TxShape(tx[w]) /\ tx[w].charge = FALSE
  BY DEF LockRequest, CoreType, ChargeUnderLock, TxShape
<1>4. /\ TxShape(tx'[w]) /\ tx'[w].charge = FALSE /\ tx'[w].job = tx[w].job
      /\ tx'[w].request = tx[w].request
      /\ tx'[w].pc = "charge" => request[Req(w)] = "dispatching"
  BY <1>3 DEF LockRequest, Goto, CoreType, TxShape, Steps, Acceptable
<1>5. UNCHANGED dbVars
  BY DEF LockRequest
<1>6. CoreType'
  BY <1>1, <1>2, <1>4, <1>5 DEF CoreType, dbVars
<1>7. OneMatchOneDebit' /\ MatchedNotDispatching'
  BY <1>5 DEF dbVars, OneMatchOneDebit, MatchedNotDispatching
<1>8. ChargeUnderLock' /\ WriteUnderLock'
  BY <1>1, <1>2, <1>4, <1>5 DEF dbVars, ChargeUnderLock, WriteUnderLock, RequestLock
<1> QED
  BY <1>1, <1>6, <1>7, <1>8

\* The lock that LockRequest took is the one that guards the charge.
LEMMA ChargeStep ==
    ASSUME CoreInv, NEW w \in Workers, Charge(w)
    PROVE  CoreInv'
<1> USE DEF CoreInv, AcceptanceInv, At, Req
<1>1. /\ TxShape(tx[w]) /\ tx[w].charge = FALSE /\ tx[w].pc = "charge"
      /\ UNCHANGED dbVars /\ UNCHANGED locks
  BY DEF Charge, CoreType, ChargeUnderLock, TxShape
<1>2. CASE ~ CanPay(Prov(w))
  <2> DEFINE t == [tx[w] EXCEPT !.pc = "commit"]
  <2>1. /\ TxShape(t) /\ t.pc = "commit" /\ t.charge = FALSE
        /\ t.job = tx[w].job /\ t.request = tx[w].request
    BY <1>1 DEF TxShape, Steps
  <2>2. Goto(w, t)
    BY <1>2 DEF Charge
  <2> HIDE DEF t
  <2> QED
    BY <1>1, <2>1, <2>2, QuietStep
<1>3. CASE CanPay(Prov(w))
  <2> DEFINE r == Req(w)
             p == Prov(w)
             others == {q \in Providers \ {p} : offer[r][q].st = "sent"}
             out == {NoticeJob("release", r, p), NoticeJob("notify", r, NoProvider)}
                    \cup (IF balance[p] - 1 <= LowBalance
                          THEN {NoticeJob("warn", r, p)} ELSE {})
             pc == IF others = {} THEN "reset" ELSE "withdraw"
             t(todo) == [tx[w] EXCEPT !.charge = TRUE, !.offers[p] = "accepted",
                                      !.request = AcceptedRequest(r),
                                      !.todo = todo, !.out = out, !.pc = pc]
  <2>0. pc \in {"reset", "withdraw"}
    OBVIOUS
  <2>1. PICK todo : Goto(w, t(todo))
    BY <1>3 DEF Charge
  <2> HIDE DEF r, p, out, pc
  <2>2. /\ tx' = [v \in Workers |-> tx'[v]]
        /\ \A v \in Workers : v # w => tx'[v] = tx[v]
    BY <2>1 DEF Goto, CoreType
  <2>3. /\ TxShape(tx'[w]) /\ tx'[w].charge = TRUE /\ tx'[w].job = tx[w].job
        /\ tx'[w].request = "assigned" /\ tx'[w].pc \in {"reset", "withdraw"}
    BY <1>1, <2>0, <2>1 DEF Goto, CoreType, TxShape, Steps, RequestStates, AcceptedRequest
  <2>4. CoreType'
    BY <1>1, <2>2, <2>3 DEF CoreType, dbVars
  <2>5. OneMatchOneDebit' /\ MatchedNotDispatching' /\ LocksExclusive'
    BY <1>1 DEF dbVars, OneMatchOneDebit, MatchedNotDispatching, LocksExclusive
  <2>6. ChargeUnderLock' /\ WriteUnderLock'
    BY <1>1, <2>2, <2>3 DEF dbVars, ChargeUnderLock, WriteUnderLock, RequestLock
  <2> QED
    BY <2>4, <2>5, <2>6
<1> QED
  BY <1>2, <1>3

LEMMA Increment ==
    ASSUME NEW S, NEW f \in [S -> Nat], NEW p, NEW x \in S
    PROVE  [f EXCEPT ![p] = f[p] + 1][x] = IF x = p THEN f[x] + 1 ELSE f[x]
OBVIOUS

\* A transaction that charges commits while it holds the request's row: the
\* request was in dispatch, so nobody was matched to it, and nobody else can
\* be about to charge for it.
LEMMA EffectStep ==
    ASSUME CoreInv, NEW w \in Workers, TakeEffect(w)
    PROVE  CoreInv'
<1> USE DEF CoreInv, AcceptanceInv, At, Req, Prov
<1> DEFINE t == tx[w]
           r == Req(w)
           p == Prov(w)
<1>1. /\ \A l \in locks : l.by # w => l \in locks'
      /\ \A l \in locks' : l.by \in Workers
      /\ LocksExclusive'
  BY UnlockSafe DEF TakeEffect
<1>2. /\ tx' = [v \in Workers |-> tx'[v]] /\ tx'[w] = Idle
      /\ \A v \in Workers : v # w => tx'[v] = tx[v]
  BY DEF TakeEffect, Goto, CoreType
<1>3. request' = [q \in Requests |->
                    IF q = r THEN Merge(request[q], t.request) ELSE request[q]]
  BY DEF TakeEffect
<1>4. /\ t.charge => /\ assigned' = assigned \cup {<<r, p>>}
                     /\ debits' = [debits EXCEPT ![r][p] = @ + 1]
      /\ ~ t.charge => assigned' = assigned /\ debits' = debits
  BY DEF TakeEffect
<1>5. TxShape(t) /\ t.pc = "commit"
  BY DEF TakeEffect, CoreType
<1>6. CoreType'
  <2>1. request' \in [Requests -> RequestStates]
    BY <1>3, <1>5 DEF CoreType, TxShape, Merge
  <2>2. debits' \in [Requests -> [Providers -> Nat]]
    <3>1. t.charge \in BOOLEAN
      BY <1>5 DEF TxShape
    <3>2. CASE ~ t.charge
      BY <1>4, <3>2 DEF CoreType
    <3>3. CASE t.charge
      BY <1>4, <3>3 DEF CoreType
    <3> QED
      BY <3>1, <3>2, <3>3
  <2>3. \A v \in Workers : TxShape(tx'[v])
    BY <1>2, IdleShape DEF CoreType
  <2> QED
    BY <1>1, <1>2, <2>1, <2>2, <2>3 DEF CoreType
<1>7. /\ t.charge => /\ t.request = "assigned"
                     /\ r \in Requests => request[r] = "dispatching"
      /\ t.request \in {Keep, "assigned", "unfilled"}
  BY <1>5 DEF ChargeUnderLock, WriteUnderLock
<1>8. MatchedNotDispatching'
  <2> SUFFICES ASSUME NEW q \in Requests, NEW x \in Providers, <<q, x>> \in assigned'
               PROVE  request'[q] # "dispatching"
    BY DEF MatchedNotDispatching
  <2>1. CASE <<q, x>> \in assigned
    BY <1>3, <1>7, <2>1 DEF MatchedNotDispatching, Merge
  <2>2. CASE <<q, x>> \notin assigned
    BY <1>3, <1>4, <1>5, <1>7, <2>2 DEF Merge, TxShape
  <2> QED
    BY <2>1, <2>2
<1>9. OneMatchOneDebit'
  <2>1. CASE ~ t.charge
    BY <1>4, <2>1 DEF OneMatchOneDebit
  <2>2. CASE t.charge
    <3> SUFFICES ASSUME NEW q \in Requests, NEW x \in Providers
                 PROVE  /\ debits'[q][x] = IF <<q, x>> \in assigned' THEN 1 ELSE 0
                        /\ <<q, x>> \in assigned' =>
                             \A y \in Providers : <<q, y>> \in assigned' => y = x
      BY DEF OneMatchOneDebit
    <3>1. CASE q # r
      BY <1>4, <2>2, <3>1 DEF OneMatchOneDebit, CoreType
    <3>2. CASE q = r
      <4>1. \A y \in Providers : <<r, y>> \notin assigned /\ debits[r][y] = 0
        BY <1>7, <2>2, <3>2 DEF MatchedNotDispatching, OneMatchOneDebit
      <4>2. \A y \in Providers : <<r, y>> \in assigned' <=> y = p
        BY <1>4, <2>2, <4>1
      <4>3. debits' = [debits EXCEPT ![r] = [debits[r] EXCEPT ![p] = debits[r][p] + 1]]
        BY <1>4, <2>2
      <4>4. debits'[r] = [debits[r] EXCEPT ![p] = debits[r][p] + 1]
        BY <3>2, <4>3 DEF CoreType
      <4>5. debits[r] \in [Providers -> Nat]
        BY <3>2 DEF CoreType
      <4>6. debits'[r][x] = IF x = p THEN debits[r][x] + 1 ELSE debits[r][x]
        BY <4>4, <4>5, Increment, Zenon
      <4>7. debits[r][x] = 0
        BY <4>1, Zenon
      <4>8. debits'[r][x] = IF x = p THEN 1 ELSE 0
        BY <4>6, <4>7
      <4> QED
        BY <3>2, <4>2, <4>8
    <3> QED
      BY <3>1, <3>2
  <2> QED
    BY <1>5, <2>1, <2>2 DEF TxShape
<1>10. ASSUME NEW v \in Workers, v # w, Req(v) \in Requests,
              At(v, "charge") \/ tx[v].charge
       PROVE  request'[Req(v)] = "dispatching"
  <2>1. RequestLock(v, "update") \in locks /\ request[Req(v)] = "dispatching"
    BY <1>10 DEF ChargeUnderLock
  <2>2. CASE Req(v) # r
    BY <1>3, <1>10, <2>1, <2>2
  <2>3. CASE Req(v) = r
    <3>1. RequestLock(w, "update") \notin locks /\ RequestLock(w, "write") \notin locks
      BY <1>10, <2>1, <2>3 DEF LocksExclusive, RequestLock, Compatible
    <3>2. t.request = Keep
      BY <3>1 DEF WriteUnderLock
    <3> QED
      BY <1>3, <1>10, <2>1, <2>3, <3>2 DEF Merge
  <2> QED
    BY <2>2, <2>3
<1>11. ChargeUnderLock'
  <2> SUFFICES ASSUME NEW v \in Workers
               PROVE  /\ (At(v, "charge") \/ tx[v].charge)' =>
                            /\ RequestLock(v, "update")' \in locks'
                            /\ Req(v)' \in Requests => request'[Req(v)'] = "dispatching"
                      /\ tx'[v].charge =>
                            /\ tx'[v].request = "assigned"
                            /\ tx'[v].pc \in {"withdraw", "reset", "decline", "commit"}
    BY DEF ChargeUnderLock
  <2>1. CASE v = w
    BY <1>2, <2>1, IdleShape
  <2>2. CASE v # w
    BY <1>1, <1>2, <1>10, <2>2 DEF ChargeUnderLock, RequestLock
  <2> QED
    BY <2>1, <2>2
<1>12. WriteUnderLock'
  BY <1>1, <1>2, IdleShape DEF WriteUnderLock, RequestLock
<1> QED
  BY <1>1, <1>6, <1>8, <1>9, <1>11, <1>12

-----------------------------------------------------------------------------
(* The invariant                                                           *)

LEMMA CoreInit == ASSUME Init PROVE CoreInv
<1>1. CoreType
  BY IdleShape DEF Init, CoreType, RequestStates
<1>2. OneMatchOneDebit /\ MatchedNotDispatching /\ LocksExclusive
  BY DEF Init, OneMatchOneDebit, MatchedNotDispatching, LocksExclusive
<1>3. ChargeUnderLock /\ WriteUnderLock
  BY IdleShape DEF Init, ChargeUnderLock, WriteUnderLock, At
<1> QED
  BY <1>1, <1>2, <1>3 DEF CoreInv, AcceptanceInv

\* What the providers do, and a step that changes nothing.
LEMMA OutsideStep ==
    ASSUME CoreInv, UNCHANGED <<dbVars, tx, locks>>
    PROVE  CoreInv'
BY DEF CoreInv, CoreType, AcceptanceInv, dbVars, OneMatchOneDebit,
       MatchedNotDispatching, LocksExclusive, ChargeUnderLock, WriteUnderLock,
       RequestLock, At, Req, TxShape

LEMMA CoreStep == ASSUME CoreInv, [Next]_vars PROVE CoreInv'
<1>1. ASSUME NEW w \in Workers, Step(w) PROVE CoreInv'
  <2>1. CASE \E j \in jobs : Claim(w, j)
    BY <2>1, ClaimStep
  <2>2. CASE Commit(w)
    BY <2>2, EffectStep DEF Commit
  <2>3. CASE BreakDeadlock(w) \/ RefuseOffer(w)
    BY <2>3, RollBackStep DEF BreakDeadlock, RefuseOffer
  <2>4. CASE Unfill(w)
    BY <2>4, UnfillStep
  <2>5. CASE LockOffer(w)
    BY <2>5, LockOfferStep
  <2>6. CASE LockRequest(w)
    BY <2>6, LockRequestStep
  <2>7. CASE Charge(w)
    BY <2>7, ChargeStep
  <2> QED
    BY <1>1, <2>1, <2>2, <2>3, <2>4, <2>5, <2>6, <2>7, QuietActions, QuietSteps DEF Step
<1>2. ASSUME NEW w \in Workers, Fault(w) \/ LoseAck(w) PROVE CoreInv'
  BY <1>2, RollBackStep, EffectStep DEF Fault, LoseAck
<1>3. ASSUME NEW w \in Workers, Crash(w) PROVE CoreInv'
  BY <1>3, FreshStep, IdleShape DEF Crash
<1>4. ASSUME NEW b, NEW kind, Tap(b, kind) PROVE CoreInv'
  BY <1>4, OutsideStep DEF Tap, Arrive
<1>5. ASSUME NEW p, NEW kind, Command(p, kind) PROVE CoreInv'
  BY <1>5, OutsideStep DEF Command, Arrive
<1>6. CASE UNCHANGED vars
  BY <1>6, OutsideStep DEF vars
<1> QED
  BY <1>1, <1>2, <1>3, <1>4, <1>5, <1>6 DEF Next

LEMMA CoreInvariant == Spec => []CoreInv
BY CoreInit, CoreStep, PTL DEF Spec

\* Whatever the number of workers, the order of their steps and the faults,
\* accept_offer never assigns a request to two providers and never debits
\* anybody twice or without a match.
THEOREM OneMatchOneDebitHolds == Spec => []OneMatchOneDebit
<1>1. CoreInv => OneMatchOneDebit
  BY DEF CoreInv, AcceptanceInv
<1> QED
  BY <1>1, CoreInvariant, PTL

\* The reason: charging happens only under the request's row lock, on a
\* request that is still in dispatch.
THEOREM AcceptanceUnderLock == Spec => []AcceptanceInv
<1>1. CoreInv => AcceptanceInv
  BY DEF CoreInv
<1> QED
  BY <1>1, CoreInvariant, PTL

-----------------------------------------------------------------------------
(* Contact details                                                         *)

\* release_contacts goes on only when it found its assignment.
ReleaseInv ==
    /\ \A w \in Workers :
           At(w, "provider") \/ At(w, "customer") => <<Req(w), Prov(w)>> \in assigned
    /\ ContactsOnlyToMatched

LEMMA ContactsInit == ASSUME Init PROVE ReleaseInv
BY IdleShape DEF Init, ReleaseInv, ContactsOnlyToMatched, At

\* An assignment is never undone, and a step leaves every worker but one alone.
LEMMA OneWorkerSteps ==
    ASSUME CoreInv, NEW w \in Workers, Step(w) \/ Fault(w) \/ LoseAck(w) \/ Crash(w)
    PROVE  /\ assigned \subseteq assigned'
           /\ \A v \in Workers \ {w} : tx'[v] = tx[v]
<1>1. assigned \subseteq assigned'
  <2>1. CASE Commit(w) \/ LoseAck(w)
    BY <2>1 DEF Commit, LoseAck, TakeEffect
  <2>2. CASE \E j \in jobs : Claim(w, j)
    BY <2>2 DEF Claim, dbVars
  <2>3. CASE BreakDeadlock(w) \/ RefuseOffer(w) \/ Unfill(w) \/ LockOffer(w) \/ LockRequest(w) \/ Charge(w)
    BY <2>3 DEF BreakDeadlock, RefuseOffer, Unfill, LockOffer, LockRequest, Charge, dbVars
  <2>4. CASE \E t : Quiet(w, t)
    BY <2>4 DEF Quiet, dbVars
  <2>5. CASE Fault(w) \/ Crash(w)
    BY <2>5 DEF Fault, Crash, dbVars
  <2> QED
    BY <2>1, <2>2, <2>3, <2>4, <2>5, QuietActions DEF Step
<1>2. \E t : Goto(w, t)
  <2>1. CASE \E j \in jobs : Claim(w, j)
    BY <2>1 DEF Claim
  <2>2. CASE Commit(w) \/ LoseAck(w)
    BY <2>2, Zenon DEF Commit, LoseAck, TakeEffect
  <2>3. CASE BreakDeadlock(w) \/ RefuseOffer(w) \/ Fault(w)
    BY <2>3 DEF BreakDeadlock, RefuseOffer, Fault, RollBack
  <2>4. CASE LockOffer(w) \/ LockRequest(w) \/ Unfill(w)
    BY <2>4 DEF LockOffer, LockRequest, Unfill, RollBack
  <2>5. CASE Charge(w)
    BY <2>5 DEF Charge
  <2>6. CASE \E t : Quiet(w, t)
    BY <2>6 DEF Quiet
  <2>7. CASE Crash(w)
    BY <2>7 DEF Crash
  <2> QED
    BY <2>1, <2>2, <2>3, <2>4, <2>5, <2>6, <2>7, QuietActions DEF Step
<1> QED
  BY <1>1, <1>2 DEF Goto, CoreInv, CoreType

\* Only a claim that found the assignment leads to release_contacts' sends.
LEMMA ReleaseEntered ==
    ASSUME CoreInv, ReleaseInv, NEW w \in Workers,
           Step(w) \/ Fault(w) \/ LoseAck(w) \/ Crash(w),
           tx'[w].pc \in {"provider", "customer"}
    PROVE  <<tx'[w].job.req, tx'[w].job.prov>> \in assigned
<1> USE DEF CoreInv, CoreType, At
<1>1. CASE \E j \in jobs : Claim(w, j)
  <2>1. PICK j \in jobs : Claim(w, j)
    BY <1>1
  <2> DEFINE mine == [j EXCEPT !.att = @ + 1]
             t == [Idle EXCEPT !.pc = FirstStep(mine), !.job = mine,
                               !.seen = Seen(mine.prov)]
  <2>2. tx'[w] = t
    BY <2>1, Zenon DEF Claim, Goto
  <2>3. t.pc = FirstStep(t.job)
    <3> HIDE DEF mine
    <3> QED
      BY DEF Idle
  <2>4. tx'[w].pc = FirstStep(tx'[w].job)
    BY <2>2, <2>3, Zenon
  <2>5. ASSUME NEW k, FirstStep(k) \in {"provider", "customer"}
        PROVE  <<k.req, k.prov>> \in assigned
    BY <2>5 DEF FirstStep
  <2> QED
    BY <2>4, <2>5
<1>2. ASSUME Goto(w, Idle) PROVE FALSE
  BY <1>2, IdleShape DEF Goto
<1>3. CASE Commit(w) \/ LoseAck(w)
  BY <1>2, <1>3, Zenon DEF Commit, LoseAck, TakeEffect
<1>4. CASE BreakDeadlock(w) \/ RefuseOffer(w) \/ Fault(w) \/ Crash(w)
  BY <1>2, <1>4 DEF BreakDeadlock, RefuseOffer, Fault, Crash, RollBack
<1>5. CASE Unfill(w)
  BY <1>5 DEF Unfill, Goto, TxShape
<1>6. CASE LockOffer(w)
  BY <1>2, <1>6 DEF LockOffer, RollBack, Goto, TxShape
<1>7. CASE LockRequest(w)
  BY <1>7 DEF LockRequest, Goto, TxShape
<1>8. CASE Charge(w)
  <2>1. CASE ~ CanPay(Prov(w))
    BY <1>8, <2>1 DEF Charge, Goto, TxShape
  <2>2. CASE CanPay(Prov(w))
    <3>1. \E request_, offers_, todo, out :
            \E pc \in {"reset", "withdraw"} :
              Goto(w, [tx[w] EXCEPT !.charge = TRUE, !.offers = offers_,
                                    !.request = request_, !.todo = todo,
                                    !.out = out, !.pc = pc])
      BY <1>8, <2>2 DEF Charge
    <3> QED
      BY <3>1 DEF Goto, TxShape
  <2> QED
    BY <2>1, <2>2
<1>9. CASE \E t : Quiet(w, t)
  BY <1>9 DEF Quiet, Goto, ReleaseInv, Req, Prov
<1> QED
  BY <1>1, <1>3, <1>4, <1>5, <1>6, <1>7, <1>8, <1>9, QuietActions DEF Step

\* A contact is sent by release_contacts only, for its own job.
LEMMA ContactSent ==
    ASSUME CoreInv, NEW w \in Workers, Step(w) \/ Fault(w) \/ LoseAck(w) \/ Crash(w),
           NEW c \in contacts', c \notin contacts
    PROVE  /\ At(w, "provider") \/ At(w, "customer")
           /\ c[1] = Req(w) /\ c[2] = Prov(w)
<1>1. CASE ReleaseToProvider(w)
  BY <1>1 DEF ReleaseToProvider, Delivered
<1>2. CASE ReleaseToCustomer(w)
  BY <1>2 DEF ReleaseToCustomer, Delivered
<1>3. ASSUME UNCHANGED worldVars \/ UNCHANGED contacts PROVE FALSE
  BY <1>3 DEF worldVars
<1>4. CASE Commit(w) \/ Fault(w) \/ LoseAck(w) \/ Crash(w)
  <2>1. Commit(w) \/ LoseAck(w) => UNCHANGED worldVars
    BY Zenon DEF Commit, LoseAck
  <2> QED
    BY <1>3, <1>4, <2>1 DEF Fault, Crash
<1>5. CASE \E j \in jobs : Claim(w, j)
  BY <1>3, <1>5, Zenon DEF Claim
<1>6. CASE \/ BreakDeadlock(w) \/ RefuseOffer(w) \/ LockOffer(w) \/ LockRequest(w) \/ Charge(w)
           \/ Unfill(w) \/ WithdrawOffer(w) \/ ResetUnanswered(w) \/ DeclineOffer(w)
  BY <1>3, <1>6 DEF BreakDeadlock, RefuseOffer, LockOffer, LockRequest, Charge, Unfill,
                    WithdrawOffer, ResetUnanswered, DeclineOffer
<1>7. CASE \/ PlanWaves(w) \/ SendOffer(w) \/ CollectUnanswered(w) \/ ExpireOffer(w)
           \/ CountUnanswered(w) \/ BumpUnanswered(w) \/ ToggleAvailable(w)
           \/ GrantFree(w) \/ CountFree(w) \/ AdjustFree(w)
  BY <1>3, <1>7 DEF PlanWaves, SendOffer, CollectUnanswered, ExpireOffer,
                    CountUnanswered, BumpUnanswered, ToggleAvailable,
                    GrantFree, CountFree, AdjustFree
<1> QED
  BY <1>1, <1>2, <1>4, <1>5, <1>6, <1>7 DEF Step

LEMMA ReleaseStep ==
    ASSUME CoreInv, ReleaseInv, [Next]_vars
    PROVE  ReleaseInv'
<1>1. ASSUME NEW w \in Workers, Step(w) \/ Fault(w) \/ LoseAck(w) \/ Crash(w)
      PROVE  ReleaseInv'
  <2>1. /\ assigned \subseteq assigned'
        /\ \A v \in Workers \ {w} : tx'[v] = tx[v]
    BY <1>1, OneWorkerSteps
  <2>2. ASSUME NEW v \in Workers, tx'[v].pc \in {"provider", "customer"}
        PROVE  <<tx'[v].job.req, tx'[v].job.prov>> \in assigned'
    BY <1>1, <2>1, <2>2, ReleaseEntered DEF ReleaseInv, At, Req, Prov
  <2>3. ContactsOnlyToMatched'
    BY <1>1, <2>1, ContactSent DEF ReleaseInv, ContactsOnlyToMatched
  <2> QED
    BY <2>2, <2>3 DEF ReleaseInv, At, Req, Prov
<1>2. CASE UNCHANGED <<assigned, contacts, tx>>
  BY <1>2 DEF ReleaseInv, ContactsOnlyToMatched, At, Req, Prov
<1> QED
  BY <1>1, <1>2 DEF Next, Tap, Command, Arrive, vars, dbVars, worldVars

\* Contact details never reach anybody but the two parties of a committed,
\* and so debited, assignment, whatever raises, dies or is retried.
THEOREM ContactsHold == Spec => []ContactsOnlyToMatched
<1>1. CoreInv /\ ReleaseInv /\ [Next]_vars => ReleaseInv'
  BY ReleaseStep
<1>2. Init => ReleaseInv
  BY ContactsInit
<1>3. ReleaseInv => ContactsOnlyToMatched
  BY DEF ReleaseInv
<1> QED
  BY <1>1, <1>2, <1>3, CoreInvariant, PTL DEF Spec

-----------------------------------------------------------------------------
(* A request in dispatch has one driver: one job that is pending, being    *)
(* run, dead or claimed by a worker that died, and more only once a COMMIT *)
(* of a driver has gone unanswered. A driver is replaced by the *)
(* job that follows it in the COMMIT that ends it (Following), and nothing *)
(* else inserts or takes one. Not to drop the chain, a driver that commits *)
(* without a follower must have found the request ended, or end it; that   *)
(* an ended one is not reopened by another worker's COMMIT is what the     *)
(* locks above are for.                                                    *)

Drivers == {"dispatch", "advance"}

\* The steps of the two handlers that drive a request.
Planning == {"plan", "offer", "unfill", "collect", "expire", "count", "bump"}

JobShape(j) ==
    j \in [kind : {j.kind}, req : {j.req}, prov : {j.prov}, id : {j.id},
           wave : {j.wave}, rest : {j.rest}, n : {j.n}, att : {j.att}]

Queue == jobs \cup dead \cup lost

Following(t, reqs) ==
    /\ t.pc \in Planning => t.job.kind \in Drivers
    /\ t.job.kind \in Drivers => t.pc \in Planning \cup {"commit"}
    /\ JobShape(t.job)
    /\ \A j \in t.out : JobShape(j) /\ (j.kind \in Drivers => Drives(t.job, j.req))
    /\ \A j, k \in t.out : {j.kind, k.kind} \subseteq Drivers => j = k
    /\ t.pc = "offer" => \E j \in t.out : Drives(j, t.job.req)
    /\ /\ t.pc = "commit" /\ t.job.kind \in Drivers /\ t.job.req \in Requests
       /\ t.request = Keep /\ reqs[t.job.req] = "dispatching"
       => \E j \in t.out : Drives(j, t.job.req)

AtMostOne(r) ==
    /\ \A j, k \in Queue : Drives(j, r) /\ Drives(k, r) => j = k
    /\ \A w, v \in Workers : Drives(tx[w].job, r) /\ Drives(tx[v].job, r) => w = v
    /\ \A w \in Workers, j \in Queue : ~ (Drives(tx[w].job, r) /\ Drives(j, r))
    /\ \A j \in jobs : Drives(j, r) => j \notin dead \cup lost

AtLeastOne(r) ==
    \/ \E j \in Queue : Drives(j, r)
    \/ \E w \in Workers : Drives(tx[w].job, r)

DriverInv ==
    /\ \A j \in Queue : JobShape(j)
    /\ \A w \in Workers : Following(tx[w], request)
    /\ \A r \in Requests :
          /\ r \notin doubtful => AtMostOne(r)
          /\ request[r] = "dispatching" => AtLeastOne(r)

-----------------------------------------------------------------------------
(* Jobs                                                                    *)

LEMMA JobIs ==
    ASSUME NEW kind, NEW r, NEW p, NEW id, NEW wave, NEW rest, NEW n
    PROVE  LET j == Job(kind, r, p, id, wave, rest, n)
           IN  JobShape(j) /\ j.kind = kind /\ j.req = r
BY DEF Job, JobShape

LEMMA NewJobs ==
    ASSUME NEW r, NEW p, NEW n, NEW wave, NEW rest, NEW kind
    PROVE  /\ JobShape(DispatchJob(r)) /\ DispatchJob(r).kind = "dispatch" /\ DispatchJob(r).req = r
           /\ JobShape(AdvanceJob(r, wave, rest, n))
           /\ AdvanceJob(r, wave, rest, n).kind = "advance"
           /\ AdvanceJob(r, wave, rest, n).req = r
           /\ JobShape(NoticeJob(kind, r, p)) /\ NoticeJob(kind, r, p).kind = kind
           /\ JobShape(CommandJob(kind, p, n)) /\ CommandJob(kind, p, n).kind = kind
BY JobIs DEF DispatchJob, AdvanceJob, NoticeJob, CommandJob

LEMMA IdleFollows ==
    /\ \A reqs : Following(Idle, reqs)
    /\ \A r : ~ Drives(Idle.job, r)
    /\ Idle.out = {} /\ Idle.request = Keep
<1>1. JobShape(Idle.job) /\ Idle.job.kind = "none"
  BY JobIs DEF Idle
<1>2. Idle.pc = "idle" /\ Idle.out = {} /\ Idle.request = Keep
  BY DEF Idle
<1> QED
  BY <1>1, <1>2 DEF Following, Drivers, Planning, Drives

LEMMA DriverInit == ASSUME Init PROVE DriverInv
<1>1. \A j \in Queue : \E r \in Requests : j = DispatchJob(r)
  BY DEF Init, Queue
<1>2. \A r \in Requests : DispatchJob(r) \in jobs
  BY DEF Init
<1>3. \A w \in Workers : tx[w] = Idle
  BY DEF Init
<1>4. dead = {} /\ lost = {}
  BY DEF Init
<1>5. ASSUME NEW r \in Requests PROVE AtMostOne(r) /\ AtLeastOne(r)
  <2>1. \A j \in Queue : Drives(j, r) => j = DispatchJob(r)
    BY <1>1, NewJobs DEF Drives
  <2>2. Drives(DispatchJob(r), r)
    BY NewJobs DEF Drives
  <2> QED
    BY <1>2, <1>3, <1>4, <2>1, <2>2, IdleFollows DEF AtMostOne, AtLeastOne, Queue
<1> QED
  BY <1>1, <1>3, <1>5, NewJobs, IdleFollows DEF DriverInv

-----------------------------------------------------------------------------
(* What a step does to the chain                                           *)

\* No step leads back to dispatching.
NotReopened == \A r \in Requests : request'[r] = "dispatching" => request[r] = "dispatching"

LEMMA StillFollowing ==
    ASSUME NEW t, Following(t, request), NotReopened
    PROVE  Following(t, request')
BY DEF Following, NotReopened

\* A step inside a handler: it goes on to t, with the same job.
LEMMA InnerStep ==
    ASSUME CoreInv, DriverInv, NEW w \in Workers, NEW t, Goto(w, t),
           t.job = tx[w].job, Following(t, request),
           UNCHANGED <<request, queueVars, doubtful>>
    PROVE  DriverInv'
<1>1. tx'[w] = t /\ \A v \in Workers \ {w} : tx'[v] = tx[v]
  BY DEF Goto, CoreInv, CoreType
<1>2. \A v \in Workers : tx'[v].job = tx[v].job
  BY <1>1
<1>3. \A v \in Workers : Following(tx'[v], request')
  BY <1>1, StillFollowing DEF DriverInv, NotReopened
<1>4. Queue' = Queue /\ jobs' = jobs /\ dead' = dead /\ lost' = lost
  BY DEF queueVars, Queue
<1>5. \A r \in Requests : /\ r \notin doubtful' => AtMostOne(r)'
                          /\ request'[r] = "dispatching" => AtLeastOne(r)'
  BY <1>2, <1>4 DEF DriverInv, AtMostOne, AtLeastOne, Drives
<1> QED
  BY <1>3, <1>4, <1>5 DEF DriverInv

\* A worker puts its job down, for good or to be claimed again.
LEMMA PutDown ==
    ASSUME CoreInv, DriverInv, NEW w \in Workers, Goto(w, Idle),
           UNCHANGED <<request, doubtful>>,
           \/ jobs' = jobs \cup {tx[w].job} /\ UNCHANGED <<dead, lost>>
           \/ dead' = dead \cup {tx[w].job} /\ UNCHANGED <<jobs, lost>>
           \/ lost' = lost \cup {tx[w].job} /\ UNCHANGED <<jobs, dead>>
    PROVE  DriverInv'
<1>1. tx'[w] = Idle /\ \A v \in Workers \ {w} : tx'[v] = tx[v]
  BY DEF Goto, CoreInv, CoreType
<1>2. \A v \in Workers : Following(tx'[v], request')
  BY <1>1, StillFollowing, IdleFollows DEF DriverInv, NotReopened
<1>3. Queue' = Queue \cup {tx[w].job}
  BY DEF Queue
<1>4. ASSUME NEW r \in Requests
      PROVE  (r \notin doubtful => AtMostOne(r)') /\ (AtLeastOne(r) => AtLeastOne(r)')
  <2>1. \A v \in Workers : Drives(tx'[v].job, r) <=> Drives(tx[v].job, r) /\ v # w
    BY <1>1, IdleFollows DEF Drives
  <2>3. r \notin doubtful => AtMostOne(r)
    BY DEF DriverInv
  <2>4. \A j \in Queue' : Drives(j, r) => (j \in Queue \/ j = tx[w].job)
    BY <1>3
  <2>5. r \notin doubtful => AtMostOne(r)'
    BY <1>1, <1>3, <2>1, <2>3 DEF AtMostOne, Queue
  <2>6. AtLeastOne(r) => AtLeastOne(r)'
    BY <1>3, <2>1 DEF AtLeastOne
  <2> QED
    BY <2>5, <2>6
<1>5. JobShape(tx[w].job)
  BY DEF DriverInv, Following
<1> QED
  BY <1>2, <1>3, <1>4, <1>5 DEF DriverInv

LEMMA RollBackDriver ==
    ASSUME CoreInv, DriverInv, NEW w \in Workers, RollBack(w),
           UNCHANGED <<request, lost, doubtful>>
    PROVE  DriverInv'
BY PutDown DEF RollBack

LEMMA ClaimDriver ==
    ASSUME CoreInv, DriverInv, NEW w \in Workers, NEW j \in jobs, Claim(w, j)
    PROVE  DriverInv'
<1> DEFINE mine == [j EXCEPT !.att = @ + 1]
           t == [Idle EXCEPT !.pc = FirstStep(mine), !.job = mine,
                             !.seen = Seen(mine.prov)]
<1>1. JobShape(mine) /\ mine.kind = j.kind /\ mine.req = j.req
  BY DEF DriverInv, Queue, JobShape
<1> HIDE DEF mine
<1>2. t.pc = FirstStep(mine) /\ t.job = mine /\ t.out = {} /\ t.request = Keep
  BY DEF Idle
<1> HIDE DEF t
<1>3. /\ Goto(w, t) /\ jobs' = jobs \ {j} /\ tx[w].pc = "idle"
      /\ UNCHANGED <<request, dead, lost, doubtful>>
  BY DEF Claim, dbVars, history, At, t, mine
<1>4. tx'[w] = t /\ \A v \in Workers \ {w} : tx'[v] = tx[v]
  BY <1>3 DEF Goto, CoreInv, CoreType
<1>5. Following(t, request)
  BY <1>1, <1>2 DEF Following, FirstStep, StillDispatching, Drivers, Planning, Drives
<1>6. \A v \in Workers : Following(tx'[v], request')
  BY <1>3, <1>4, <1>5, StillFollowing DEF DriverInv, NotReopened
<1>7. \A r : ~ Drives(tx[w].job, r)
  BY <1>3 DEF DriverInv, Following, Planning, Drives, Drivers
<1>8. \A r : Drives(mine, r) <=> Drives(j, r)
  BY <1>1 DEF Drives
<1>9. Queue' \subseteq Queue /\ Queue \subseteq Queue' \cup {j} /\ j \in Queue
  BY <1>3 DEF Queue
<1>10. ASSUME NEW r \in Requests
       PROVE  (r \notin doubtful => AtMostOne(r)') /\ (AtLeastOne(r) => AtLeastOne(r)')
  <2> DEFINE sure == r \notin doubtful
  <2>1. sure => AtMostOne(r)
    BY DEF DriverInv
  <2>3. sure /\ Drives(j, r) => \A k \in Queue' : ~ Drives(k, r)
    BY <1>3, <1>9, <2>1 DEF AtMostOne, Queue
  <2>4. sure /\ Drives(j, r) => \A v \in Workers : ~ Drives(tx[v].job, r)
    BY <1>9, <2>1 DEF AtMostOne
  <2>5. sure => AtMostOne(r)'
    BY <1>2, <1>3, <1>4, <1>7, <1>8, <1>9, <2>1, <2>3, <2>4 DEF AtMostOne
  <2>6. AtLeastOne(r) => AtLeastOne(r)'
    BY <1>2, <1>4, <1>7, <1>8, <1>9 DEF AtLeastOne
  <2> QED
    BY <2>5, <2>6
<1> QED
  BY <1>3, <1>6, <1>9, <1>10 DEF DriverInv

\* When a COMMIT takes effect, a request that is still in dispatch has a driver
\* among the jobs the handler enqueued, in the queue or with another worker.
LEMMA EffectDriver ==
    ASSUME CoreInv, DriverInv, NEW w \in Workers, TakeEffect(w)
    PROVE  /\ tx'[w] = Idle /\ \A v \in Workers \ {w} : tx'[v] = tx[v]
           /\ \A v \in Workers : Following(tx'[v], request')
           /\ \A r \in Requests : request'[r] = "dispatching" =>
                  \/ \E j \in Queue \cup tx[w].out : Drives(j, r)
                  \/ \E v \in Workers \ {w} : Drives(tx[v].job, r)
<1> DEFINE t == tx[w]
<1>1. /\ tx'[w] = Idle /\ \A v \in Workers \ {w} : tx'[v] = tx[v]
      /\ t.pc = "commit"
  BY DEF TakeEffect, Goto, CoreInv, CoreType, At
<1>3. request' = [q \in Requests |->
                    IF q = t.job.req THEN Merge(request[q], t.request) ELSE request[q]]
  BY DEF TakeEffect, Req
<1>4. t.request \in {Keep, "assigned", "unfilled"}
  BY DEF CoreInv, AcceptanceInv, WriteUnderLock, CoreType, TxShape
<1>5. /\ NotReopened
      /\ \A r \in Requests : request'[r] = "dispatching" =>
             request[r] = "dispatching" /\ (r = t.job.req => t.request = Keep)
  BY <1>3, <1>4 DEF NotReopened, Merge
<1>6. \A v \in Workers : Following(tx'[v], request')
  BY <1>1, <1>5, StillFollowing, IdleFollows DEF DriverInv
<1>7. Following(t, request)
  BY DEF DriverInv
<1>8. ASSUME NEW r \in Requests, request'[r] = "dispatching"
      PROVE  \/ \E j \in Queue \cup t.out : Drives(j, r)
             \/ \E v \in Workers \ {w} : Drives(tx[v].job, r)
  <2>1. CASE Drives(t.job, r)
    BY <1>1, <1>5, <1>7, <1>8, <2>1 DEF Following, Drives, Drivers
  <2>2. CASE ~ Drives(t.job, r)
    BY <1>5, <1>8, <2>2 DEF DriverInv, AtLeastOne
  <2> QED
    BY <2>1, <2>2
<1> QED
  BY <1>1, <1>6, <1>8

\* The COMMIT puts the follower in the place of the driver, or ends the request.
LEMMA CommitDriver ==
    ASSUME CoreInv, DriverInv, NEW w \in Workers, Commit(w)
    PROVE  DriverInv'
<1> DEFINE t == tx[w]
<1>1. /\ jobs' = jobs \cup t.out /\ dead' = dead /\ lost' = lost /\ doubtful' = doubtful
      /\ TakeEffect(w)
  BY DEF Commit, history
<1>2. tx'[w] = Idle /\ \A v \in Workers \ {w} : tx'[v] = tx[v]
  BY <1>1, EffectDriver
<1>3. \A v \in Workers : Following(tx'[v], request')
  BY <1>1, EffectDriver
<1>7. Following(t, request)
  BY DEF DriverInv
<1>8. Queue' = Queue \cup t.out
  BY <1>1 DEF Queue
<1>9. ASSUME NEW r \in Requests, r \notin doubtful
      PROVE  AtMostOne(r)'
  <2>1. AtMostOne(r)
    BY <1>9 DEF DriverInv
  <2>3. \A v \in Workers : Drives(tx'[v].job, r) <=> Drives(tx[v].job, r) /\ v # w
    BY <1>2, IdleFollows
  <2>4. \A k \in t.out : Drives(k, r) => Drives(t.job, r)
    BY <1>7 DEF Following, Drives, Drivers
  <2>5. \A j, k \in t.out : Drives(k, r) /\ Drives(j, r) => j = k
    BY <1>7 DEF Following, Drives, Drivers
  <2>6. Drives(t.job, r) => \A k \in Queue : ~ Drives(k, r)
    BY <2>1 DEF AtMostOne
  <2>7. \A j, k \in Queue' : Drives(j, r) /\ Drives(k, r) => j = k
    BY <1>8, <2>1, <2>4, <2>5, <2>6 DEF AtMostOne
  <2>8. \A v \in Workers, j \in Queue' : ~ (Drives(tx'[v].job, r) /\ Drives(j, r))
    BY <1>8, <2>1, <2>3, <2>4 DEF AtMostOne
  <2>9. \A j \in jobs' : Drives(j, r) => j \notin dead' \cup lost'
    BY <1>1, <2>1, <2>4, <2>6 DEF AtMostOne, Queue
  <2> QED
    BY <2>1, <2>3, <2>7, <2>8, <2>9 DEF AtMostOne
<1>10. ASSUME NEW r \in Requests, request'[r] = "dispatching"
       PROVE  AtLeastOne(r)'
  BY <1>1, <1>2, <1>8, <1>10, EffectDriver DEF AtLeastOne
<1> QED
  BY <1>1, <1>3, <1>7, <1>8, <1>9, <1>10 DEF DriverInv, Following

\* When the answer is lost the driver stays, beside its follower: the request
\* is doubtful. Of the others it drove none, and enqueued none.
LEMMA LoseAckDriver ==
    ASSUME CoreInv, DriverInv, NEW w \in Workers, LoseAck(w)
    PROVE  DriverInv'
<1> DEFINE t == tx[w]
<1>1. /\ TakeEffect(w) /\ lost' = lost
      /\ doubtful' = doubtful \cup {r \in Requests : Drives(t.job, r)}
      /\ \/ jobs' = jobs \cup {t.job} \cup t.out /\ dead' = dead
         \/ jobs' = jobs \cup t.out /\ dead' = dead \cup {t.job}
  BY DEF LoseAck
<1>2. tx'[w] = Idle /\ \A v \in Workers \ {w} : tx'[v] = tx[v]
  BY <1>1, EffectDriver
<1>3. \A v \in Workers : Following(tx'[v], request')
  BY <1>1, EffectDriver
<1>7. Following(t, request)
  BY DEF DriverInv
<1>8. Queue' = Queue \cup t.out \cup {t.job}
  BY <1>1 DEF Queue
<1>9. ASSUME NEW r \in Requests, r \notin doubtful'
      PROVE  AtMostOne(r)'
  <2>1. AtMostOne(r) /\ ~ Drives(t.job, r)
    BY <1>1, <1>9 DEF DriverInv
  <2>2. \A v \in Workers : Drives(tx'[v].job, r) => Drives(tx[v].job, r)
    BY <1>2, IdleFollows
  <2>3. \A k \in t.out \cup {t.job} : ~ Drives(k, r)
    BY <1>7, <2>1 DEF Following, Drives, Drivers
  <2> QED
    BY <1>1, <1>8, <2>1, <2>2, <2>3 DEF AtMostOne
<1>10. ASSUME NEW r \in Requests, request'[r] = "dispatching"
       PROVE  AtLeastOne(r)'
  BY <1>1, <1>2, <1>8, <1>10, EffectDriver DEF AtLeastOne
<1> QED
  BY <1>3, <1>7, <1>8, <1>9, <1>10 DEF DriverInv, Following

-----------------------------------------------------------------------------
(* The steps of a handler                                                  *)

\* What InnerStep asks.
Inner(w, t) ==
    /\ Goto(w, t)
    /\ t.job = tx[w].job
    /\ Following(t, request)
    /\ UNCHANGED <<request, queueVars, doubtful>>

\* A step that enqueues nothing, neither into a driver's steps nor out of them.
LEMMA GoOn ==
    ASSUME NEW s, NEW t, Following(s, request), t.job = s.job, t.out = s.out,
           \/ s.pc \in Planning /\ t.pc \in Planning \ {"offer"}
           \/ s.pc = "offer" /\ t.pc \in {"offer", "commit"}
           \/ s.pc \in Planning /\ t.pc = "commit" /\ t.request # Keep
           \/ s.pc \notin Planning \cup {"commit"} /\ t.pc \notin Planning
    PROVE  Following(t, request)
BY DEF Following, Planning

\* A driver that enqueues the timeout of the wave it is about to send.
LEMMA NextWave ==
    ASSUME NEW s, NEW t, NEW n, NEW wave, NEW rest, Following(s, request),
           s.pc \in Planning, t.job = s.job, t.pc = "offer",
           t.out = {AdvanceJob(s.job.req, wave, rest, n)}
    PROVE  Following(t, request)
BY NewJobs DEF Following, Planning, Drivers, Drives

LEMMA ExpiryFollows ==
    ASSUME NEW t, TxShape(t), Following(t, request), t.pc \in Planning
    PROVE  LET u == AfterExpiry(t) IN u.job = t.job /\ Following(u, request)
<1> DEFINE u == AfterExpiry(t)
<1>1. CASE t.job.rest = <<>>
  <2>1. u.pc = "unfill" /\ u.job = t.job /\ u.out = t.out
    BY <1>1 DEF AfterExpiry, TxShape
  <2> QED
    BY <2>1, GoOn DEF Planning
<1>2. CASE t.job.rest # <<>>
  <2>1. /\ u.pc = "offer" /\ u.job = t.job
        /\ u.out = {AdvanceJob(t.job.req, t.job.wave + 1, Tail(t.job.rest), t.job.n)}
    BY <1>2 DEF AfterExpiry, TxShape
  <2> QED
    BY <2>1, NextWave
<1> QED
  BY <1>1, <1>2

LEMMA PlanDriver ==
    ASSUME CoreInv, DriverInv, NEW w \in Workers, PlanWaves(w)
    PROVE  \E t : Inner(w, t)
<1> DEFINE s == tx[w]
<1>1. TxShape(s) /\ Following(s, request) /\ s.pc = "plan"
  BY DEF CoreInv, CoreType, DriverInv, PlanWaves, At
<1>2. UNCHANGED <<request, queueVars, doubtful>>
  BY DEF PlanWaves, dbVars
<1>3. CASE Eligible(Req(w)) = {}
  <2> DEFINE t == [s EXCEPT !.pc = "unfill"]
  <2>1. Goto(w, t)
    BY <1>3 DEF PlanWaves
  <2>2. t.pc = "unfill" /\ t.job = s.job /\ t.out = s.out
    BY <1>1 DEF TxShape
  <2> HIDE DEF t
  <2> QED
    BY <1>1, <1>2, <2>1, <2>2, GoOn DEF Planning, Inner
<1>4. CASE Eligible(Req(w)) # {}
  <2>1. PICK todo, rest :
            Goto(w, [s EXCEPT !.pc = "offer", !.todo = todo,
                              !.out = {AdvanceJob(Req(w), 2, rest, s.job.att)}])
    BY <1>4 DEF PlanWaves
  <2> DEFINE t == [s EXCEPT !.pc = "offer", !.todo = todo,
                            !.out = {AdvanceJob(Req(w), 2, rest, s.job.att)}]
  <2>2. t.pc = "offer" /\ t.job = s.job /\ t.out = {AdvanceJob(s.job.req, 2, rest, s.job.att)}
    BY <1>1 DEF TxShape, Req
  <2>3. Goto(w, t)
    BY <2>1
  <2> HIDE DEF t
  <2> QED
    BY <1>1, <1>2, <2>2, <2>3, NextWave DEF Planning, Inner
<1> QED
  BY <1>3, <1>4

LEMMA SendDriver ==
    ASSUME CoreInv, DriverInv, NEW w \in Workers, SendOffer(w)
    PROVE  \E t : Inner(w, t)
<1> DEFINE s == tx[w]
           p == Head(s.todo)
           t(st) == [s EXCEPT !.offers[p] = st, !.todo = Tail(@),
                              !.pc = IF Len(s.todo) = 1 THEN "commit" ELSE @]
<1>1. TxShape(s) /\ Following(s, request) /\ s.pc = "offer"
  BY DEF CoreInv, CoreType, DriverInv, SendOffer, At
<1>2. UNCHANGED <<request, queueVars, doubtful>>
  BY DEF SendOffer, dbVars, history
<1>3. PICK st \in {"sent", "failed"} : Goto(w, t(st))
  BY DEF SendOffer
<1>4. t(st).pc \in {"offer", "commit"} /\ t(st).job = s.job /\ t(st).out = s.out
  BY <1>1 DEF TxShape
<1> HIDE DEF t
<1> QED
  BY <1>1, <1>2, <1>3, <1>4, GoOn DEF Inner

LEMMA UnfillDriver ==
    ASSUME CoreInv, DriverInv, NEW w \in Workers, Unfill(w)
    PROVE  \E t : Inner(w, t)
<1> DEFINE s == tx[w]
           t == [s EXCEPT !.request = "unfilled", !.pc = "commit"]
<1>1. TxShape(s) /\ Following(s, request) /\ s.pc = "unfill"
  BY DEF CoreInv, CoreType, DriverInv, Unfill, At
<1>2. UNCHANGED <<request, queueVars, doubtful>> /\ Goto(w, t)
  BY DEF Unfill, dbVars, history
<1>3. t.pc = "commit" /\ t.request # Keep /\ t.job = s.job /\ t.out = s.out
  BY <1>1 DEF TxShape, Keep
<1> HIDE DEF t
<1> QED
  BY <1>1, <1>2, <1>3, GoOn DEF Inner, Planning

LEMMA TimeoutDriver ==
    ASSUME CoreInv, DriverInv, NEW w \in Workers,
           \/ CollectUnanswered(w) \/ ExpireOffer(w)
           \/ CountUnanswered(w) \/ BumpUnanswered(w)
    PROVE  \E t : Inner(w, t)
<1> DEFINE s == tx[w]
<1>1. /\ TxShape(s) /\ Following(s, request)
      /\ s.pc \in {"collect", "expire", "count", "bump"}
  BY DEF CoreInv, CoreType, DriverInv, CollectUnanswered, ExpireOffer,
         CountUnanswered, BumpUnanswered, At
<1>2. UNCHANGED <<request, queueVars, doubtful>>
  BY DEF CollectUnanswered, ExpireOffer, CountUnanswered, BumpUnanswered, dbVars,
         history
<1>3. ASSUME NEW t, Goto(w, t), t.job = s.job, t.out = s.out,
             t.pc \in Planning \ {"offer"}
      PROVE  Inner(w, t)
  BY <1>1, <1>2, <1>3, GoOn DEF Planning, Inner
<1>4. CASE CollectUnanswered(w)
  <2>1. CASE Goto(w, AfterExpiry(s))
    BY <1>1, <1>2, <2>1, ExpiryFollows DEF Planning, Inner
  <2>2. ASSUME NEW todo, Goto(w, [s EXCEPT !.pc = "expire", !.todo = todo])
        PROVE  \E t : Inner(w, t)
    <3> DEFINE t == [s EXCEPT !.pc = "expire", !.todo = todo]
    <3>1. t.pc = "expire" /\ t.job = s.job /\ t.out = s.out
      BY <1>1 DEF TxShape
    <3> HIDE DEF t
    <3> QED
      BY <1>3, <2>2, <3>1 DEF Planning, t
  <2> QED
    BY <1>4, <2>1, <2>2 DEF CollectUnanswered
<1>5. CASE ExpireOffer(w)
  <2> DEFINE t(offers, todo, pc) ==
                 [s EXCEPT !.offers = offers, !.todo = todo, !.pc = pc]
  <2>1. PICK offers, todo, pc : pc \in {"expire", "count"} /\ Goto(w, t(offers, todo, pc))
    <3> DEFINE u == [s EXCEPT !.offers[Head(s.todo)] = "expired"]
    <3>1. ASSUME NEW todo, NEW pc PROVE [u EXCEPT !.todo = todo, !.pc = pc] = t(u.offers, todo, pc)
      BY <1>1 DEF TxShape
    <3>2. s.pc = "expire"
      BY <1>5 DEF ExpireOffer, At
    <3>3. [u EXCEPT !.todo = Tail(@)] = t(u.offers, Tail(u.todo), "expire")
      BY <1>1, <3>2 DEF TxShape
    <3>4. ASSUME NEW todo, Goto(w, [u EXCEPT !.todo = todo, !.pc = "count"])
          PROVE  Goto(w, t(u.offers, todo, "count"))
      BY <3>1, <3>4
    <3>5. Goto(w, [u EXCEPT !.todo = Tail(@)])
            \/ \E todo : Goto(w, [u EXCEPT !.todo = todo, !.pc = "count"])
      BY <1>5 DEF ExpireOffer
    <3> HIDE DEF t, u
    <3> QED
      BY <3>3, <3>4, <3>5
  <2>2. /\ t(offers, todo, pc).pc \in {"expire", "count"}
        /\ t(offers, todo, pc).job = s.job /\ t(offers, todo, pc).out = s.out
    BY <1>1, <2>1 DEF TxShape
  <2> HIDE DEF t
  <2> QED
    BY <1>3, <2>1, <2>2 DEF Planning
<1>6. CASE CountUnanswered(w)
  <2> DEFINE t == [s EXCEPT !.seen = Seen(Head(s.todo)), !.pc = "bump"]
  <2>1. Goto(w, t)
    BY <1>6 DEF CountUnanswered
  <2>2. t.pc = "bump" /\ t.job = s.job /\ t.out = s.out
    BY <1>1 DEF TxShape
  <2> HIDE DEF t
  <2> QED
    BY <1>3, <2>1, <2>2 DEF Planning
<1>7. CASE BumpUnanswered(w)
  <2> DEFINE p == Head(s.todo)
             n == s.seen.unanswered + 1
             off == n >= AutoOffThreshold /\ s.seen.available
             t == [s EXCEPT !.unanswered[p] = n,
                            !.available[p] = IF off THEN "off" ELSE @,
                            !.todo = Tail(@),
                            !.pc = "count"]
  <2>1. Goto(w, IF t.todo = <<>> THEN AfterExpiry(t) ELSE t)
    BY <1>7 DEF BumpUnanswered
  <2>2. TxShape(t) /\ t.pc = "count" /\ t.job = s.job /\ t.out = s.out
    BY <1>1 DEF TxShape, Steps
  <2> HIDE DEF t
  <2>3. Following(t, request)
    BY <1>1, <2>2, GoOn DEF Planning
  <2> QED
    BY <1>2, <1>3, <2>1, <2>2, <2>3, ExpiryFollows DEF Planning, Inner
<1> QED
  BY <1>4, <1>5, <1>6, <1>7

\* Handlers of taps, commands and notices never come near a driver's steps.
Answering == {"lockOffer", "lockRequest", "charge", "withdraw", "reset", "decline",
              "provider", "customer", "toggle", "grant", "remainder", "adjust"}

LEMMA AnswerDriver ==
    ASSUME CoreInv, DriverInv, NEW w \in Workers,
           \/ LockRequest(w) \/ WithdrawOffer(w) \/ ResetUnanswered(w)
           \/ DeclineOffer(w) \/ ReleaseToProvider(w) \/ ReleaseToCustomer(w)
           \/ ToggleAvailable(w) \/ GrantFree(w) \/ CountFree(w) \/ AdjustFree(w)
    PROVE  \E t : Inner(w, t)
<1> DEFINE s == tx[w]
<1>1. TxShape(s) /\ Following(s, request) /\ s.pc \in Answering
  BY DEF CoreInv, CoreType, DriverInv, Answering, At, LockRequest, WithdrawOffer,
         ResetUnanswered, DeclineOffer, ReleaseToProvider, ReleaseToCustomer,
         ToggleAvailable, GrantFree, CountFree, AdjustFree
<1>2. UNCHANGED <<request, queueVars, doubtful>>
  BY DEF dbVars, history, LockRequest, WithdrawOffer, ResetUnanswered, DeclineOffer,
         ReleaseToProvider, ReleaseToCustomer, ToggleAvailable, GrantFree,
         CountFree, AdjustFree
<1>3. ASSUME NEW t, Goto(w, t), t.job = s.job, t.out = s.out,
             t.pc \in Answering \cup {"commit"}
      PROVE  Inner(w, t)
  BY <1>1, <1>2, <1>3, GoOn DEF Planning, Answering, Inner
<1>4. CASE LockRequest(w)
  BY <1>1, <1>3, <1>4 DEF LockRequest, TxShape, Answering
<1>5. CASE WithdrawOffer(w)
  BY <1>1, <1>3, <1>5 DEF WithdrawOffer, TxShape, Answering
<1>6. CASE ResetUnanswered(w)
  BY <1>1, <1>3, <1>6 DEF ResetUnanswered, AfterReset, TxShape, Answering
<1>7. CASE DeclineOffer(w)
  BY <1>1, <1>3, <1>7 DEF DeclineOffer, TxShape, Answering
<1>8. CASE ReleaseToProvider(w)
  BY <1>1, <1>3, <1>8 DEF ReleaseToProvider, TxShape, Answering
<1>9. CASE ReleaseToCustomer(w)
  BY <1>1, <1>3, <1>9 DEF ReleaseToCustomer, TxShape, Answering
<1>10. CASE ToggleAvailable(w)
  BY <1>1, <1>3, <1>10 DEF ToggleAvailable, TxShape, Answering
<1>11. CASE GrantFree(w)
  BY <1>1, <1>3, <1>11 DEF GrantFree, TxShape, Answering
<1>12. CASE CountFree(w)
  BY <1>1, <1>3, <1>12 DEF CountFree, TxShape, Answering
<1>13. CASE AdjustFree(w)
  BY <1>1, <1>3, <1>13 DEF AdjustFree, TxShape, Answering
<1> QED
  BY <1>4, <1>5, <1>6, <1>7, <1>8, <1>9, <1>10, <1>11, <1>12, <1>13

\* An acceptance enqueues its notices, none of which drives a request.
LEMMA ChargeDriver ==
    ASSUME CoreInv, DriverInv, NEW w \in Workers, Charge(w)
    PROVE  \E t : Inner(w, t)
<1> DEFINE s == tx[w]
           r == Req(w)
           p == Prov(w)
<1>1. TxShape(s) /\ Following(s, request) /\ s.pc = "charge"
  BY DEF CoreInv, CoreType, DriverInv, Charge, At
<1>2. UNCHANGED <<request, queueVars, doubtful>>
  BY DEF Charge, dbVars, history
<1>3. CASE ~ CanPay(p)
  <2> DEFINE t == [s EXCEPT !.pc = "commit"]
  <2>1. t.pc = "commit" /\ t.job = s.job /\ t.out = s.out /\ Goto(w, t)
    BY <1>1, <1>3 DEF Charge, TxShape
  <2> HIDE DEF t
  <2> QED
    BY <1>1, <1>2, <2>1, GoOn DEF Planning, Inner
<1>4. CASE CanPay(p)
  <2> DEFINE out == {NoticeJob("release", r, p), NoticeJob("notify", r, NoProvider)}
                    \cup (IF balance[p] - 1 <= LowBalance
                          THEN {NoticeJob("warn", r, p)} ELSE {})
             t(offers, todo, pc) ==
                 [s EXCEPT !.charge = TRUE, !.offers = offers, !.request = "assigned",
                           !.todo = todo, !.out = out, !.pc = pc]
  <2>1. \A j \in out : JobShape(j) /\ j.kind \notin Drivers
    BY NewJobs DEF Drivers
  <2> HIDE DEF out
  <2>2. PICK offers, todo, pc : pc \in {"reset", "withdraw"} /\ Goto(w, t(offers, todo, pc))
    BY <1>1, <1>4 DEF Charge, TxShape, AcceptedRequest, out
  <2>3. /\ t(offers, todo, pc).pc \in {"reset", "withdraw"}
        /\ t(offers, todo, pc).job = s.job /\ t(offers, todo, pc).out = out
    BY <1>1, <2>2 DEF TxShape
  <2> HIDE DEF t
  <2>4. Following(t(offers, todo, pc), request)
    BY <1>1, <2>1, <2>3 DEF Following, Planning
  <2> QED
    BY <1>2, <2>2, <2>3, <2>4 DEF Inner
<1> QED
  BY <1>3, <1>4

LEMMA LockOfferDriver ==
    ASSUME CoreInv, DriverInv, NEW w \in Workers, LockOffer(w)
    PROVE  DriverInv'
<1> DEFINE s == tx[w]
           t(pc) == [s EXCEPT !.pc = pc]
<1>1. TxShape(s) /\ Following(s, request) /\ s.pc = "lockOffer"
  BY DEF CoreInv, CoreType, DriverInv, LockOffer, At
<1>2. UNCHANGED <<request, lost, doubtful>>
  BY DEF LockOffer, dbVars, history
<1>3. CASE RollBack(w)
  BY <1>2, <1>3, RollBackDriver
<1>4. ASSUME NEW pc \in {"lockRequest", "commit"}, Goto(w, t(pc)), UNCHANGED <<jobs, dead>>
      PROVE  DriverInv'
  <2>1. t(pc).pc = pc /\ t(pc).job = s.job /\ t(pc).out = s.out
    BY <1>1 DEF TxShape
  <2> HIDE DEF t
  <2> QED
    BY <1>1, <1>2, <1>4, <2>1, GoOn, InnerStep DEF Planning, queueVars
<1> QED
  BY <1>3, <1>4 DEF LockOffer

\* Taps and commands are no drivers.
LEMMA ArriveDriver ==
    ASSUME CoreInv, DriverInv, NEW j, JobShape(j), j.kind \notin Drivers, Arrive(j)
    PROVE  DriverInv'
<1>1. UNCHANGED <<request, tx, dead, lost, doubtful>> /\ jobs' = jobs \cup {j}
  BY DEF Arrive, dbVars, history
<1>2. Queue' = Queue \cup {j}
  BY <1>1 DEF Queue
<1>3. \A r : ~ Drives(j, r)
  BY DEF Drives, Drivers
<1>4. \A r \in Requests : /\ r \notin doubtful' => AtMostOne(r)'
                          /\ request'[r] = "dispatching" => AtLeastOne(r)'
  BY <1>1, <1>2, <1>3 DEF DriverInv, AtMostOne, AtLeastOne
<1> QED
  BY <1>1, <1>2, <1>4 DEF DriverInv, Following

-----------------------------------------------------------------------------
(* The invariant                                                           *)

LEMMA DriverStep == ASSUME CoreInv, DriverInv, [Next]_vars PROVE DriverInv'
<1>1. ASSUME NEW w \in Workers, Step(w) PROVE DriverInv'
  <2>1. CASE \E j \in jobs : Claim(w, j)
    BY <2>1, ClaimDriver
  <2>2. CASE Commit(w)
    BY <2>2, CommitDriver
  <2>3. CASE BreakDeadlock(w) \/ RefuseOffer(w)
    BY <2>3, RollBackDriver DEF BreakDeadlock, RefuseOffer, dbVars, history
  <2>4. CASE LockOffer(w)
    BY <2>4, LockOfferDriver
  <2>5. CASE \E t : Inner(w, t)
    BY <2>5, InnerStep DEF Inner
  <2> QED
    BY <1>1, <2>1, <2>2, <2>3, <2>4, <2>5, PlanDriver, SendDriver, UnfillDriver,
       TimeoutDriver, AnswerDriver, ChargeDriver DEF Step
<1>2. ASSUME NEW w \in Workers, Fault(w) PROVE DriverInv'
  BY <1>2, RollBackDriver DEF Fault, dbVars, history
<1>3. ASSUME NEW w \in Workers, LoseAck(w) \/ Crash(w) PROVE DriverInv'
  BY <1>3, LoseAckDriver, PutDown DEF Crash, dbVars, history
<1>4. ASSUME NEW b, NEW kind \in {"accept", "decline"}, Tap(b, kind) PROVE DriverInv'
  <2>1. JobShape(TapJob(kind, b, taps + 1)) /\ TapJob(kind, b, taps + 1).kind = kind
    BY JobIs DEF TapJob
  <2> QED
    BY <1>4, <2>1, ArriveDriver DEF Tap, Drivers
<1>5. ASSUME NEW p, NEW kind \in Commands, Command(p, kind) PROVE DriverInv'
  BY <1>5, NewJobs, ArriveDriver DEF Command, Commands, Drivers
<1>6. CASE UNCHANGED vars
  BY <1>6 DEF vars, dbVars, queueVars, history, DriverInv, AtMostOne, AtLeastOne, Queue, Following
<1> QED
  BY <1>1, <1>2, <1>3, <1>4, <1>5, <1>6 DEF Next

LEMMA OneOfTwo ==
    ASSUME NEW S, NEW T,
           \A x, y \in S : x = y, \A x, y \in T : x = y,
           S = {} \/ T = {}, S # {} \/ T # {}
    PROVE  Cardinality(S) + Cardinality(T) = 1
<1>1. ASSUME NEW U, \A x, y \in U : x = y, U # {} PROVE Cardinality(U) = 1
  <2>1. PICK x : U = {x}
    BY <1>1
  <2> QED
    BY <2>1, FS_Singleton
<1> QED
  BY <1>1, FS_EmptySet

LEMMA DriverInvOneDriver == ASSUME DriverInv PROVE OneDriver
<1> SUFFICES ASSUME NEW r \in Requests, request[r] = "dispatching"
             PROVE  LET S == {j \in jobs \cup dead \cup lost : Drives(j, r)}
                        T == {w \in Workers : Drives(tx[w].job, r)}
                    IN  /\ S # {} \/ T # {}
                        /\ r \notin doubtful => Cardinality(S) + Cardinality(T) = 1
  BY DEF OneDriver
<1> DEFINE S == {j \in jobs \cup dead \cup lost : Drives(j, r)}
           T == {w \in Workers : Drives(tx[w].job, r)}
<1>1. S # {} \/ T # {}
  BY DEF DriverInv, AtLeastOne, Queue
<1>2. ASSUME r \notin doubtful
      PROVE  (\A x, y \in S : x = y) /\ (\A x, y \in T : x = y) /\ (S = {} \/ T = {})
  BY <1>2 DEF DriverInv, AtMostOne, Queue
<1> HIDE DEF S, T
<1> QED
  BY <1>1, <1>2, OneOfTwo DEF S, T

\* Whatever fails, is retried, dies or races with an acceptance, on however
\* many workers, a request in dispatch has a job to drive it: the chain of
\* advance_wave_handler's timeouts is never dropped. And it has one only, as
\* long as no COMMIT of dispatch_request or advance_wave went unanswered.
THEOREM OneDriverHolds == Spec => []OneDriver
<1>1. Init => DriverInv
  BY DriverInit
<1>2. CoreInv /\ DriverInv /\ [Next]_vars => DriverInv'
  BY DriverStep
<1>3. DriverInv => OneDriver
  BY DriverInvOneDriver
<1> QED
  BY <1>1, <1>2, <1>3, CoreInvariant, PTL DEF Spec

-----------------------------------------------------------------------------
(* Types. That a wave taken off a job is a list of providers, and that no  *)
(* handler takes the head of an empty one, rests on what planning computes *)
(* (WavesProofs); which rows a step is about rests on whose step it is     *)
(* (Performs).                                                             *)

\* The steps that take the next provider of a list.
Listing == {"offer", "expire", "count", "bump", "withdraw"}

\* Which rows a job is about, and that no wave of it is empty.
Addressed(j) ==
    /\ j.kind \in {"dispatch", "advance", "accept", "decline", "release"} => j.req \in Requests
    /\ j.kind \in {"accept", "decline", "release", "available", "off", "grant", "remove"} =>
           j.prov \in Providers
    /\ \A i \in 1 .. Len(j.rest) : j.rest[i] # <<>>

\* Whose steps are whose.
Performs(t) ==
    LET kind == t.job.kind IN
    /\ t.pc \in Planning => kind \in Drivers
    /\ t.pc \in {"lockOffer", "lockRequest", "charge", "withdraw"} \/ t.charge => kind = "accept"
    /\ t.pc = "reset" => kind \in {"accept", "decline"}
    /\ t.pc = "decline" => kind = "decline"
    /\ t.pc \in {"provider", "customer"} => kind = "release"
    /\ t.pc = "toggle" => kind \in {"available", "off"}
    /\ t.pc = "grant" => kind = "grant"
    /\ t.pc \in {"remainder", "adjust"} => kind = "remove"

GoodTx(t) ==
    /\ t \in TxType
    /\ Addressed(t.job) /\ \A j \in t.out : Addressed(j)
    /\ Performs(t)
    /\ t.pc \in Listing => t.todo # <<>>

\* The waves still to come.
Rests == Seq(Seq(Providers))

Lock == [by : Workers, row : Rows, mode : {"update", "write", "share"}]

WorldTyped ==
    /\ \A b \in buttons : b \in [req : Requests, prov : Providers, id : Ids]
    /\ contacts \subseteq Requests \X Providers \X {"provider", "customer"}
    /\ planned \in [Requests -> SUBSET Providers] /\ doubtful \subseteq Requests
    /\ faults \in Nat /\ crashes \in Nat /\ taps \in Nat

TablesTyped ==
    /\ request \in [Requests -> RequestStates]
    /\ offer \in [Requests -> [Providers -> [st : OfferStates, id : Ids]]]
    /\ assigned \subseteq Requests \X Providers
    /\ debits \in [Requests -> [Providers -> Nat]]
    /\ {balance, free} \subseteq [Providers -> Int]
    /\ unanswered \in [Providers -> Nat]
    /\ available \subseteq Providers

TypeInv ==
    /\ TablesTyped /\ WorldTyped
    /\ \A j \in Queue : j \in JobType /\ Addressed(j)
    /\ tx \in [Workers -> TxType] /\ \A w \in Workers : GoodTx(tx[w])
    /\ \A l \in locks : l \in Lock

LEMMA TypeInvIsEnough == ASSUME TypeInv PROVE TypeOK
BY DEF TypeInv, TypeOK, TablesTyped, WorldTyped, Queue, Lock

-----------------------------------------------------------------------------

\* Lists of providers.
LEMMA Listed ==
    ASSUME NEW S \in SUBSET Providers, NEW s \in SetToSeqs(S)
    PROVE  /\ s \in Seq(S) /\ s \in Seq(Providers) /\ Len(s) = Cardinality(S)
           /\ S # {} => s # <<>>
           /\ \A p \in S : \E i \in 1 .. Len(s) : s[i] = p
<1>1. IsFiniteSet(S)
  BY DispatchAssumption, FS_Subset
<1>2. /\ s \in Seq(S) /\ Len(s) = Cardinality(S)
      /\ \A p \in S : \E i \in 1 .. Len(s) : s[i] = p
  BY <1>1, Ranked
<1>3. S # {} => s # <<>>
  BY <1>2
<1> QED
  BY <1>2, <1>3

LEMMA Taken ==
    ASSUME NEW V, NEW s \in Seq(V), s # <<>>
    PROVE  /\ Head(s) \in V /\ Tail(s) \in Seq(V) /\ Len(s) \in Nat \ {0}
           /\ Len(s) # 1 => Tail(s) # <<>>
           /\ Head(s) = s[1] /\ Len(Tail(s)) = Len(s) - 1
           /\ \A i \in 1 .. Len(Tail(s)) : i + 1 \in 1 .. Len(s) /\ Tail(s)[i] = s[i + 1]
<1>1. Head(s) \in V /\ Tail(s) \in Seq(V) /\ Len(s) \in Nat \ {0} /\ Head(s) = s[1]
  OBVIOUS
<1>2. Len(Tail(s)) = Len(s) - 1
  OBVIOUS
<1>3. ASSUME NEW i \in 1 .. Len(Tail(s)) PROVE i + 1 \in 1 .. Len(s) /\ Tail(s)[i] = s[i + 1]
  BY <1>1, <1>2
<1>4. Len(s) # 1 => Tail(s) # <<>>
  <2>1. Tail(s) = <<>> => Len(Tail(s)) = 0
    BY <1>1, EmptySeq
  <2> QED
    BY <1>1, <1>2, <2>1
<1> QED
  BY <1>1, <1>2, <1>3, <1>4

LEMMA JobFields ==
    ASSUME NEW j \in JobType
    PROVE  /\ j.kind \in Kinds /\ j.req \in Requests \cup {NoRequest}
           /\ j.prov \in Providers \cup {NoProvider} /\ j.id \in Ids /\ j.wave \in Nat
           /\ j.rest \in Rests /\ j.n \in Nat /\ j.att \in Nat
           /\ [j EXCEPT !.att = @ + 1] \in JobType
           /\ [j EXCEPT !.att = @ + 1].kind = j.kind
           /\ [j EXCEPT !.att = @ + 1].req = j.req
           /\ [j EXCEPT !.att = @ + 1].prov = j.prov
           /\ [j EXCEPT !.att = @ + 1].id = j.id
           /\ [j EXCEPT !.att = @ + 1].wave = j.wave
           /\ [j EXCEPT !.att = @ + 1].rest = j.rest
<1>2. JobType = [kind : Kinds, req : Requests \cup {NoRequest},
                 prov : Providers \cup {NoProvider}, id : Ids, wave : Nat,
                 rest : Rests, n : Nat, att : Nat]
  BY DEF JobType, Rests
<1>3. /\ j.kind \in Kinds /\ j.req \in Requests \cup {NoRequest}
      /\ j.prov \in Providers \cup {NoProvider} /\ j.id \in Ids /\ j.wave \in Nat
      /\ j.rest \in Rests /\ j.n \in Nat /\ j.att \in Nat
      /\ [j EXCEPT !.att = @ + 1] \in JobType
      /\ [j EXCEPT !.att = @ + 1].kind = j.kind
      /\ [j EXCEPT !.att = @ + 1].req = j.req
      /\ [j EXCEPT !.att = @ + 1].prov = j.prov
      /\ [j EXCEPT !.att = @ + 1].id = j.id
      /\ [j EXCEPT !.att = @ + 1].wave = j.wave
      /\ [j EXCEPT !.att = @ + 1].rest = j.rest
  BY <1>2
<1> QED
  BY <1>3

LEMMA NewJob ==
    ASSUME NEW kind \in Kinds, NEW r \in Requests \cup {NoRequest},
           NEW p \in Providers \cup {NoProvider}, NEW id \in Ids, NEW wave \in Nat,
           NEW rest \in Rests, NEW n \in Nat,
           kind \in {"dispatch", "advance", "accept", "decline", "release"} => r \in Requests,
           kind \in {"accept", "decline", "release", "available", "off", "grant", "remove"} =>
               p \in Providers,
           \A i \in 1 .. Len(rest) : rest[i] # <<>>
    PROVE  /\ Job(kind, r, p, id, wave, rest, n) \in JobType
           /\ Addressed(Job(kind, r, p, id, wave, rest, n))
<1> DEFINE j == Job(kind, r, p, id, wave, rest, n)
<1>1. JobType = [kind : Kinds, req : Requests \cup {NoRequest},
                 prov : Providers \cup {NoProvider}, id : Ids, wave : Nat,
                 rest : Rests, n : Nat, att : Nat]
  BY DEF JobType, Rests
<1>2. j \in JobType /\ j.kind = kind /\ j.req = r /\ j.prov = p /\ j.rest = rest
  BY <1>1 DEF Job
<1> HIDE DEF j
<1>3. Addressed(j)
  BY <1>2 DEF Addressed
<1> QED
  BY <1>2, <1>3 DEF j

LEMMA Nothing == NoOffer.id \in Ids /\ <<>> \in Rests /\ \A i \in 1 .. Len(<<>>) : <<>>[i] # <<>>
<1>1. NoOffer.id \in Ids /\ <<>> \in Rests /\ Len(<<>>) = 0
  BY DEF NoOffer, Ids, Rests
<1> QED
  BY <1>1

\* The jobs the code enqueues.
LEMMA DispatchJobGood ==
    ASSUME NEW r \in Requests
    PROVE  DispatchJob(r) \in JobType /\ Addressed(DispatchJob(r))
BY Nothing, NewJob DEF DispatchJob, Kinds

LEMMA AdvanceJobGood ==
    ASSUME NEW r \in Requests, NEW wave \in Nat, NEW rest \in Rests, NEW n \in Nat,
           \A i \in 1 .. Len(rest) : rest[i] # <<>>
    PROVE  AdvanceJob(r, wave, rest, n) \in JobType /\ Addressed(AdvanceJob(r, wave, rest, n))
BY Nothing, NewJob DEF AdvanceJob, Kinds

LEMMA NoticeJobGood ==
    ASSUME NEW kind \in {"release", "warn", "notify"}, NEW r \in Requests,
           NEW x \in Providers \cup {NoProvider}, kind = "release" => x \in Providers
    PROVE  NoticeJob(kind, r, x) \in JobType /\ Addressed(NoticeJob(kind, r, x))
BY Nothing, NewJob DEF NoticeJob, Kinds

LEMMA CommandJobGood ==
    ASSUME NEW kind \in Commands, NEW p \in Providers, NEW n \in Nat
    PROVE  CommandJob(kind, p, n) \in JobType /\ Addressed(CommandJob(kind, p, n))
BY Nothing, NewJob DEF CommandJob, Commands, Kinds

LEMMA TapJobGood ==
    ASSUME NEW kind \in {"accept", "decline"}, NEW n \in Nat,
           NEW b \in [req : Requests, prov : Providers, id : Ids]
    PROVE  TapJob(kind, b, n) \in JobType /\ Addressed(TapJob(kind, b, n))
BY Nothing, NewJob DEF TapJob, Kinds

-----------------------------------------------------------------------------

LEMMA GoodFields ==
    ASSUME NEW t, GoodTx(t)
    PROVE  /\ t.pc \in Steps /\ t.job \in JobType /\ t.todo \in Seq(Providers)
           /\ t.request \in {Keep} \cup RequestStates
           /\ t.offers \in [Providers -> {Keep} \cup OfferStates]
           /\ t.unanswered \in [Providers -> Nat \cup {Unset}]
           /\ t.available \in [Providers -> {Keep, "on", "off"}]
           /\ t.charge \in BOOLEAN /\ t.remainder \in Int /\ t.entry \in Int
           /\ t.out \in SUBSET JobType
           /\ t.seen \in [unanswered : Nat, available : BOOLEAN]
BY DEF GoodTx, TxType

\* Who a step is about.
LEMMA Whom ==
    ASSUME NEW t, GoodTx(t)
    PROVE  /\ t.pc \in Planning \cup {"lockOffer", "lockRequest", "charge", "withdraw", "reset",
                                      "decline", "provider", "customer"} \/ t.charge =>
                 t.job.req \in Requests
           /\ t.pc \in {"lockOffer", "lockRequest", "charge", "withdraw", "reset", "decline",
                        "provider", "customer", "toggle", "grant", "remainder", "adjust"} \/ t.charge =>
                 t.job.prov \in Providers
           /\ t.pc \in Listing => /\ t.todo \in Seq(Providers) /\ t.todo # <<>>
                                  /\ Head(t.todo) \in Providers
<1>1. Addressed(t.job) /\ Performs(t) /\ t.todo \in Seq(Providers)
  BY GoodFields DEF GoodTx
<1>2. t.pc \in Planning => t.job.req \in Requests
  BY <1>1 DEF Addressed, Performs, Drivers
<1>3. t.pc \in {"lockOffer", "lockRequest", "charge", "withdraw", "reset",
                "decline", "provider", "customer"} \/ t.charge =>
          t.job.req \in Requests /\ t.job.prov \in Providers
  BY <1>1 DEF Addressed, Performs
<1>4. t.pc \in {"toggle", "grant", "remainder", "adjust"} => t.job.prov \in Providers
  BY <1>1 DEF Addressed, Performs
<1>5. t.pc \in Listing => t.todo # <<>>
  BY DEF GoodTx
<1>6. t.todo # <<>> => Head(t.todo) \in Providers
  BY <1>1, Taken
<1> QED
  BY <1>1, <1>2, <1>3, <1>4, <1>5, <1>6

LEMMA NeedsTyped ==
    ASSUME NEW w \in Workers, GoodTx(tx[w]), NEW n \in Needs(w)
    PROVE  n \in Lock
<1> DEFINE t == tx[w]
           r == t.job.req
           p == t.job.prov
           q == Head(t.todo)
<1>1. \A row \in Rows, mode \in {"update", "write", "share"} :
         [by |-> w, row |-> row, mode |-> mode] \in Lock
  BY DEF Lock
<1>2. \A x \in Requests : <<"request", x>> \in Rows
  BY DEF Rows
<1>3. \A y \in Providers : <<"provider", y>> \in Rows
  BY DEF Rows
<1>4. \A x \in Requests, y \in Providers : <<"offer", x, y>> \in Rows
  BY DEF Rows
<1>4a. \A x \in Requests, y \in Providers : <<"newOffer", x, y>> \in Rows
  BY DEF Rows
<1>4b. CASE t.pc = "offer"
  <2>1. r \in Requests /\ q \in Providers
    BY <1>4b, Whom DEF Planning, Listing
  <2>2. \/ n = [by |-> w, row |-> <<"request", r>>, mode |-> "share"]
        \/ n = [by |-> w, row |-> <<"newOffer", r, q>>, mode |-> "write"]
    BY <1>4b DEF Needs, At, Req
  <2> QED
    BY <1>1, <1>2, <1>4a, <2>1, <2>2
<1>5. CASE t.pc \in {"unfill", "lockRequest"}
  <2>1. r \in Requests
    BY <1>5, Whom DEF Planning
  <2>2. \E mode \in {"update", "write", "share"} : n = [by |-> w, row |-> <<"request", r>>, mode |-> mode]
    BY <1>5 DEF Needs, At, Req
  <2> QED
    BY <1>1, <1>2, <2>1, <2>2
<1>6. CASE t.pc \in {"expire", "withdraw"}
  <2>1. r \in Requests /\ q \in Providers
    BY <1>6, Whom DEF Planning, Listing
  <2>2. n = [by |-> w, row |-> <<"offer", r, q>>, mode |-> "write"]
    BY <1>6 DEF Needs, At, Req
  <2> QED
    BY <1>1, <1>4, <2>1, <2>2
<1>7. CASE t.pc = "bump"
  <2>1. q \in Providers
    BY <1>7, Whom DEF Listing
  <2>2. n = [by |-> w, row |-> <<"provider", q>>, mode |-> "write"]
    BY <1>7 DEF Needs, At, Req
  <2> QED
    BY <1>1, <1>3, <2>1, <2>2
<1>8. CASE t.pc \in {"lockOffer", "decline"}
  <2>1. r \in Requests /\ p \in Providers
    BY <1>8, Whom
  <2>2. \E mode \in {"update", "write", "share"} : n = [by |-> w, row |-> <<"offer", r, p>>, mode |-> mode]
    BY <1>8 DEF Needs, At, Req, Prov
  <2> QED
    BY <1>1, <1>4, <2>1, <2>2
<1>9. CASE t.pc \in {"reset", "toggle"}
  <2>1. p \in Providers
    BY <1>9, Whom
  <2>2. n = [by |-> w, row |-> <<"provider", p>>, mode |-> "write"]
    BY <1>9 DEF Needs, At, Prov
  <2> QED
    BY <1>1, <1>3, <2>1, <2>2
<1>10. t.pc \in {"offer", "unfill", "lockRequest", "expire", "withdraw", "bump", "lockOffer",
                 "decline", "reset", "toggle"}
  BY DEF Needs, At
<1> QED
  BY <1>4b, <1>5, <1>6, <1>7, <1>8, <1>9, <1>10

LEMMA LocksTyped ==
    ASSUME TypeInv, NEW w \in Workers, UNCHANGED locks \/ Acquire(w) \/ Unlock(w)
    PROVE  \A l \in locks' : l \in Lock
<1>1. GoodTx(tx[w]) /\ \A l \in locks : l \in Lock
  BY DEF TypeInv
<1>2. CASE Acquire(w)
  BY <1>1, <1>2, NeedsTyped DEF Acquire
<1>3. CASE Unlock(w)
  BY <1>1, <1>3 DEF Unlock
<1> QED
  BY <1>1, <1>2, <1>3

\* A step of a handler.
Typed(w, t) ==
    /\ Goto(w, t) /\ GoodTx(t)
    /\ UNCHANGED <<dbVars, queueVars>>
    /\ WorldTyped'
    /\ UNCHANGED locks \/ Acquire(w)

LEMMA TypedStep ==
    ASSUME TypeInv, NEW w \in Workers, \E t : Typed(w, t)
    PROVE  TypeInv'
<1>1. PICK t : Typed(w, t)
  OBVIOUS
<1>2. t \in TxType
  BY <1>1 DEF Typed, GoodTx
<1>3. tx' \in [Workers -> TxType] /\ \A v \in Workers : tx'[v] = IF v = w THEN t ELSE tx[v]
  BY <1>1, <1>2 DEF Typed, Goto, TypeInv
<1>4. \A l \in locks' : l \in Lock
  BY <1>1, LocksTyped DEF Typed
<1>5. TablesTyped'
  BY <1>1 DEF Typed, TypeInv, TablesTyped, dbVars
<1>6. Queue' = Queue
  BY <1>1 DEF Typed, Queue, queueVars
<1> QED
  BY <1>1, <1>3, <1>4, <1>5, <1>6 DEF TypeInv, Typed

LEMMA WorldStays ==
    ASSUME TypeInv, UNCHANGED <<worldVars, history, bounds>>
    PROVE  WorldTyped'
BY DEF TypeInv, WorldTyped, worldVars, history, bounds

LEMMA IdleGood == GoodTx(Idle) /\ Idle.out = {}
<1> USE DEF Unset
<1>1. Idle.job = Job("none", NoRequest, NoProvider, NoOffer.id, 0, <<>>, 0)
  BY DEF Idle
<1>2. NoOffer.id \in Ids /\ <<>> \in Rests /\ "none" \in Kinds
  BY DEF NoOffer, Ids, Rests, Kinds
<1>3. Idle.job \in JobType /\ Idle.job.kind = "none" /\ Idle.job.rest = <<>>
  <2> DEFINE job == Idle.job
  <2>1. job = Job("none", NoRequest, NoProvider, NoOffer.id, 0, <<>>, 0)
    BY <1>1
  <2>2. 0 \in Nat /\ NoRequest \in Requests \cup {NoRequest} /\ NoProvider \in Providers \cup {NoProvider}
    OBVIOUS
  <2>3. JobType = [kind : Kinds, req : Requests \cup {NoRequest},
                   prov : Providers \cup {NoProvider}, id : Ids, wave : Nat,
                   rest : Rests, n : Nat, att : Nat]
    BY DEF JobType, Rests
  <2> QED
    BY <1>2, <2>1, <2>2, <2>3 DEF Job
<1>4. Addressed(Idle.job)
  BY <1>3 DEF Addressed
<1>5. /\ Idle.pc = "idle" /\ Idle.todo = <<>> /\ Idle.todo \in Seq(Providers)
      /\ Idle.charge = FALSE /\ Idle.out = {}
  BY DEF Idle
<1>6. Idle \in TxType
  <2> DEFINE job == Job("none", NoRequest, NoProvider, NoOffer.id, 0, <<>>, 0)
  <2>1. job \in JobType
    BY <1>1, <1>3
  <2> HIDE DEF job
  <2> QED
    BY <2>1 DEF Idle, TxType, Steps, job
<1> QED
  BY <1>3, <1>4, <1>5, <1>6 DEF GoodTx, Performs, Listing, Planning

-----------------------------------------------------------------------------

\* What the next transaction of a step has to be, given the one before.
LEMMA GoingGood ==
    ASSUME NEW s, GoodTx(s), NEW t, t \in TxType, t.job = s.job,
           \A j \in t.out : Addressed(j), Performs(t), t.pc \in Listing => t.todo # <<>>
    PROVE  GoodTx(t)
BY DEF GoodTx

LEMMA ExpiryGood ==
    ASSUME NEW t, GoodTx(t), t.pc \in Planning
    PROVE  GoodTx(AfterExpiry(t))
<1> DEFINE u == AfterExpiry(t)
           rest == t.job.rest
           V == Seq(Providers)
<1>1. /\ t \in TxType /\ Addressed(t.job) /\ Performs(t) /\ t.job \in JobType
      /\ \A j \in t.out : Addressed(j)
  BY GoodFields DEF GoodTx
<1>2. rest \in Seq(V) /\ t.job.wave + 1 \in Nat /\ t.job.req \in Requests /\ t.job.n \in Nat
  <2>1. t.job.rest \in Rests /\ t.job.wave \in Nat /\ t.job.n \in Nat
    BY <1>1, JobFields
  <2>2. t.job.req \in Requests
    BY Whom
  <2> QED
    BY <2>1, <2>2 DEF Rests
<1>3. CASE rest = <<>>
  <2>1. u = [t EXCEPT !.pc = "unfill"]
    BY <1>3 DEF AfterExpiry
  <2>2. u \in TxType /\ u.pc = "unfill" /\ u.job = t.job /\ u.out = t.out /\ u.charge = t.charge
    BY <1>1, <2>1 DEF TxType, Steps
  <2> HIDE DEF u
  <2>3. GoodTx(u)
    BY <1>1, <2>2, GoingGood DEF Performs, Planning, Listing
  <2> QED
    BY <2>3 DEF u
<1>4. CASE rest # <<>>
  <2> DEFINE wave == Head(rest)
             j == AdvanceJob(t.job.req, t.job.wave + 1, Tail(rest), t.job.n)
  <2>1. /\ wave \in V /\ Tail(rest) \in Seq(V) /\ wave = rest[1]
        /\ Len(rest) \in Nat \ {0} /\ Len(Tail(rest)) = Len(rest) - 1
        /\ \A i \in 1 .. Len(Tail(rest)) : i + 1 \in 1 .. Len(rest) /\ Tail(rest)[i] = rest[i + 1]
    <3> HIDE DEF V, rest
    <3> QED
      BY <1>2, <1>4, Taken
  <2>2. \A i \in 1 .. Len(rest) : rest[i] # <<>>
    BY <1>1 DEF Addressed
  <2>3. 1 \in 1 .. Len(rest)
    BY <2>1
  <2>4. wave # <<>> /\ \A i \in 1 .. Len(Tail(rest)) : Tail(rest)[i] # <<>>
    <3> HIDE DEF rest
    <3> QED
      BY <2>1, <2>2, <2>3
  <2>5. j \in JobType /\ Addressed(j)
    <3>1. Tail(rest) \in Rests
      BY <2>1 DEF Rests
    <3> HIDE DEF rest
    <3> QED
      BY <1>2, <2>4, <3>1, AdvanceJobGood
  <2>6. u = [t EXCEPT !.pc = "offer", !.todo = wave, !.out = {j}]
    BY <1>4 DEF AfterExpiry
  <2> HIDE DEF j, wave, u, rest
  <2>7. /\ u \in TxType /\ u.pc = "offer" /\ u.job = t.job /\ u.out = {j} /\ u.charge = t.charge
        /\ u.todo = wave
    BY <1>1, <2>1, <2>5, <2>6 DEF TxType, Steps
  <2>8. GoodTx(u)
    BY <1>1, <2>4, <2>5, <2>7, GoingGood DEF Performs, Planning, Listing
  <2> QED
    BY <2>8 DEF u
<1> QED
  BY <1>3, <1>4

LEMMA PlanTyped ==
    ASSUME TypeInv, NEW w \in Workers, PlanWaves(w)
    PROVE  \E t : Typed(w, t)
<1> DEFINE s == tx[w]
           r == s.job.req
           eligible == Eligible(r)
           V == Seq(Providers)
<1>1. /\ GoodTx(s) /\ s \in TxType /\ s.pc = "plan" /\ r \in Requests
      /\ Addressed(s.job) /\ Performs(s) /\ \A j \in s.out : Addressed(j)
  BY Whom DEF TypeInv, PlanWaves, At, GoodTx, Planning
<1>2. UNCHANGED <<dbVars, queueVars>> /\ UNCHANGED locks /\ WorldTyped'
  <2>1. eligible \in SUBSET Providers
    BY <1>1, DispatchAssumption DEF Eligible
  <2>2. /\ planned' = [planned EXCEPT ![r] = eligible] /\ doubtful' = doubtful
        /\ UNCHANGED <<worldVars, bounds>>
    BY DEF PlanWaves, Req
  <2> HIDE DEF eligible, r
  <2>3. planned' \in [Requests -> SUBSET Providers]
    BY <2>1, <2>2 DEF TypeInv, WorldTyped
  <2>4. WorldTyped'
    BY <2>2, <2>3 DEF TypeInv, WorldTyped, worldVars, bounds
  <2> QED
    BY <2>4 DEF PlanWaves
<1>3. SUFFICES \E t : Goto(w, t) /\ GoodTx(t)
  BY <1>2 DEF Typed
<1>4. CASE eligible = {}
  <2> DEFINE t == [s EXCEPT !.pc = "unfill"]
  <2>1. Goto(w, t)
    BY <1>4 DEF PlanWaves, Req
  <2>2. t \in TxType /\ t.pc = "unfill" /\ t.job = s.job /\ t.out = s.out /\ t.charge = s.charge
    BY <1>1 DEF TxType, Steps
  <2> HIDE DEF t
  <2> QED
    BY <1>1, <2>1, <2>2, GoingGood DEF Performs, Planning, Listing
<1>5. CASE eligible # {}
  <2>1. PICK ranked \in Rankings(eligible) :
          LET waves == SplitIntoWaves(ColdStartFirst(ranked, Cold(eligible)), WaveSizes)
          IN  Goto(w, [s EXCEPT !.pc = "offer", !.todo = waves[1],
                                !.out = {AdvanceJob(r, 2, Tail(waves), s.job.att)}])
    BY <1>5 DEF PlanWaves, Req
  <2> DEFINE waves == SplitIntoWaves(ColdStartFirst(ranked, Cold(eligible)), WaveSizes)
             wave == Head(waves)
             n == s.job.att
             j == AdvanceJob(r, 2, Tail(waves), n)
             t == [s EXCEPT !.pc = "offer", !.todo = wave, !.out = {j}]
  <2>2. eligible \in SUBSET Providers /\ IsFiniteSet(eligible)
    BY <1>1, DispatchAssumption, FS_Subset DEF Eligible
  <2>3. /\ waves \in Seq(Seq(eligible)) /\ waves # <<>>
        /\ \A i \in 1 .. Len(waves) : waves[i] # <<>>
    <3> DEFINE cold == Cold(eligible)
    <3>1. ranked \in SetToSeqs(eligible) /\ WaveSizes \in Seq(Nat)
      BY DispatchAssumption DEF Rankings
    <3> HIDE DEF eligible, cold
    <3>2. LET c == ColdStartFirst(ranked, cold)
              v == SplitIntoWaves(c, WaveSizes)
          IN  /\ v \in Seq(Seq(eligible))
              /\ \A i \in 1 .. Len(v) : v[i] # <<>>
              /\ eligible # {} => v # <<>>
      BY <2>2, <3>1, PlanOnce
    <3> QED
      BY <1>5, <3>2 DEF cold
  <2>4. waves \in Seq(V)
    <3> HIDE DEF waves
    <3> QED
      BY <2>2, <2>3, WiderWaves
  <2>5. /\ wave \in V /\ Tail(waves) \in Seq(V) /\ wave = waves[1]
        /\ Len(waves) \in Nat \ {0} /\ Len(Tail(waves)) = Len(waves) - 1
        /\ \A i \in 1 .. Len(Tail(waves)) : i + 1 \in 1 .. Len(waves) /\ Tail(waves)[i] = waves[i + 1]
    <3> HIDE DEF V, waves
    <3> QED
      BY <2>3, <2>4, Taken
  <2>6. Goto(w, t)
    BY <2>1, <2>5
  <2>7. wave # <<>> /\ \A i \in 1 .. Len(Tail(waves)) : Tail(waves)[i] # <<>>
    <3>1. 1 \in 1 .. Len(waves)
      BY <2>5
    <3> HIDE DEF waves
    <3> QED
      BY <2>3, <2>5, <3>1
  <2>8. j \in JobType /\ Addressed(j)
    <3>1. Tail(waves) \in Rests
      BY <2>5 DEF Rests
    <3>2. n \in Nat
      BY <1>1, GoodFields, JobFields
    <3> HIDE DEF waves, r, n
    <3> QED
      BY <1>1, <2>7, <3>1, <3>2, AdvanceJobGood
  <2> HIDE DEF j, wave, waves, r, n
  <2>9. /\ t \in TxType /\ t.pc = "offer" /\ t.job = s.job /\ t.out = {j} /\ t.charge = s.charge
        /\ t.todo = wave
    BY <1>1, <2>5, <2>8 DEF TxType, Steps
  <2> HIDE DEF t
  <2> QED
    BY <1>1, <2>6, <2>7, <2>8, <2>9, GoingGood DEF Performs, Planning, Listing
<1> QED
  BY <1>4, <1>5

\* What the lemmas on the steps begin with.
LEMMA Running ==
    ASSUME TypeInv, NEW w \in Workers
    PROVE  /\ GoodTx(tx[w]) /\ tx[w] \in TxType
           /\ Addressed(tx[w].job) /\ Performs(tx[w]) /\ \A j \in tx[w].out : Addressed(j)
BY DEF TypeInv, GoodTx

LEMMA SendTyped ==
    ASSUME TypeInv, NEW w \in Workers, SendOffer(w)
    PROVE  \E t : Typed(w, t)
<1> DEFINE s == tx[w]
           p == Head(s.todo)
           t(st) == [s EXCEPT !.offers[p] = st, !.todo = Tail(@),
                              !.pc = IF Len(s.todo) = 1 THEN "commit" ELSE @]
<1>1. /\ GoodTx(s) /\ s \in TxType /\ Performs(s) /\ \A j \in s.out : Addressed(j)
      /\ s.pc = "offer"
  BY Running DEF SendOffer, At
<1>2. /\ s.job.req \in Requests /\ p \in Providers
      /\ s.todo \in Seq(Providers) /\ s.todo # <<>>
  BY <1>1, Whom DEF Planning, Listing
<1>3. Tail(s.todo) \in Seq(Providers) /\ (Len(s.todo) # 1 => Tail(s.todo) # <<>>)
  BY <1>2, Taken
<1>4. PICK st \in {"sent", "failed"} : Goto(w, t(st))
  BY DEF SendOffer
<1>5. GoodTx(t(st))
  <2> DEFINE u == t(st)
  <2>1. /\ u \in TxType /\ u.job = s.job /\ u.out = s.out /\ u.charge = s.charge
        /\ u.pc \in {"offer", "commit"} /\ u.todo = Tail(s.todo)
        /\ u.pc = "offer" => Len(s.todo) # 1
    BY <1>1, <1>2, <1>3, <1>4 DEF TxType, Steps, OfferStates
  <2> HIDE DEF u, t
  <2>2. GoodTx(u)
    BY <1>1, <1>3, <2>1, GoingGood DEF Performs, Planning, Listing
  <2> QED
    BY <2>2 DEF u
<1>6. OfferId(s.job) \in Ids
  BY <1>1, GoodFields, JobFields DEF Ids, OfferId
<1>7. [req |-> Req(w), prov |-> p, id |-> OfferId(s.job)]
          \in [req : Requests, prov : Providers, id : Ids]
  BY <1>2, <1>6 DEF Req
<1>8. WorldTyped'
  <2>1. \A b \in buttons' : b \in [req : Requests, prov : Providers, id : Ids]
    <3>1. \/ buttons' = buttons
          \/ buttons' = buttons \cup {[req |-> Req(w), prov |-> p, id |-> OfferId(s.job)]}
      BY DEF SendOffer
    <3> QED
      BY <1>7, <3>1 DEF TypeInv, WorldTyped
  <2>2. faults' \in Nat /\ UNCHANGED <<contacts, crashes, taps, planned, doubtful>>
    BY DEF SendOffer, TypeInv, WorldTyped, history
  <2> QED
    BY <2>1, <2>2 DEF TypeInv, WorldTyped
<1>9. UNCHANGED <<dbVars, queueVars>> /\ Acquire(w)
  BY DEF SendOffer
<1> HIDE DEF t
<1> QED
  BY <1>4, <1>5, <1>8, <1>9 DEF Typed

LEMMA CollectTyped ==
    ASSUME TypeInv, NEW w \in Workers, CollectUnanswered(w)
    PROVE  \E t : Typed(w, t)
<1> DEFINE s == tx[w]
           t(todo) == [s EXCEPT !.pc = "expire", !.todo = todo]
<1>1. /\ GoodTx(s) /\ s \in TxType /\ Performs(s) /\ \A j \in s.out : Addressed(j)
      /\ s.pc = "collect"
  BY Running DEF CollectUnanswered, At
<1>2. UNCHANGED <<dbVars, queueVars>> /\ UNCHANGED locks /\ WorldTyped'
  BY WorldStays DEF CollectUnanswered
<1>3. \/ Goto(w, AfterExpiry(s))
      \/ \E open \in SUBSET Providers : open # {} /\ \E todo \in SetToSeqs(open) : Goto(w, t(todo))
  <2> DEFINE open == {p \in Providers : /\ offer[Req(w)][p].st = "sent"
                                        /\ WaveOf(offer[Req(w)][p].id) = PrevWave(s.job)}
  <2>1. open \in SUBSET Providers
    OBVIOUS
  <2>2. IF open = {} THEN Goto(w, AfterExpiry(s)) ELSE \E todo \in SetToSeqs(open) : Goto(w, t(todo))
    BY DEF CollectUnanswered
  <2> HIDE DEF open
  <2> QED
    BY <2>1, <2>2
<1>4. GoodTx(AfterExpiry(s))
  BY <1>1, ExpiryGood DEF Planning
<1>5. ASSUME NEW open \in SUBSET Providers, open # {}, NEW todo \in SetToSeqs(open)
      PROVE  GoodTx(t(todo))
  <2> DEFINE u == t(todo)
  <2>1. todo \in Seq(Providers) /\ todo # <<>>
    BY <1>5, Listed
  <2>2. /\ u \in TxType /\ u.job = s.job /\ u.out = s.out /\ u.charge = s.charge
        /\ u.pc = "expire" /\ u.todo = todo
    BY <1>1, <2>1 DEF TxType, Steps
  <2> HIDE DEF u, t
  <2>3. GoodTx(u)
    BY <1>1, <2>1, <2>2, GoingGood DEF Performs, Planning, Listing
  <2> QED
    BY <2>3 DEF u
<1> HIDE DEF t
<1> QED
  BY <1>2, <1>3, <1>4, <1>5 DEF Typed

LEMMA ExpireTyped ==
    ASSUME TypeInv, NEW w \in Workers, ExpireOffer(w)
    PROVE  \E t : Typed(w, t)
<1> DEFINE s == tx[w]
           p == Head(s.todo)
           u == [s EXCEPT !.offers[p] = "expired"]
<1>1. /\ GoodTx(s) /\ s \in TxType /\ Performs(s) /\ \A j \in s.out : Addressed(j)
      /\ s.pc = "expire"
  BY Running DEF ExpireOffer, At
<1>2. p \in Providers /\ s.todo \in Seq(Providers) /\ s.todo # <<>>
  BY <1>1, Whom DEF Listing
<1>3. /\ Tail(s.todo) \in Seq(Providers) /\ (Len(s.todo) # 1 => Tail(s.todo) # <<>>)
      /\ Len(s.todo) \in Nat \ {0}
  BY <1>2, Taken
<1>4. UNCHANGED <<dbVars, queueVars>> /\ Acquire(w) /\ WorldTyped'
  BY WorldStays DEF ExpireOffer
<1>5. /\ u \in TxType /\ u.job = s.job /\ u.out = s.out /\ u.charge = s.charge
      /\ u.pc = s.pc /\ u.todo = s.todo /\ u.offers[p] = "expired"
  BY <1>1, <1>2 DEF TxType, OfferStates
<1>6. IF Len(u.todo) > 1
      THEN Goto(w, [u EXCEPT !.todo = Tail(@)])
      ELSE \E todo \in SetToSeqs({x \in Providers : u.offers[x] = "expired"}) :
             Goto(w, [u EXCEPT !.todo = todo, !.pc = "count"])
  BY DEF ExpireOffer
<1> HIDE DEF u
<1>7. \E todo \in Seq(Providers), pc \in {"expire", "count"} :
         todo # <<>> /\ Goto(w, [u EXCEPT !.todo = todo, !.pc = pc])
  <2>1. CASE Len(u.todo) > 1
    <3>1. [u EXCEPT !.todo = Tail(@)] = [u EXCEPT !.todo = Tail(s.todo), !.pc = "expire"]
      BY <1>1, <1>5 DEF TxType
    <3>2. Goto(w, [u EXCEPT !.todo = Tail(s.todo), !.pc = "expire"])
      BY <1>6, <2>1, <3>1
    <3>3. Tail(s.todo) \in Seq(Providers) /\ Tail(s.todo) # <<>>
      BY <1>3, <1>5, <2>1
    <3> DEFINE G(todo, pc) == Goto(w, [u EXCEPT !.todo = todo, !.pc = pc])
    <3>4. G(Tail(s.todo), "expire")
      BY <3>2
    <3> HIDE DEF G
    <3>5. \E todo \in Seq(Providers), pc \in {"expire", "count"} : todo # <<>> /\ G(todo, pc)
      BY <3>3, <3>4
    <3> QED
      BY <3>5 DEF G
  <2>2. CASE ~ (Len(u.todo) > 1)
    <3> DEFINE gone == {x \in Providers : u.offers[x] = "expired"}
    <3>1. gone \in SUBSET Providers /\ gone # {}
      BY <1>2, <1>5
    <3>2. PICK todo \in SetToSeqs(gone) : Goto(w, [u EXCEPT !.todo = todo, !.pc = "count"])
      BY <1>6, <2>2
    <3> HIDE DEF gone
    <3>3. todo \in Seq(Providers) /\ todo # <<>>
      BY <3>1, Listed
    <3> QED
      BY <3>2, <3>3
  <2> QED
    BY <2>1, <2>2
<1>8. PICK todo \in Seq(Providers), pc \in {"expire", "count"} :
         todo # <<>> /\ Goto(w, [u EXCEPT !.todo = todo, !.pc = pc])
  BY <1>7
<1> DEFINE t == [u EXCEPT !.todo = todo, !.pc = pc]
<1>9. /\ t \in TxType /\ t.job = s.job /\ t.out = s.out /\ t.charge = s.charge
      /\ t.pc = pc /\ t.todo = todo
  BY <1>5, <1>8 DEF TxType, Steps
<1>10. Goto(w, t)
  BY <1>8
<1> HIDE DEF t
<1>11. GoodTx(t)
  BY <1>1, <1>8, <1>9, GoingGood DEF Performs, Planning, Listing
<1> QED
  BY <1>4, <1>10, <1>11 DEF Typed

LEMMA SeenTyped ==
    ASSUME TypeInv, NEW p
    PROVE  Seen(p) \in [unanswered : Nat, available : BOOLEAN]
<1>1. Idle.seen \in [unanswered : Nat, available : BOOLEAN]
  BY DEF Idle
<1> QED
  BY <1>1 DEF Seen, TypeInv, TablesTyped

LEMMA CountTyped ==
    ASSUME TypeInv, NEW w \in Workers, CountUnanswered(w)
    PROVE  \E t : Typed(w, t)
<1> DEFINE s == tx[w]
           seen == Seen(Head(s.todo))
           t == [s EXCEPT !.seen = seen, !.pc = "bump"]
<1>1. /\ GoodTx(s) /\ s \in TxType /\ Performs(s) /\ \A j \in s.out : Addressed(j)
      /\ s.pc = "count"
  BY Running DEF CountUnanswered, At
<1>2. UNCHANGED <<dbVars, queueVars>> /\ UNCHANGED locks /\ WorldTyped' /\ Goto(w, t)
  BY WorldStays DEF CountUnanswered
<1>3. seen \in [unanswered : Nat, available : BOOLEAN]
  BY SeenTyped
<1> HIDE DEF seen
<1>4. /\ t \in TxType /\ t.job = s.job /\ t.out = s.out /\ t.charge = s.charge
      /\ t.pc = "bump" /\ t.todo = s.todo
  BY <1>1, <1>3 DEF TxType, Steps
<1> HIDE DEF t
<1>5. GoodTx(t)
  <2>1. s.todo # <<>>
    BY <1>1 DEF GoodTx, Listing
  <2> QED
    BY <1>1, <1>4, <2>1, GoingGood DEF Performs, Planning, Listing
<1> QED
  BY <1>2, <1>5 DEF Typed

LEMMA BumpTyped ==
    ASSUME TypeInv, NEW w \in Workers, BumpUnanswered(w)
    PROVE  \E t : Typed(w, t)
<1> DEFINE s == tx[w]
           p == Head(s.todo)
           n == s.seen.unanswered + 1
           off == n >= AutoOffThreshold /\ s.seen.available
           on(x) == IF off THEN "off" ELSE x
           u == [s EXCEPT !.unanswered[p] = n,
                          !.available[p] = IF off THEN "off" ELSE @,
                          !.todo = Tail(@),
                          !.pc = "count"]
<1>1. /\ GoodTx(s) /\ s \in TxType /\ Performs(s) /\ \A j \in s.out : Addressed(j)
      /\ s.pc = "bump"
  BY Running DEF BumpUnanswered, At
<1>2. p \in Providers /\ s.todo \in Seq(Providers) /\ s.todo # <<>>
  BY <1>1, Whom DEF Listing
<1>3. Tail(s.todo) \in Seq(Providers)
  BY <1>2, Taken
<1>4. UNCHANGED <<dbVars, queueVars>> /\ Acquire(w) /\ WorldTyped'
  BY WorldStays DEF BumpUnanswered
<1>5. Goto(w, IF u.todo = <<>> THEN AfterExpiry(u) ELSE u)
  BY DEF BumpUnanswered
<1>6. n \in Nat
  BY <1>1, GoodFields
<1> HIDE DEF n, off
<1>7. /\ u \in TxType /\ u.job = s.job /\ u.out = s.out /\ u.charge = s.charge
      /\ u.pc = "count"
  BY <1>1, <1>2, <1>3, <1>6 DEF TxType, Steps
<1> HIDE DEF u
<1>8. CASE u.todo = <<>>
  <2> DEFINE v == [u EXCEPT !.pc = "unfill"]
  <2>1. /\ v \in TxType /\ v.job = s.job /\ v.out = s.out /\ v.charge = s.charge
        /\ v.pc = "unfill"
    BY <1>7 DEF TxType, Steps
  <2>2. AfterExpiry(v) = AfterExpiry(u)
    BY <1>7 DEF AfterExpiry, TxType
  <2> HIDE DEF v
  <2>3. GoodTx(v)
    BY <1>1, <2>1, GoingGood DEF Performs, Planning, Listing
  <2>4. GoodTx(AfterExpiry(u))
    BY <2>1, <2>2, <2>3, ExpiryGood DEF Planning
  <2> QED
    BY <1>4, <1>5, <1>8, <2>4 DEF Typed
<1>9. CASE u.todo # <<>>
  <2>1. GoodTx(u)
    BY <1>1, <1>7, <1>9, GoingGood DEF Performs, Planning, Listing
  <2> QED
    BY <1>4, <1>5, <1>9, <2>1 DEF Typed
<1> QED
  BY <1>8, <1>9

\* The steps that take no list further.
LEMMA OtherTyped ==
    ASSUME TypeInv, NEW w \in Workers,
           \/ Unfill(w) \/ LockRequest(w) \/ DeclineOffer(w)
           \/ ReleaseToProvider(w) \/ ReleaseToCustomer(w) \/ ToggleAvailable(w)
           \/ GrantFree(w) \/ CountFree(w) \/ AdjustFree(w) \/ ResetUnanswered(w)
    PROVE  \E t : Typed(w, t)
<1> DEFINE s == tx[w]
           p == s.job.prov
<1> USE DEF At
<1>1. /\ GoodTx(s) /\ s \in TxType /\ Performs(s) /\ \A j \in s.out : Addressed(j)
  BY Running
<1>2. ASSUME NEW t, t \in TxType, t.job = s.job, t.out = s.out, t.charge = s.charge,
             t.pc \notin Listing, Performs(t)
      PROVE  GoodTx(t)
  BY <1>1, <1>2, GoingGood
<1>3. /\ free \in [Providers -> Int] /\ balance \in [Providers -> Int] /\ FreeCap \in Nat
      /\ request \in [Requests -> RequestStates]
  BY DispatchAssumption DEF TypeInv, TablesTyped
<1>4. CASE Unfill(w)
  <2> DEFINE t == [s EXCEPT !.request = "unfilled", !.pc = "commit"]
  <2>1. Goto(w, t) /\ UNCHANGED <<dbVars, queueVars>> /\ Acquire(w) /\ WorldTyped'
    BY <1>4, WorldStays DEF Unfill
  <2>2. /\ t \in TxType /\ t.job = s.job /\ t.out = s.out /\ t.charge = s.charge
        /\ t.pc = "commit"
    BY <1>1 DEF TxType, Steps, RequestStates
  <2> HIDE DEF t
  <2> QED
    BY <1>1, <1>2, <2>1, <2>2 DEF Performs, Planning, Listing, Typed
<1>5. CASE LockRequest(w)
  <2> DEFINE t(pc) == [s EXCEPT !.pc = pc]
  <2>1. /\ UNCHANGED <<dbVars, queueVars>> /\ Acquire(w) /\ WorldTyped' /\ s.pc = "lockRequest"
        /\ \E pc \in {"charge", "commit"} : Goto(w, t(pc))
    BY <1>5, WorldStays DEF LockRequest
  <2>2. PICK pc \in {"charge", "commit"} : Goto(w, t(pc))
    BY <2>1
  <2> DEFINE u == t(pc)
  <2>3. /\ u \in TxType /\ u.job = s.job /\ u.out = s.out /\ u.charge = s.charge /\ u.pc = pc
    BY <1>1, <2>2 DEF TxType, Steps
  <2>4. Goto(w, u)
    BY <2>2
  <2> HIDE DEF u, t
  <2> QED
    BY <1>1, <1>2, <2>1, <2>3, <2>4 DEF Performs, Planning, Listing, Typed
<1>6. CASE DeclineOffer(w)
  <2> DEFINE t == [s EXCEPT !.offers[p] = "declined", !.pc = "commit"]
  <2>1. Goto(w, t) /\ UNCHANGED <<dbVars, queueVars>> /\ Acquire(w) /\ WorldTyped'
    BY <1>6, WorldStays DEF DeclineOffer, Prov
  <2>2. /\ t \in TxType /\ t.job = s.job /\ t.out = s.out /\ t.charge = s.charge
        /\ t.pc = "commit"
    BY <1>1 DEF TxType, Steps, OfferStates
  <2> HIDE DEF t
  <2> QED
    BY <1>1, <1>2, <2>1, <2>2 DEF Performs, Planning, Listing, Typed
<1>7. CASE ReleaseToProvider(w) \/ ReleaseToCustomer(w)
  <2> DEFINE t(pc) == [s EXCEPT !.pc = pc]
  <2>1. /\ s.pc \in {"provider", "customer"} /\ UNCHANGED <<dbVars, queueVars, buttons, history, bounds>>
        /\ UNCHANGED locks
        /\ \/ \E to \in {"provider", "customer"} : contacts' = contacts \cup {<<s.job.req, p, to>>}
           \/ UNCHANGED contacts
        /\ \E pc \in {"customer", "commit"} :
              Goto(w, t(pc)) /\ (pc = "customer" => s.pc = "provider")
    BY <1>7 DEF ReleaseToProvider, ReleaseToCustomer, Delivered, Req, Prov
  <2>2. PICK pc \in {"customer", "commit"} : Goto(w, t(pc)) /\ (pc = "customer" => s.pc = "provider")
    BY <2>1
  <2>3. s.job.req \in Requests /\ p \in Providers
    BY <1>1, <2>1, Whom
  <2>4. WorldTyped'
    BY <2>1, <2>3 DEF TypeInv, WorldTyped, history, bounds
  <2> DEFINE u == t(pc)
  <2>5. /\ u \in TxType /\ u.job = s.job /\ u.out = s.out /\ u.charge = s.charge /\ u.pc = pc
    BY <1>1, <2>2 DEF TxType, Steps
  <2>6. Goto(w, u)
    BY <2>2
  <2> HIDE DEF u, t
  <2> QED
    BY <1>1, <1>2, <2>1, <2>4, <2>5, <2>6 DEF Performs, Planning, Listing, Typed
<1>8. CASE ToggleAvailable(w)
  <2> DEFINE t(av, un) == [s EXCEPT !.available[p] = av, !.unanswered[p] = un, !.pc = "commit"]
  <2>1. /\ UNCHANGED <<dbVars, queueVars>> /\ Acquire(w) /\ WorldTyped'
        /\ \E av \in {Keep, "on", "off"}, un \in {0, Unset} : Goto(w, t(av, un))
    <3> DEFINE on == s.job.kind = "available"
               av == IF on = s.seen.available THEN Keep ELSE IF on THEN "on" ELSE "off"
               un == Forgotten(on, s.seen.unanswered)
    <3>1. Goto(w, t(av, un)) /\ UNCHANGED <<dbVars, queueVars>> /\ Acquire(w) /\ WorldTyped'
      BY <1>8, WorldStays DEF ToggleAvailable, Prov
    <3>2. av \in {Keep, "on", "off"} /\ un \in {0, Unset}
      BY DEF Forgotten
    <3> HIDE DEF av, un, t
    <3> QED
      BY <3>1, <3>2
  <2>2. PICK av \in {Keep, "on", "off"}, un \in {0, Unset} : Goto(w, t(av, un))
    BY <2>1
  <2> DEFINE u == t(av, un)
  <2>3. un \in Nat \cup {Unset}
    BY <2>2
  <2>4. /\ u \in TxType /\ u.job = s.job /\ u.out = s.out /\ u.charge = s.charge
        /\ u.pc = "commit"
    BY <1>1, <2>2, <2>3 DEF TxType, Steps
  <2>5. Goto(w, u)
    BY <2>2
  <2> HIDE DEF u, t
  <2> QED
    BY <1>1, <1>2, <2>1, <2>4, <2>5 DEF Performs, Planning, Listing, Typed
<1>9. CASE GrantFree(w)
  <2> DEFINE e == FreeCap
             t == [s EXCEPT !.entry = e, !.pc = "commit"]
  <2>1. Goto(w, t) /\ UNCHANGED <<dbVars, queueVars>> /\ UNCHANGED locks /\ WorldTyped'
    BY <1>9, WorldStays DEF GrantFree
  <2>2. e \in Int
    BY <1>3
  <2> HIDE DEF e
  <2>3. /\ t \in TxType /\ t.job = s.job /\ t.out = s.out /\ t.charge = s.charge
        /\ t.pc = "commit"
    BY <1>1, <2>2 DEF TxType, Steps
  <2> HIDE DEF t
  <2> QED
    BY <1>1, <1>2, <2>1, <2>3 DEF Performs, Planning, Listing, Typed
<1>10. CASE CountFree(w)
  <2> DEFINE t(pc) == [s EXCEPT !.remainder = free[p], !.pc = pc]
  <2>1. /\ UNCHANGED <<dbVars, queueVars>> /\ UNCHANGED locks /\ WorldTyped' /\ s.pc = "remainder"
        /\ \E pc \in {"adjust", "commit"} : Goto(w, t(pc))
    BY <1>10, WorldStays DEF CountFree, Prov
  <2>2. PICK pc \in {"adjust", "commit"} : Goto(w, t(pc))
    BY <2>1
  <2>3. free[p] \in Int
    BY <1>1, <1>3, <2>1, Whom
  <2> DEFINE u == t(pc)
  <2>4. /\ u \in TxType /\ u.job = s.job /\ u.out = s.out /\ u.charge = s.charge /\ u.pc = pc
    BY <1>1, <2>2, <2>3 DEF TxType, Steps
  <2>5. Goto(w, u)
    BY <2>2
  <2> HIDE DEF u, t
  <2> QED
    BY <1>1, <1>2, <2>1, <2>4, <2>5 DEF Performs, Planning, Listing, Typed
<1>11. CASE AdjustFree(w)
  <2> DEFINE n == Removable(p, s.remainder)
             e == IF n > 0 THEN - n ELSE 0
             t == [s EXCEPT !.entry = e, !.pc = "commit"]
  <2>1. /\ Goto(w, t) /\ UNCHANGED <<dbVars, queueVars>> /\ UNCHANGED locks /\ WorldTyped'
        /\ s.pc = "adjust"
    BY <1>11, WorldStays DEF AdjustFree, Prov
  <2>2. n \in Int
    BY <1>1, <1>3, <2>1, Whom, GoodFields DEF Removable
  <2>3. e \in Int
    BY <2>2
  <2> HIDE DEF e
  <2>4. /\ t \in TxType /\ t.job = s.job /\ t.out = s.out /\ t.charge = s.charge
        /\ t.pc = "commit"
    BY <1>1, <2>3 DEF TxType, Steps
  <2> HIDE DEF t
  <2> QED
    BY <1>1, <1>2, <2>1, <2>4 DEF Performs, Planning, Listing, Typed
<1>12. CASE ResetUnanswered(w)
  <2> DEFINE un == IF s.seen.unanswered = 0 THEN s.unanswered[p] ELSE 0
             pc == AfterReset(s.job)
             t == [s EXCEPT !.unanswered[p] = un, !.pc = pc]
  <2>1. /\ Goto(w, [s EXCEPT !.unanswered[p] = IF s.seen.unanswered = 0 THEN @ ELSE 0, !.pc = pc])
        /\ UNCHANGED <<dbVars, queueVars>> /\ Acquire(w) /\ WorldTyped' /\ s.pc = "reset"
    BY <1>12, WorldStays DEF ResetUnanswered, Prov
  <2>2. Goto(w, t)
    <3>1. [s EXCEPT !.unanswered[p] = IF s.seen.unanswered = 0 THEN @ ELSE 0, !.pc = pc] = t
      BY <1>1 DEF TxType
    <3> QED
      BY <2>1, <3>1
  <2>3. un \in Nat \cup {Unset} /\ pc \in {"decline", "commit"} /\ (pc = "decline" => s.job.kind = "decline")
    <3>1. p \in Providers
      BY <1>1, <2>1, Whom
    <3>2. s.unanswered[p] \in Nat \cup {Unset}
      BY <1>1, <3>1, GoodFields
    <3> QED
      BY <3>2 DEF AfterReset
  <2> HIDE DEF un, pc
  <2>4. /\ t \in TxType /\ t.job = s.job /\ t.out = s.out /\ t.charge = s.charge /\ t.pc = pc
    BY <1>1, <2>3 DEF TxType, Steps
  <2> HIDE DEF t
  <2> QED
    BY <1>1, <1>2, <2>1, <2>2, <2>3, <2>4 DEF Performs, Planning, Listing, Typed
<1> QED
  BY <1>4, <1>5, <1>6, <1>7, <1>8, <1>9, <1>10, <1>11, <1>12

-----------------------------------------------------------------------------

LEMMA WithdrawTyped ==
    ASSUME TypeInv, NEW w \in Workers, WithdrawOffer(w)
    PROVE  \E t : Typed(w, t)
<1> DEFINE s == tx[w]
           q == Head(s.todo)
           st == IF Withdrawable(offer[s.job.req][q]) THEN "withdrawn" ELSE s.offers[q]
           pc == IF Len(s.todo) = 1 THEN "reset" ELSE "withdraw"
           t == [s EXCEPT !.offers[q] = st, !.todo = Tail(s.todo), !.pc = pc]
<1>1. /\ GoodTx(s) /\ s \in TxType /\ Performs(s) /\ \A j \in s.out : Addressed(j)
      /\ s.pc = "withdraw"
  BY Running DEF WithdrawOffer, At
<1>2. q \in Providers /\ s.todo \in Seq(Providers) /\ s.todo # <<>>
  BY <1>1, Whom DEF Listing
<1>3. Tail(s.todo) \in Seq(Providers) /\ (Len(s.todo) # 1 => Tail(s.todo) # <<>>)
  BY <1>2, Taken
<1>4. UNCHANGED <<dbVars, queueVars>> /\ Acquire(w) /\ WorldTyped'
  BY WorldStays DEF WithdrawOffer
<1>5. Goto(w, t)
  <2>1. Goto(w, [s EXCEPT !.offers[q] = IF Withdrawable(offer[s.job.req][q]) THEN "withdrawn" ELSE @,
                          !.todo = Tail(@),
                          !.pc = IF Len(s.todo) = 1 THEN "reset" ELSE @])
    BY DEF WithdrawOffer, Req
  <2>2. [s EXCEPT !.offers[q] = IF Withdrawable(offer[s.job.req][q]) THEN "withdrawn" ELSE @,
                  !.todo = Tail(@),
                  !.pc = IF Len(s.todo) = 1 THEN "reset" ELSE @] = t
    BY <1>1, <1>2 DEF TxType
  <2> QED
    BY <2>1, <2>2
<1>6. st \in {Keep} \cup OfferStates /\ pc \in {"reset", "withdraw"} /\ (pc = "withdraw" => Len(s.todo) # 1)
  <2>1. s.offers[q] \in {Keep} \cup OfferStates
    BY <1>1, <1>2, GoodFields
  <2> QED
    BY <2>1 DEF OfferStates
<1> HIDE DEF st, pc
<1>7. /\ t \in TxType /\ t.job = s.job /\ t.out = s.out /\ t.charge = s.charge
      /\ t.pc = pc /\ t.todo = Tail(s.todo)
  BY <1>1, <1>2, <1>3, <1>6 DEF TxType, Steps
<1> HIDE DEF t
<1>8. GoodTx(t)
  BY <1>1, <1>3, <1>6, <1>7, GoingGood DEF Performs, Planning, Listing
<1> QED
  BY <1>4, <1>5, <1>8 DEF Typed

LEMMA ChargeTyped ==
    ASSUME TypeInv, NEW w \in Workers, Charge(w)
    PROVE  \E t : Typed(w, t)
<1> DEFINE s == tx[w]
           r == s.job.req
           p == s.job.prov
           others == {q \in Providers \ {p} : offer[r][q].st = "sent"}
           jobsOut == {NoticeJob("release", r, p), NoticeJob("notify", r, NoProvider)}
                          \cup (IF balance[p] - 1 <= LowBalance
                                THEN {NoticeJob("warn", r, p)} ELSE {})
           pc == IF others = {} THEN "reset" ELSE "withdraw"
           t(todo) == [s EXCEPT !.charge = TRUE,
                                !.offers[p] = "accepted",
                                !.request = "assigned",
                                !.todo = todo,
                                !.out = jobsOut,
                                !.pc = pc]
<1>1. /\ GoodTx(s) /\ s \in TxType /\ Performs(s) /\ \A j \in s.out : Addressed(j)
      /\ s.pc = "charge"
  BY Running DEF Charge, At
<1>2. r \in Requests /\ p \in Providers
  BY <1>1, Whom
<1>3. UNCHANGED <<dbVars, queueVars>> /\ UNCHANGED locks /\ WorldTyped'
  BY WorldStays DEF Charge
<1>4. CASE ~ CanPay(p)
  <2> DEFINE u == [s EXCEPT !.pc = "commit"]
  <2>1. Goto(w, u)
    BY <1>4 DEF Charge, Prov
  <2>2. u \in TxType /\ u.pc = "commit" /\ u.job = s.job /\ u.out = s.out /\ u.charge = s.charge
    BY <1>1 DEF TxType, Steps
  <2> HIDE DEF u
  <2>3. GoodTx(u)
    BY <1>1, <2>2, GoingGood DEF Performs, Planning, Listing
  <2> QED
    BY <1>3, <2>1, <2>3 DEF Typed
<1>5. CASE CanPay(p)
  <2>1. PICK todo \in SetToSeqs(others) : Goto(w, t(todo))
    BY <1>5 DEF Charge, Req, Prov, AcceptedRequest
  <2>2. todo \in Seq(Providers) /\ (others # {} => todo # <<>>)
    <3>1. others \in SUBSET Providers
      OBVIOUS
    <3> HIDE DEF others
    <3> QED
      BY <2>1, <3>1, Listed
  <2>3. jobsOut \in SUBSET JobType /\ \A j \in jobsOut : Addressed(j)
    <3> HIDE DEF r, p
    <3>1. \A j \in {NoticeJob("release", r, p), NoticeJob("notify", r, NoProvider), NoticeJob("warn", r, p)} :
             j \in JobType /\ Addressed(j)
      BY <1>2, NoticeJobGood
    <3> QED
      BY <3>1
  <2>4. pc \in {"reset", "withdraw"} /\ (pc = "withdraw" => todo # <<>>)
    BY <2>2
  <2> DEFINE u == t(todo)
  <2>5. Goto(w, u)
    BY <2>1
  <2> HIDE DEF jobsOut, pc, others
  <2>6. /\ u \in TxType /\ u.pc = pc /\ u.job = s.job /\ u.out = jobsOut /\ u.charge = TRUE
        /\ u.todo = todo
    BY <1>1, <2>2, <2>3, <2>4 DEF TxType, Steps, OfferStates, RequestStates
  <2> HIDE DEF u, t
  <2>7. GoodTx(u)
    BY <1>1, <2>3, <2>4, <2>6, GoingGood DEF Performs, Planning, Listing
  <2> QED
    BY <1>3, <2>5, <2>7 DEF Typed
<1> QED
  BY <1>4, <1>5

-----------------------------------------------------------------------------

\* The end of a transaction, whether or not its writes are kept.
LEMMA PutDownTyped ==
    ASSUME TypeInv, NEW w \in Workers, Goto(w, Idle), Unlock(w),
           Queue' \subseteq Queue \cup {tx[w].job} \cup tx[w].out, TablesTyped', WorldTyped'
    PROVE  TypeInv'
<1>1. GoodTx(Idle) /\ Idle \in TxType
  BY IdleGood DEF GoodTx
<1>2. tx' \in [Workers -> TxType] /\ \A v \in Workers : tx'[v] = IF v = w THEN Idle ELSE tx[v]
  BY <1>1 DEF Goto, TypeInv
<1>3. \A l \in locks' : l \in Lock
  BY LocksTyped
<1>4. \A j \in Queue' : j \in JobType /\ Addressed(j)
  BY Running, GoodFields DEF TypeInv
<1> QED
  BY <1>1, <1>2, <1>3, <1>4 DEF TypeInv

LEMMA RollBackTyped ==
    ASSUME TypeInv, NEW w \in Workers, RollBack(w), UNCHANGED <<dbVars, lost>>, WorldTyped'
    PROVE  TypeInv'
<1>1. Queue' \subseteq Queue \cup {tx[w].job}
  BY DEF RollBack, Queue
<1>2. TablesTyped'
  BY DEF TypeInv, TablesTyped, dbVars
<1> QED
  BY <1>1, <1>2, PutDownTyped DEF RollBack

LEMMA CrashTyped ==
    ASSUME TypeInv, NEW w \in Workers, Crash(w)
    PROVE  TypeInv'
<1>1. Queue' \subseteq Queue \cup {tx[w].job}
  BY DEF Crash, Queue
<1>2. TablesTyped'
  BY DEF Crash, TypeInv, TablesTyped, dbVars
<1>3. WorldTyped'
  BY DEF Crash, TypeInv, WorldTyped, worldVars, history
<1> QED
  BY <1>1, <1>2, <1>3, PutDownTyped DEF Crash

LEMMA LockOfferTyped ==
    ASSUME TypeInv, NEW w \in Workers, LockOffer(w)
    PROVE  TypeInv'
<1> DEFINE s == tx[w]
           t(pc) == [s EXCEPT !.pc = pc]
<1>1. /\ GoodTx(s) /\ s \in TxType /\ Performs(s) /\ \A j \in s.out : Addressed(j)
      /\ s.pc = "lockOffer"
  BY Running DEF LockOffer, At
<1>2. WorldTyped' /\ UNCHANGED <<dbVars, lost>>
  BY WorldStays DEF LockOffer
<1>3. CASE RollBack(w)
  BY <1>2, <1>3, RollBackTyped
<1>4. CASE /\ Acquire(w) /\ UNCHANGED <<jobs, dead>>
           /\ \E pc \in {"lockRequest", "commit"} : Goto(w, t(pc))
  <2>1. PICK pc \in {"lockRequest", "commit"} : Goto(w, t(pc))
    BY <1>4
  <2> DEFINE u == t(pc)
  <2>2. Goto(w, u)
    BY <2>1
  <2>3. /\ u \in TxType /\ u.pc = pc /\ u.job = s.job /\ u.out = s.out /\ u.charge = s.charge
    BY <1>1, <2>1 DEF TxType, Steps
  <2> HIDE DEF u, t
  <2>4. GoodTx(u)
    BY <1>1, <2>1, <2>3, GoingGood DEF Performs, Planning, Listing
  <2>5. Typed(w, u)
    BY <1>2, <1>4, <2>2, <2>4 DEF Typed, queueVars
  <2> QED
    BY <2>5, TypedStep
<1> QED
  BY <1>3, <1>4 DEF LockOffer

LEMMA ClaimTyped ==
    ASSUME TypeInv, NEW w \in Workers, NEW j, Claim(w, j)
    PROVE  TypeInv'
<1> DEFINE mine == [j EXCEPT !.att = @ + 1]
           seen == Seen(mine.prov)
           pc == FirstStep(mine)
           t == [Idle EXCEPT !.pc = pc, !.job = mine, !.seen = seen]
<1>1. /\ j \in jobs /\ jobs' = jobs \ {j} /\ Goto(w, t)
      /\ UNCHANGED <<dbVars, dead, lost, worldVars, locks, history, bounds>>
  BY DEF Claim
<1>2. j \in JobType /\ Addressed(j)
  BY <1>1 DEF TypeInv, Queue
<1>3. /\ mine \in JobType /\ mine.kind = j.kind /\ mine.req = j.req /\ mine.prov = j.prov
      /\ mine.rest = j.rest
  BY <1>2, JobFields
<1>4. seen \in [unanswered : Nat, available : BOOLEAN]
  BY SeenTyped
<1>5. /\ pc \in Steps \ Listing
      /\ pc \in Planning => mine.kind \in Drivers
      /\ pc \in {"lockOffer", "lockRequest", "charge", "withdraw"} => mine.kind = "accept"
      /\ pc = "reset" => mine.kind = "decline"
      /\ pc # "decline" /\ pc # "customer" /\ pc # "adjust"
      /\ pc = "provider" => mine.kind = "release"
      /\ pc = "toggle" => mine.kind \in {"available", "off"}
      /\ pc = "grant" => mine.kind = "grant"
      /\ pc = "remainder" => mine.kind = "remove"
  <2> HIDE DEF mine
  <2> QED
    BY DEF FirstStep, Steps, Listing, Planning, Drivers
<1>6. Addressed(mine)
  BY <1>2, <1>3 DEF Addressed
<1> HIDE DEF mine, seen, pc
<1>7. /\ t \in TxType /\ t.pc = pc /\ t.job = mine /\ t.out = {} /\ t.charge = FALSE
  <2>1. Idle \in TxType /\ Idle.out = {} /\ Idle.charge = FALSE
    BY IdleGood DEF GoodTx, Idle
  <2> QED
    BY <1>3, <1>4, <1>5, <2>1 DEF TxType
<1> HIDE DEF t
<1>8. GoodTx(t)
  BY <1>5, <1>6, <1>7 DEF GoodTx, Performs
<1>9. tx' \in [Workers -> TxType] /\ \A v \in Workers : tx'[v] = IF v = w THEN t ELSE tx[v]
  BY <1>1, <1>7 DEF Goto, TypeInv
<1>10. TablesTyped' /\ WorldTyped' /\ Queue' \subseteq Queue /\ locks' = locks
  BY <1>1, WorldStays DEF TypeInv, TablesTyped, dbVars, Queue
<1> QED
  BY <1>8, <1>9, <1>10 DEF TypeInv

LEMMA EffectTyped ==
    ASSUME TypeInv, NEW w \in Workers, TakeEffect(w), WorldTyped',
           Queue' \subseteq Queue \cup tx[w].out \cup {tx[w].job}
    PROVE  TypeInv'
<1> DEFINE t == tx[w]
           r == t.job.req
           p == t.job.prov
           id == OfferId(t.job)
<1>1. /\ GoodTx(t) /\ t \in TxType
  BY Running
<1>2. /\ t.request \in {Keep} \cup RequestStates
      /\ t.offers \in [Providers -> {Keep} \cup OfferStates]
      /\ t.unanswered \in [Providers -> Nat \cup {Unset}]
      /\ t.charge \in BOOLEAN /\ t.entry \in Int
      /\ id \in Ids
  BY <1>1, GoodFields, JobFields DEF Ids, OfferId
<1>3. t.charge => r \in Requests /\ p \in Providers
  BY <1>1, Whom
<1>4. Entries(t) \in Int
  BY <1>2 DEF Entries
<1>5. TablesTyped
  BY DEF TypeInv
<1>6. request' \in [Requests -> RequestStates]
  BY <1>2, <1>5 DEF TakeEffect, TablesTyped, Merge, Req
<1>7. offer' \in [Requests -> [Providers -> [st : OfferStates, id : Ids]]]
  <2>1. ASSUME NEW old \in [st : OfferStates, id : Ids], NEW x \in Providers
        PROVE  WriteOffer(old, t, x) \in [st : OfferStates, id : Ids]
    <3> HIDE DEF id, t
    <3>1. t.offers[x] # Keep => t.offers[x] \in OfferStates
      BY <1>2
    <3> QED
      BY <1>2, <3>1 DEF WriteOffer, id
  <2>2. \A q \in Requests : offer[q] \in [Providers -> [st : OfferStates, id : Ids]]
    BY <1>5 DEF TablesTyped
  <2>3. offer' = [q \in Requests |->
               IF q = r THEN [x \in Providers |-> WriteOffer(offer[q][x], t, x)]
               ELSE offer[q]]
    BY DEF TakeEffect, Req
  <2> HIDE DEF t, r, id
  <2>4. \A q \in Requests : [x \in Providers |-> WriteOffer(offer[q][x], t, x)]
                               \in [Providers -> [st : OfferStates, id : Ids]]
    BY <2>1, <2>2
  <2> QED
    BY <2>2, <2>3, <2>4
<1>8. assigned' \subseteq Requests \X Providers
  BY <1>3, <1>5 DEF TakeEffect, TablesTyped, Req, Prov
<1>9. debits' \in [Requests -> [Providers -> Nat]]
  <2>1. CASE t.charge
    <3>1. debits' = [debits EXCEPT ![r][p] = @ + 1]
      BY <2>1 DEF TakeEffect, Req, Prov
    <3> HIDE DEF r, p
    <3> QED
      BY <1>3, <1>5, <2>1, <3>1 DEF TablesTyped
  <2>2. CASE ~ t.charge
    BY <1>5, <2>2 DEF TakeEffect, TablesTyped
  <2> QED
    BY <1>2, <2>1, <2>2
<1>10. balance' \in [Providers -> Int] /\ free' \in [Providers -> Int]
  <2> DEFINE e == Entries(t)
             n == t.entry
  <2>1. /\ balance' = [x \in Providers |-> IF x = p THEN balance[x] + e ELSE balance[x]]
        /\ free' = [x \in Providers |-> IF x = p THEN free[x] + n ELSE free[x]]
    BY DEF TakeEffect, Prov
  <2>2. e \in Int /\ n \in Int
    BY <1>2, <1>4
  <2> HIDE DEF e, n
  <2> QED
    BY <1>5, <2>1, <2>2 DEF TablesTyped
<1>11. unanswered' \in [Providers -> Nat] /\ available' \subseteq Providers
  <2>1. unanswered' = [x \in Providers |-> IF t.unanswered[x] = Unset THEN unanswered[x] ELSE t.unanswered[x]]
    BY DEF TakeEffect
  <2>2. available' \subseteq Providers
    BY DEF TakeEffect
  <2> QED
    BY <1>2, <1>5, <2>1, <2>2 DEF TablesTyped
<1>12. TablesTyped'
  BY <1>6, <1>7, <1>8, <1>9, <1>10, <1>11 DEF TablesTyped
<1>13. Goto(w, Idle) /\ Unlock(w)
  BY DEF TakeEffect
<1> QED
  BY <1>12, <1>13, PutDownTyped

LEMMA CommitTyped ==
    ASSUME TypeInv, NEW w \in Workers, Commit(w) \/ LoseAck(w)
    PROVE  TypeInv'
<1>1. TakeEffect(w)
  BY DEF Commit, LoseAck
<1>2. Queue' \subseteq Queue \cup tx[w].out \cup {tx[w].job}
  BY DEF Commit, LoseAck, Queue
<1>3. WorldTyped'
  <2>1. CASE Commit(w)
    BY <2>1, WorldStays DEF Commit
  <2>2. CASE LoseAck(w)
    BY <2>2 DEF LoseAck, TypeInv, WorldTyped, worldVars
  <2> QED
    BY <2>1, <2>2
<1> QED
  BY <1>1, <1>2, <1>3, EffectTyped

LEMMA ArriveTyped ==
    ASSUME TypeInv, NEW j, Arrive(j), j \in JobType, Addressed(j)
    PROVE  TypeInv'
<1>1. TablesTyped' /\ WorldTyped' /\ UNCHANGED <<tx, locks>> /\ Queue' \subseteq Queue \cup {j}
  BY DEF Arrive, TypeInv, TablesTyped, WorldTyped, dbVars, worldVars, history, Queue
<1> QED
  BY <1>1 DEF TypeInv

LEMMA TypeInit == ASSUME Init PROVE TypeInv
<1>1. TablesTyped
  BY DispatchAssumption DEF Init, TablesTyped, RequestStates, NoOffer, OfferStates, Ids
<1>2. WorldTyped
  BY DEF Init, WorldTyped
<1>3. \A j \in Queue : j \in JobType /\ Addressed(j)
  BY DispatchJobGood DEF Init, Queue
<1>4. GoodTx(Idle) /\ Idle \in TxType
  BY IdleGood DEF GoodTx
<1>5. tx = [w \in Workers |-> Idle] /\ locks = {}
  BY DEF Init
<1> QED
  BY <1>1, <1>2, <1>3, <1>4, <1>5 DEF TypeInv

LEMMA TypeStep == ASSUME TypeInv, [Next]_vars PROVE TypeInv'
<1>1. ASSUME NEW w \in Workers, Step(w) PROVE TypeInv'
  <2>1. CASE \E j \in jobs : Claim(w, j)
    BY <2>1, ClaimTyped
  <2>2. CASE Commit(w)
    BY <2>2, CommitTyped
  <2>3. CASE BreakDeadlock(w) \/ RefuseOffer(w)
    BY <2>3, RollBackTyped, WorldStays DEF BreakDeadlock, RefuseOffer
  <2>4. CASE LockOffer(w)
    BY <2>4, LockOfferTyped
  <2>5. CASE \/ PlanWaves(w) \/ SendOffer(w) \/ CollectUnanswered(w) \/ ExpireOffer(w)
             \/ CountUnanswered(w) \/ BumpUnanswered(w) \/ Charge(w) \/ WithdrawOffer(w)
    BY <2>5, PlanTyped, SendTyped, CollectTyped, ExpireTyped, CountTyped, BumpTyped, ChargeTyped,
       WithdrawTyped, TypedStep
  <2>6. CASE \/ Unfill(w) \/ LockRequest(w) \/ DeclineOffer(w)
             \/ ReleaseToProvider(w) \/ ReleaseToCustomer(w) \/ ToggleAvailable(w)
             \/ GrantFree(w) \/ CountFree(w) \/ AdjustFree(w) \/ ResetUnanswered(w)
    BY <2>6, OtherTyped, TypedStep
  <2> QED
    BY <1>1, <2>1, <2>2, <2>3, <2>4, <2>5, <2>6 DEF Step
<1>2. ASSUME NEW w \in Workers, Fault(w) PROVE TypeInv'
  <2>1. WorldTyped'
    BY <1>2 DEF Fault, TypeInv, WorldTyped, worldVars, history
  <2> QED
    BY <1>2, <2>1, RollBackTyped DEF Fault
<1>3. ASSUME NEW w \in Workers, LoseAck(w) \/ Crash(w) PROVE TypeInv'
  BY <1>3, CommitTyped, CrashTyped
<1>4. ASSUME NEW b \in buttons, NEW kind \in {"accept", "decline"}, Tap(b, kind) PROVE TypeInv'
  <2> DEFINE j == TapJob(kind, b, taps + 1)
  <2>1. b \in [req : Requests, prov : Providers, id : Ids] /\ taps + 1 \in Nat
    BY DEF TypeInv, WorldTyped
  <2>2. j \in JobType /\ Addressed(j)
    BY <2>1, TapJobGood
  <2>3. Arrive(j)
    BY <1>4 DEF Tap
  <2> HIDE DEF j
  <2> QED
    BY <2>2, <2>3, ArriveTyped
<1>5. ASSUME NEW p \in Providers, NEW kind \in Commands, Command(p, kind) PROVE TypeInv'
  <2> DEFINE j == CommandJob(kind, p, taps + 1)
  <2>1. taps + 1 \in Nat
    BY DEF TypeInv, WorldTyped
  <2>2. j \in JobType /\ Addressed(j)
    BY <2>1, CommandJobGood
  <2>3. Arrive(j)
    BY <1>5 DEF Command
  <2> HIDE DEF j
  <2> QED
    BY <2>2, <2>3, ArriveTyped
<1>6. CASE UNCHANGED vars
  BY <1>6 DEF vars, dbVars, queueVars, worldVars, history, bounds, TypeInv, TablesTyped, WorldTyped, Queue
<1> QED
  BY <1>1, <1>2, <1>3, <1>4, <1>5, <1>6 DEF Next

LEMMA TypeInvariant == Spec => []TypeInv
BY TypeInit, TypeStep, PTL DEF Spec

\* TypeOK, for any number of workers: whatever interleaving of handlers,
\* retries, deaths and taps brought it about, every row, job, lock and pending
\* write is one the code can make, no wave that is being offered is empty, and
\* a handler only takes steps of its own.
THEOREM TypesHold == Spec => []TypeOK
<1>1. TypeInv => TypeOK
  BY TypeInvIsEnough
<1> QED
  BY <1>1, TypeInvariant, PTL

=============================================================================
