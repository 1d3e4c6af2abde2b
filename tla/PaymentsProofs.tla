--------------------------- MODULE PaymentsProofs ---------------------------
(***************************************************************************)
(* Proofs about Payments, for any workers, payments, callbacks, failures,  *)
(* lost answers and deaths: confirm_payment settles a payment once, no row *)
(* says other than MTN does, what goes unrecorded has a failure to blame,  *)
(* no callback is forgotten, and a payment is credited once unless a poll  *)
(* overtook another run, which takes polls and a second worker.            *)
(*                                                                         *)
(* The argument is that of two-phase locking: what a worker knows of a row *)
(* stays true as long as it holds the row (Written, Confirming), or has    *)
(* drawn a reference nobody else has seen (ToppingUp, OwnReference), and a *)
(* step of another worker disturbs neither (UndisturbedSound).             *)
(***************************************************************************)
EXTENDS Payments, FiniteSetTheorems, TLAPS

USE PaymentsAssumption

-----------------------------------------------------------------------------
(* Types                                                                   *)

LEMMA IdleType == Idle \in TxType
BY DEF Idle, TxType, Job, JobType, Keep

LEMMA JobsType ==
    ASSUME NEW p \in Payments, NEW n \in Nat, NEW b \in {"first", "default"}
    PROVE  /\ TopUpJob(b, n) \in JobType
           /\ ConfirmJob(p, n) \in JobType
           /\ PollJob \in JobType
BY DEF TopUpJob, ConfirmJob, PollJob, Job, JobType

LEMMA VerdictType ==
    ASSUME NEW status
    PROVE Verdict(status) \in {Keep, "succeeded", "failed"}
BY DEF Verdict

LEMMA GotoType ==
    ASSUME TypeOK, NEW w \in Workers, NEW t \in TxType, Goto(w, t)
    PROVE  /\ tx' \in [Workers -> TxType]
           /\ tx'[w] = t
           /\ \A v \in Workers \ {w} : tx'[v] = tx[v]
BY DEF TypeOK, Goto

LEMMA ClaimType ==
    ASSUME TypeOK, NEW w \in Workers, NEW j \in jobs, Claim(w, j)
    PROVE  TypeOK'
<1>1. [j EXCEPT !.att = @ + 1] \in JobType
  BY DEF TypeOK, JobType
<1>2. FirstStep(j) \in {"choose", "lock", "select"}
  BY DEF FirstStep
<1>3. [Idle EXCEPT !.pc = FirstStep(j), !.job = [j EXCEPT !.att = @ + 1]] \in TxType
  BY <1>1, <1>2, IdleType DEF TxType
<1>4. tx' \in [Workers -> TxType]
  BY <1>3, GotoType DEF Claim
<1> QED
  BY <1>4 DEF TypeOK, Claim, dbVars, mtnVars, bounds

\* A job that fails goes back to the pending ones, or is given up.
LEMMA PutBackType ==
    ASSUME TypeOK, NEW w \in Workers, PutBack(w)
    PROVE  \A j \in jobs' \cup dead' \cup lost' : j \in JobType
BY DEF TypeOK, PutBack, TxType

LEMMA CountFaultType ==
    ASSUME TypeOK, CountFault
    PROVE  faults' \in Nat /\ faults' = faults + 1 /\ UNCHANGED <<topups, callbacks>>
BY DEF TypeOK, CountFault

LEMMA CommitType ==
    ASSUME TypeOK, NEW w \in Workers, Commit(w) \/ LoseAck(w)
    PROVE  TypeOK'
<1>0. TakeEffect(w)
  BY DEF Commit, LoseAck
<1>1. tx' \in [Workers -> TxType]
  BY <1>0, IdleType, GotoType DEF TakeEffect
<1>2. payment' \in [Payments -> PaymentStates] /\ purchases' \in [Payments -> Nat]
  BY <1>0 DEF TypeOK, TakeEffect, TxType, PaymentStates, Keep
<1>3. \A j \in jobs' \cup dead' \cup lost' : j \in JobType
  BY PutBackType DEF Commit, LoseAck, queueVars, TypeOK
<1>4. faults' \in Nat /\ UNCHANGED <<topups, callbacks>>
  BY CountFaultType DEF Commit, LoseAck, bounds, TypeOK
<1>5. UNCHANGED <<mtn, age>> /\ overtaken' \subseteq Payments /\ lock' \in [Payments -> Workers \cup {Nobody}]
  BY <1>0 DEF TypeOK, TakeEffect, mtnVars, Unlock
<1> QED
  BY <1>1, <1>2, <1>3, <1>4, <1>5 DEF TypeOK

LEMMA WriteType ==
    ASSUME NEW t \in TxType, NEW p,
           NEW x \in {Keep, "pending", "succeeded", "failed", "stuck"}
    PROVE  [t.writes EXCEPT ![p] = x] \in
               [Payments -> {Keep, "pending", "succeeded", "failed", "stuck"}]
BY DEF TxType

LEMMA AskType ==
    ASSUME TypeOK, NEW w \in Workers, RequestToPay(w)
    PROVE  TypeOK'
<1> DEFINE p == tx[w].pay
           t == [tx[w] EXCEPT !.writes[p] = "pending", !.pc = "commit"]
<1>0. tx[w] \in TxType
  BY DEF TypeOK
<1>1. t \in TxType
  <2> DEFINE x == [tx[w].writes EXCEPT ![p] = "pending"]
  <2>1. x \in [Payments -> {Keep, "pending", "succeeded", "failed", "stuck"}]
    BY <1>0, WriteType
  <2>2. t = [tx[w] EXCEPT !.writes = x, !.pc = "commit"]
    OBVIOUS
  <2> HIDE DEF x
  <2> QED
    BY <1>0, <2>1, <2>2 DEF TxType
<1>2. tx' \in [Workers -> TxType]
  BY <1>1, GotoType DEF RequestToPay
<1> QED
  BY <1>2 DEF TypeOK, RequestToPay, dbVars, queueVars, bounds

LEMMA VerifyType ==
    ASSUME TypeOK, NEW w \in Workers, VerifyPayment(w)
    PROVE  TypeOK'
<1> DEFINE p == tx[w].job.pay
           t == [tx[w] EXCEPT !.writes[p] = Verdict(mtn[p]), !.pc = "commit"]
<1>0. tx[w] \in TxType
  BY DEF TypeOK
<1>1. t \in TxType
  <2> DEFINE x == [tx[w].writes EXCEPT ![p] = Verdict(mtn[p])]
  <2>1. x \in [Payments -> {Keep, "pending", "succeeded", "failed", "stuck"}]
    BY <1>0, WriteType, VerdictType
  <2>2. t = [tx[w] EXCEPT !.writes = x, !.pc = "commit"]
    OBVIOUS
  <2> HIDE DEF x
  <2> QED
    BY <1>0, <2>1, <2>2 DEF TxType
<1>2. tx' \in [Workers -> TxType]
  BY <1>1, GotoType DEF VerifyPayment
<1> QED
  BY <1>2 DEF TypeOK, VerifyPayment, dbVars, queueVars, mtnVars, bounds

\* The polls visit the rows in some order.
LEMMA OrdersType ==
    ASSUME NEW S, IsFiniteSet(S), NEW todo \in SetToSeqs(S)
    PROVE  todo \in Seq(S)
<1>1. Cardinality(S) \in Nat
  BY FS_CardinalityType
<1> QED
  BY <1>1 DEF SetToSeqs

LEMMA SelectType ==
    ASSUME TypeOK, NEW w \in Workers, SelectPending(w)
    PROVE  TypeOK'
<1> DEFINE S == {p \in Payments : Pollable(payment[p]) /\ age[p] >= 1}
<1>1. PICK todo \in SetToSeqs(S) :
          Goto(w, [tx[w] EXCEPT !.todo = todo,
                                 !.overdue = {p \in Payments : age[p] = 2},
                                 !.pc = IF todo = <<>> THEN "commit" ELSE "query"])
  BY DEF SelectPending
<1>2. todo \in Seq(S)
  BY FS_Subset, OrdersType
<1>3. todo \in Seq(Payments)
  BY <1>2
<1>4. [tx[w] EXCEPT !.todo = todo, !.overdue = {p \in Payments : age[p] = 2},
                    !.pc = IF todo = <<>> THEN "commit" ELSE "query"] \in TxType
  <2> DEFINE late == {p \in Payments : age[p] = 2}
             pc == IF todo = <<>> THEN "commit" ELSE "query"
  <2>1. late \in SUBSET Payments /\ pc \in {"commit", "query"}
    OBVIOUS
  <2> HIDE DEF late, pc
  <2>2. tx[w] \in TxType
    BY DEF TypeOK
  <2>3. [tx[w] EXCEPT !.todo = todo, !.overdue = late] \in TxType
    BY <1>3, <2>1, <2>2 DEF TxType
  <2>4. [tx[w] EXCEPT !.todo = todo, !.overdue = late, !.pc = pc] \in TxType
    BY <2>1, <2>3 DEF TxType
  <2> QED
    BY <2>4 DEF late, pc
<1>5. tx' \in [Workers -> TxType]
  BY <1>1, <1>4, GotoType
<1> QED
  BY <1>5 DEF TypeOK, SelectPending, dbVars, queueVars, mtnVars, bounds

LEMMA QueryType ==
    ASSUME TypeOK, NEW w \in Workers, QueryStatus(w), tx[w].todo # <<>>
    PROVE  TypeOK'
<1> DEFINE p == Head(tx[w].todo)
           verdict == PollVerdict(p, tx[w])
           x == [tx[w].writes EXCEPT ![p] = verdict]
           t == [tx[w] EXCEPT !.writes[p] = verdict, !.todo = Tail(@)]
<1>0. tx[w] \in TxType
  BY DEF TypeOK
<1>1. verdict \in {Keep, "succeeded", "failed", "stuck"}
  BY VerdictType DEF PollVerdict
<1>2. x \in [Payments -> {Keep, "pending", "succeeded", "failed", "stuck"}]
  BY <1>0, <1>1, WriteType
<1>3. Tail(tx[w].todo) \in Seq(Payments)
  BY <1>0 DEF TxType
<1>4. t = [tx[w] EXCEPT !.writes = x, !.todo = Tail(tx[w].todo)]
  OBVIOUS
<1>5. PICK pc \in {"query", "flush", "commit"} : Goto(w, [t EXCEPT !.pc = pc])
  BY DEF QueryStatus
<1> HIDE DEF x, t
<1>6. [t EXCEPT !.pc = pc] \in TxType
  <2>1. t \in TxType
    BY <1>0, <1>2, <1>3, <1>4 DEF TxType
  <2> QED
    BY <2>1 DEF TxType
<1>7. tx' \in [Workers -> TxType]
  BY <1>5, <1>6, GotoType
<1> QED
  BY <1>7 DEF TypeOK, QueryStatus, dbVars, queueVars, mtnVars, bounds

LEMMA MoveType ==
    ASSUME TypeOK, NEW w \in Workers,
           NEW p \in Payments \cup {NoPayment},
           NEW pc \in {"ask", "commit", "verify", "query"}
    PROVE  [tx[w] EXCEPT !.pay = p, !.pc = pc] \in TxType /\ [tx[w] EXCEPT !.pc = pc] \in TxType
<1>1. tx[w] \in TxType
  BY DEF TypeOK
<1>2. [tx[w] EXCEPT !.pay = p] \in TxType
  BY <1>1 DEF TxType
<1> QED
  BY <1>1, <1>2 DEF TxType

LEMMA RollBackType ==
    ASSUME TypeOK, NEW w \in Workers, RollBack(w), UNCHANGED <<callbacks, topups>>,
           faults' \in Nat
    PROVE  TypeOK'
<1>1. tx' \in [Workers -> TxType]
  BY IdleType, GotoType DEF RollBack
<1>2. \A j \in jobs' \cup dead' \cup lost' : j \in JobType
  BY PutBackType DEF RollBack
<1> QED
  BY <1>1, <1>2 DEF TypeOK, RollBack, Unlock, dbVars, mtnVars

LEMMA CrashType ==
    ASSUME TypeOK, NEW w \in Workers, Crash(w)
    PROVE  TypeOK'
<1>1. tx' \in [Workers -> TxType]
  BY IdleType, GotoType DEF Crash
<1>2. tx[w].job \in JobType
  BY DEF TypeOK, TxType
<1>3. lock' \in [Payments -> Workers \cup {Nobody}]
  BY DEF Crash, Unlock, TypeOK
<1>4. \A j \in jobs' \cup dead' \cup lost' : j \in JobType
  BY <1>2 DEF Crash, TypeOK
<1>5. faults' \in Nat /\ UNCHANGED <<topups, callbacks>>
  BY CountFaultType DEF Crash
<1> QED
  BY <1>1, <1>3, <1>4, <1>5 DEF TypeOK, Crash, dbVars, mtnVars

LEMMA ChooseType ==
    ASSUME TypeOK, NEW w \in Workers, ChooseBundle(w)
    PROVE  TypeOK'
<1>1. tx' \in [Workers -> TxType]
  <2>1. CASE \E p \in Fresh : Goto(w, [tx[w] EXCEPT !.pay = p, !.pc = "ask"])
    BY <2>1, MoveType, GotoType DEF Fresh
  <2>2. CASE Goto(w, [tx[w] EXCEPT !.pc = "commit"])
    BY <2>2, MoveType, GotoType
  <2> QED
    BY <2>1, <2>2 DEF ChooseBundle
<1> QED
  BY <1>1 DEF TypeOK, ChooseBundle, dbVars, queueVars, mtnVars, bounds

LEMMA LockType ==
    ASSUME TypeOK, NEW w \in Workers, LockPayment(w) \/ Flush(w)
    PROVE  TypeOK'
<1>1. tx' \in [Workers -> TxType]
  <2>1. \E pc \in {"ask", "commit", "verify", "query"} : Goto(w, [tx[w] EXCEPT !.pc = pc])
    BY DEF LockPayment, Flush
  <2> QED
    BY <2>1, MoveType, GotoType
<1> QED
  BY <1>1 DEF TypeOK, LockPayment, Flush, dbVars, queueVars, mtnVars, bounds, Acquire

-----------------------------------------------------------------------------
(* The inductive invariant                                                 *)

\* A confirmation is about a row that is in the table.
JobsSound ==
    \A j \in jobs : /\ j.kind \in {"topup", "confirm", "poll"}
                    /\ j.kind = "confirm" => j.pay \in Payments /\ payment[j.pay] # "none"

RowsSound ==
    \A p \in Payments :
        /\ mtn[p] = "none" => payment[p] = "none"
        /\ lock[p] # Nobody => payment[p] # "none"
        /\ payment[p] = "succeeded" => mtn[p] = "SUCCESSFUL"
        /\ payment[p] = "failed" => mtn[p] = "FAILED"

\* No two runs draw the same reference.
OwnReference ==
    \A w, v \in Workers : w # v /\ tx[w].pay # NoPayment => tx[v].pay # tx[w].pay

Stages(w) ==
    /\ tx[w].job.kind = "none" <=> tx[w].pc = "idle"
    /\ tx[w].job.kind = "topup" => tx[w].pc \in {"choose", "ask", "commit"}
    /\ tx[w].job.kind = "confirm" => tx[w].pc \in {"lock", "verify", "commit"}
    /\ tx[w].job.kind = "poll" => tx[w].pc \in {"select", "query", "flush", "commit"}

\* A row that initiate_payment has not committed is nobody else's.
ToppingUp(w) ==
    /\ tx[w].pay # NoPayment =>
          /\ tx[w].job.kind = "topup" /\ tx[w].pc \in {"ask", "commit"}
          /\ payment[tx[w].pay] = "none"
    /\ tx[w].pc = "ask" => tx[w].pay # NoPayment /\ mtn[tx[w].pay] = "none"
    /\ tx[w].pay # NoPayment /\ tx[w].pc = "commit" =>
          tx[w].writes[tx[w].pay] = "pending" /\ mtn[tx[w].pay] # "none"

Confirming(w) ==
    tx[w].job.kind = "confirm" =>
        /\ tx[w].job.pay \in Payments /\ payment[tx[w].job.pay] # "none"
        /\ tx[w].pc = "verify" =>
              lock[tx[w].job.pay] = w /\ ~ Terminal(payment[tx[w].job.pay])

Polled(w) ==
    tx[w].job.kind = "poll" =>
        /\ tx[w].pc = "query" => tx[w].todo # <<>>
        /\ \A i \in 1 .. Len(tx[w].todo) : payment[tx[w].todo[i]] # "none"

\* What a transaction has written, from where, and what it holds to do so.
Written(w, p) ==
    /\ tx[w].writes[p] = "succeeded" => mtn[p] = "SUCCESSFUL"
    /\ tx[w].writes[p] = "failed" => mtn[p] = "FAILED"
    /\ tx[w].writes[p] # Keep =>
          \/ tx[w].job.kind = "topup" /\ p = tx[w].pay /\ tx[w].writes[p] = "pending"
          \/ /\ tx[w].job.kind = "confirm" /\ tx[w].pc = "commit"
             /\ p = tx[w].job.pay /\ lock[p] = w /\ ~ Terminal(payment[p])
          \/ /\ tx[w].job.kind = "poll" /\ tx[w].pc # "select" /\ payment[p] # "none"
             /\ tx[w].pc = "commit" => lock[p] = w

Sound(w) ==
    /\ Stages(w) /\ ToppingUp(w) /\ Confirming(w) /\ Polled(w)
    /\ \A p \in Payments : Written(w, p)

Inv ==
    /\ TypeOK
    /\ JobsSound /\ RowsSound /\ OwnReference
    /\ \A w \in Workers : Sound(w)

\* What a step of somebody else leaves a worker to rely on.
Undisturbed(v) ==
    /\ tx'[v] = tx[v]
    /\ \A p \in Payments :
          /\ lock[p] = v => lock'[p] = v /\ payment'[p] = payment[p]
          /\ payment[p] # "none" => payment'[p] # "none"
          /\ mtn[p] \in {"SUCCESSFUL", "FAILED"} => mtn'[p] = mtn[p]
          /\ p = tx[v].pay => payment'[p] = payment[p]
          /\ p = tx[v].pay => (mtn[p] = "none" <=> mtn'[p] = "none")

LEMMA UndisturbedSound ==
    ASSUME TypeOK, TypeOK', NEW v \in Workers, Sound(v), Undisturbed(v)
    PROVE  Sound(v)'
<1>1. tx[v] \in TxType
  BY DEF TypeOK
<1>2. tx[v].pay # NoPayment => tx[v].pay \in Payments
  BY <1>1 DEF TxType
<1>3. Stages(v)' /\ ToppingUp(v)'
  BY <1>2 DEF Sound, Stages, ToppingUp, Undisturbed
<1>4. Confirming(v)'
  BY DEF Sound, Confirming, Undisturbed, Terminal
<1>5. Polled(v)'
  BY <1>1 DEF Sound, Polled, Undisturbed, TxType
<1>6. \A p \in Payments : Written(v, p)'
  BY <1>1 DEF Sound, Written, Undisturbed, TxType, Terminal
<1> QED
  BY <1>3, <1>4, <1>5, <1>6 DEF Sound

LEMMA StepSound ==
    ASSUME Inv, TypeOK', NEW w \in Workers, Sound(w)',
           \A v \in Workers \ {w} : Undisturbed(v),
           JobsSound', RowsSound',
           tx'[w].pay \in {tx[w].pay, NoPayment}
    PROVE  Inv'
<1>1. \A v \in Workers : Sound(v)'
  BY UndisturbedSound DEF Inv
<1>2. OwnReference'
  BY DEF Inv, OwnReference, Undisturbed
<1> QED
  BY <1>1, <1>2 DEF Inv

LEMMA InitInv == ASSUME Init PROVE Inv
<1>1. TypeOK
  BY IdleType DEF Init, TypeOK, PaymentStates
<1>2. \A w \in Workers : tx[w] = Idle
  BY DEF Init
<1>3. JobsSound /\ RowsSound
  BY DEF Init, JobsSound, RowsSound
<1>4. OwnReference
  BY <1>2 DEF OwnReference, Idle
<1>5. \A w \in Workers : Sound(w)
  BY <1>2 DEF Sound, Stages, ToppingUp, Confirming, Polled, Written, Idle, Job, Keep
<1> QED
  BY <1>1, <1>3, <1>4, <1>5 DEF Inv

LEMMA ClaimInv ==
    ASSUME Inv, NEW w \in Workers, NEW j \in jobs, Claim(w, j)
    PROVE  Inv'
<1> DEFINE k == [j EXCEPT !.att = @ + 1]
           t == [Idle EXCEPT !.pc = FirstStep(j), !.job = k]
<1>1. TypeOK /\ TypeOK'
  BY ClaimType DEF Inv
<1>2. /\ tx'[w] = t /\ \A v \in Workers \ {w} : tx'[v] = tx[v]
      /\ UNCHANGED <<payment, mtn, lock>>
      /\ jobs' = jobs \ {j}
  BY <1>1 DEF Claim, Goto, TypeOK, dbVars, mtnVars
<1>3. k.kind = j.kind /\ k.pay = j.pay
  BY <1>1 DEF TypeOK, JobType
<1>4. /\ t.pc = FirstStep(j) /\ t.job.kind = j.kind /\ t.job.pay = j.pay
      /\ t.pay = NoPayment /\ t.todo = <<>> /\ \A p \in Payments : t.writes[p] = Keep
  BY <1>3 DEF Idle
<1> HIDE DEF t, k
<1>5. Sound(w)'
  BY <1>2, <1>4 DEF Inv, JobsSound, FirstStep, Sound, Stages, ToppingUp, Confirming, Polled, Written, Keep
<1>6. JobsSound' /\ RowsSound'
  BY <1>2 DEF Inv, JobsSound, RowsSound
<1>7. \A v \in Workers \ {w} : Undisturbed(v)
  BY <1>2 DEF Undisturbed
<1> QED
  BY <1>1, <1>2, <1>4, <1>5, <1>6, <1>7, StepSound

\* A worker that has nothing in hand.
LEMMA IdleSound ==
    ASSUME NEW w \in Workers, tx'[w] = Idle
    PROVE  Sound(w)' /\ tx'[w].pay = NoPayment
BY DEF Idle, Job, Sound, Stages, ToppingUp, Confirming, Polled, Written, Keep

\* What is put back was claimed, and is as sound as it was.
LEMMA PutBackSound ==
    ASSUME Inv, NEW w \in Workers, tx[w].pc # "idle", jobs' \in {jobs, jobs \cup {tx[w].job}},
           \A p \in Payments : payment[p] # "none" => payment'[p] # "none"
    PROVE  JobsSound'
<1>1. Stages(w) /\ Confirming(w) /\ tx[w].job \in JobType
  BY DEF Inv, Sound, TypeOK, TxType
<1>2. tx[w].job.kind \in {"topup", "confirm", "poll"}
  BY <1>1 DEF Stages, JobType
<1> QED
  BY <1>1, <1>2 DEF Inv, JobsSound, Confirming

LEMMA CommitInv ==
    ASSUME Inv, NEW w \in Workers, Commit(w) \/ LoseAck(w)
    PROVE  Inv'
<1> DEFINE t == tx[w]
<1>1. TypeOK /\ TypeOK' /\ t \in TxType
  BY CommitType DEF Inv, TypeOK
<1>2. /\ tx'[w] = Idle /\ \A v \in Workers \ {w} : tx'[v] = tx[v]
      /\ UNCHANGED mtn
      /\ lock' = [p \in Payments |-> IF lock[p] = w THEN Nobody ELSE lock[p]]
      /\ payment' = [p \in Payments |-> IF t.writes[p] = Keep THEN payment[p] ELSE t.writes[p]]
      /\ t.pc = "commit"
  BY <1>1 DEF Commit, LoseAck, TakeEffect, Goto, TypeOK, mtnVars, Unlock, At
<1>3. \A p \in Payments : t.writes[p] # Keep =>
          \/ p = t.pay /\ payment[p] = "none" /\ t.writes[p] = "pending" /\ mtn[p] # "none"
          \/ lock[p] = w /\ payment[p] # "none"
  <2> SUFFICES ASSUME NEW p \in Payments, t.writes[p] # Keep
               PROVE  \/ p = t.pay /\ payment[p] = "none" /\ t.writes[p] = "pending" /\ mtn[p] # "none"
                      \/ lock[p] = w /\ payment[p] # "none"
    OBVIOUS
  <2>1. Written(w, p) /\ ToppingUp(w) /\ RowsSound /\ w # Nobody /\ p # NoPayment
    BY DEF Inv, Sound
  <2> QED
    BY <1>2, <2>1 DEF Written, ToppingUp, RowsSound
<1>4. \A p \in Payments : payment[p] # "none" => payment'[p] # "none"
  BY <1>1, <1>2 DEF TxType
<1>5. JobsSound'
  <2>1. jobs' \in {jobs, jobs \cup {t.job}}
    BY DEF Commit, LoseAck, PutBack, queueVars
  <2> QED
    BY <1>2, <1>4, <2>1, PutBackSound
<1>6. RowsSound'
  <2> SUFFICES ASSUME NEW p \in Payments
               PROVE  /\ mtn[p] = "none" => payment'[p] = "none"
                      /\ lock'[p] # Nobody => payment'[p] # "none"
                      /\ payment'[p] = "succeeded" => mtn[p] = "SUCCESSFUL"
                      /\ payment'[p] = "failed" => mtn[p] = "FAILED"
    BY <1>2 DEF RowsSound
  <2>1. RowsSound /\ Written(w, p)
    BY DEF Inv, Sound
  <2> QED
    BY <1>2, <1>3, <1>4, <2>1 DEF RowsSound, Written
<1>7. ASSUME NEW v \in Workers \ {w} PROVE Undisturbed(v)
  <2> SUFFICES ASSUME NEW p \in Payments
               PROVE  /\ lock[p] = v => lock'[p] = v /\ payment'[p] = payment[p]
                      /\ p = tx[v].pay => payment'[p] = payment[p]
    BY <1>2, <1>4 DEF Undisturbed
  <2>1. lock[p] = v => t.writes[p] = Keep
    <3>1. lock[p] = v => payment[p] # "none"
      BY DEF Inv, RowsSound
    <3> QED
      BY <1>3, <3>1
  <2>2. p = tx[v].pay => t.writes[p] = Keep
    <3>1. p = tx[v].pay => payment[p] = "none" /\ p # t.pay
      BY DEF Inv, OwnReference, Sound, ToppingUp
    <3> QED
      BY <1>3, <3>1
  <2> QED
    BY <1>2, <2>1, <2>2
<1> QED
  BY <1>1, <1>2, <1>5, <1>6, <1>7, IdleSound, StepSound

\* Whatever ends a transaction without its commit.
LEMMA AbortInv ==
    ASSUME Inv, TypeOK', NEW w \in Workers, tx[w].pc # "idle",
           Goto(w, Idle), Unlock(w), UNCHANGED <<payment, mtn>>,
           jobs' \in {jobs, jobs \cup {tx[w].job}}
    PROVE  Inv'
<1>1. /\ tx'[w] = Idle /\ \A v \in Workers \ {w} : tx'[v] = tx[v]
      /\ lock' = [p \in Payments |-> IF lock[p] = w THEN Nobody ELSE lock[p]]
  BY DEF Goto, Inv, TypeOK, Unlock
<1>2. JobsSound'
  BY PutBackSound
<1>3. RowsSound'
  BY <1>1 DEF Inv, RowsSound
<1>4. \A v \in Workers \ {w} : Undisturbed(v)
  BY <1>1 DEF Undisturbed
<1> QED
  BY <1>1, <1>2, <1>3, <1>4, IdleSound, StepSound

LEMMA FaultInv ==
    ASSUME Inv, NEW w \in Workers, Fault(w) \/ BreakDeadlock(w)
    PROVE  Inv'
<1>1. TypeOK'
  BY RollBackType, CountFaultType DEF Inv, TypeOK, Fault, BreakDeadlock, bounds
<1>2. tx[w].pc # "idle"
  <2>1. CASE BreakDeadlock(w)
    <3>1. Blockers(w) # {}
      BY <2>1 DEF BreakDeadlock, Deadlocked
    <3> QED
      BY <3>1 DEF Blockers, Needs, At
  <2> QED
    BY <2>1 DEF Fault, At
<1>3. /\ Goto(w, Idle) /\ Unlock(w) /\ UNCHANGED <<payment, mtn>>
      /\ jobs' \in {jobs, jobs \cup {tx[w].job}}
  BY DEF Fault, BreakDeadlock, RollBack, PutBack, dbVars, mtnVars
<1> QED
  BY <1>1, <1>2, <1>3, AbortInv

LEMMA CrashInv ==
    ASSUME Inv, NEW w \in Workers, Crash(w)
    PROVE  Inv'
<1>1. TypeOK'
  BY CrashType DEF Inv
<1> QED
  BY <1>1, AbortInv DEF Crash, At, dbVars, mtnVars

\* A step that moves a worker on and leaves the tables and locks alone.
LEMMA QuietStep ==
    ASSUME Inv, TypeOK', NEW w \in Workers, NEW t, Goto(w, t), Sound(w)',
           UNCHANGED <<payment, mtn, lock, jobs>>, t.pay \in {tx[w].pay, NoPayment}
    PROVE  Inv'
<1>1. /\ tx'[w] = t /\ \A v \in Workers \ {w} : tx'[v] = tx[v]
  BY DEF Goto, Inv, TypeOK
<1>2. JobsSound' /\ RowsSound' /\ \A v \in Workers \ {w} : Undisturbed(v)
  BY <1>1 DEF Inv, JobsSound, RowsSound, Undisturbed
<1> QED
  BY <1>1, <1>2, StepSound

LEMMA ChooseInv ==
    ASSUME Inv, NEW w \in Workers, ChooseBundle(w)
    PROVE  Inv'
<1>1. TypeOK /\ TypeOK' /\ UNCHANGED <<payment, mtn, lock, jobs>>
  BY ChooseType DEF Inv, ChooseBundle, dbVars, queueVars, mtnVars
<1>2. tx[w] \in TxType /\ tx[w].pc = "choose" /\ Sound(w)
  BY DEF Inv, ChooseBundle, At, TypeOK
<1>3. tx[w].job.kind = "topup" /\ tx[w].pay = NoPayment /\ \A p \in Payments : tx[w].writes[p] = Keep
  BY <1>2 DEF Sound, Stages, ToppingUp, Written, TxType, JobType
<1>4. CASE Goto(w, [tx[w] EXCEPT !.pc = "commit"])
  <2> DEFINE t == [tx[w] EXCEPT !.pc = "commit"]
  <2>1. tx'[w] = t /\ t.pc = "commit" /\ t.job = tx[w].job /\ t.pay = NoPayment /\ t.writes = tx[w].writes
    BY <1>1, <1>2, <1>3, <1>4 DEF Goto, TypeOK, TxType
  <2> HIDE DEF t
  <2>2. Sound(w)'
    BY <1>1, <1>2, <1>3, <2>1 DEF Sound, Stages, ToppingUp, Confirming, Polled, Written, Keep
  <2> QED
    BY <1>1, <1>3, <1>4, <2>1, <2>2, QuietStep DEF t
<1>5. ASSUME NEW q \in Fresh, Goto(w, [tx[w] EXCEPT !.pay = q, !.pc = "ask"]) PROVE Inv'
  <2> DEFINE t == [tx[w] EXCEPT !.pay = q, !.pc = "ask"]
  <2>1. tx'[w] = t /\ t.pc = "ask" /\ t.job = tx[w].job /\ t.pay = q /\ t.writes = tx[w].writes
    BY <1>1, <1>2, <1>5 DEF Goto, TypeOK, TxType
  <2>2. \A v \in Workers \ {w} : tx'[v] = tx[v]
    BY <1>1, <1>5 DEF Goto, TypeOK
  <2> HIDE DEF t
  <2>3. q \in Payments /\ mtn[q] = "none" /\ payment[q] = "none" /\ \A v \in Workers : tx[v].pay # q
    BY DEF Fresh, Inv, RowsSound
  <2>4. Sound(w)'
    BY <1>1, <1>2, <1>3, <2>1, <2>3 DEF Sound, Stages, ToppingUp, Confirming, Polled, Written, Keep
  <2>5. \A v \in Workers : Sound(v)'
    BY <1>1, <2>2, <2>4, UndisturbedSound DEF Inv, Undisturbed
  <2>6. JobsSound' /\ RowsSound'
    BY <1>1 DEF Inv, JobsSound, RowsSound
  <2>7. OwnReference'
    BY <2>1, <2>2, <2>3 DEF Inv, OwnReference
  <2> QED
    BY <1>1, <2>5, <2>6, <2>7 DEF Inv
<1> QED
  BY <1>4, <1>5 DEF ChooseBundle

LEMMA AskInv ==
    ASSUME Inv, NEW w \in Workers, RequestToPay(w)
    PROVE  Inv'
<1> DEFINE q == tx[w].pay
           x == [tx[w].writes EXCEPT ![q] = "pending"]
           t == [tx[w] EXCEPT !.writes[q] = "pending", !.pc = "commit"]
<1>1. TypeOK /\ TypeOK' /\ UNCHANGED <<payment, lock, jobs>> /\ mtn' = [mtn EXCEPT ![q] = "PENDING"]
  BY AskType DEF Inv, RequestToPay, dbVars, queueVars
<1>2. tx[w] \in TxType /\ tx[w].pc = "ask" /\ Sound(w)
  BY DEF Inv, RequestToPay, At, TypeOK
<1>3. q \in Payments /\ tx[w].job.kind = "topup" /\ mtn[q] = "none" /\ payment[q] = "none"
  BY <1>2 DEF Sound, ToppingUp, TxType
<1>4. \A p \in Payments \ {q} : tx[w].writes[p] = Keep
  BY <1>2, <1>3 DEF Sound, Written
<1>5. /\ tx'[w] = t /\ \A v \in Workers \ {w} : tx'[v] = tx[v]
  BY <1>1 DEF RequestToPay, Goto, TypeOK
<1>6. t.pc = "commit" /\ t.job = tx[w].job /\ t.pay = q /\ t.writes = x
  BY <1>2 DEF TxType
<1>7. x[q] = "pending" /\ \A p \in Payments \ {q} : x[p] = Keep
  BY <1>2, <1>3, <1>4 DEF TxType
<1>8. mtn'[q] = "PENDING" /\ \A p \in Payments \ {q} : mtn'[p] = mtn[p]
  BY <1>1, <1>3 DEF TypeOK
<1> HIDE DEF t, x
<1>9. Sound(w)'
  BY <1>1, <1>2, <1>3, <1>5, <1>6, <1>7, <1>8
     DEF Sound, Stages, ToppingUp, Confirming, Polled, Written, Keep
<1>10. JobsSound' /\ RowsSound'
  BY <1>1, <1>3, <1>8 DEF Inv, JobsSound, RowsSound
<1>11. \A v \in Workers \ {w} : Undisturbed(v)
  BY <1>1, <1>3, <1>5, <1>8 DEF Inv, OwnReference, Undisturbed
<1> QED
  BY <1>1, <1>5, <1>6, <1>9, <1>10, <1>11, StepSound

LEMMA LockInv ==
    ASSUME Inv, NEW w \in Workers, LockPayment(w)
    PROVE  Inv'
<1> DEFINE q == tx[w].job.pay
           pc == IF Terminal(payment[q]) THEN "commit" ELSE "verify"
           t == [tx[w] EXCEPT !.pc = pc]
<1>1. TypeOK /\ TypeOK' /\ UNCHANGED <<payment, mtn, jobs>>
  BY LockType DEF Inv, LockPayment, dbVars, queueVars, mtnVars
<1>2. tx[w] \in TxType /\ tx[w].pc = "lock" /\ Sound(w)
  BY DEF Inv, LockPayment, At, TypeOK
<1>3. tx[w].job.kind = "confirm" /\ q \in Payments /\ payment[q] # "none" /\ tx[w].pay = NoPayment
  BY <1>2 DEF Sound, Stages, Confirming, ToppingUp, TxType, JobType
<1>4. \A p \in Payments : tx[w].writes[p] = Keep
  BY <1>2, <1>3 DEF Sound, Written
<1>5. lock[q] \in {w, Nobody} /\ lock' = [p \in Payments |-> IF p = q THEN w ELSE lock[p]]
  BY <1>2, <1>3 DEF LockPayment, Acquire, Blockers, Needs, At
<1>6. /\ tx'[w] = t /\ \A v \in Workers \ {w} : tx'[v] = tx[v]
  BY <1>1 DEF LockPayment, Goto, TypeOK
<1>7. t.pc = pc /\ t.job = tx[w].job /\ t.pay = NoPayment /\ t.writes = tx[w].writes
  BY <1>2, <1>3 DEF TxType
<1> HIDE DEF t
<1>8. Sound(w)'
  BY <1>1, <1>2, <1>3, <1>4, <1>5, <1>6, <1>7
     DEF Sound, Stages, ToppingUp, Confirming, Polled, Written, Keep
<1>9. JobsSound' /\ RowsSound'
  BY <1>1, <1>3, <1>5 DEF Inv, JobsSound, RowsSound
<1>10. \A v \in Workers \ {w} : Undisturbed(v)
  BY <1>1, <1>5, <1>6 DEF Undisturbed
<1> QED
  BY <1>1, <1>6, <1>7, <1>8, <1>9, <1>10, StepSound

LEMMA VerifyInv ==
    ASSUME Inv, NEW w \in Workers, VerifyPayment(w)
    PROVE  Inv'
<1> DEFINE q == tx[w].job.pay
           x == [tx[w].writes EXCEPT ![q] = Verdict(mtn[q])]
           t == [tx[w] EXCEPT !.writes[q] = Verdict(mtn[q]), !.pc = "commit"]
<1>1. TypeOK /\ TypeOK' /\ UNCHANGED <<payment, mtn, lock, jobs>> /\ Goto(w, t)
  BY VerifyType DEF Inv, VerifyPayment, dbVars, queueVars, mtnVars
<1>2. tx[w] \in TxType /\ tx[w].pc = "verify" /\ Sound(w)
  BY DEF Inv, VerifyPayment, At, TypeOK
<1>3. /\ tx[w].job.kind = "confirm" /\ q \in Payments /\ payment[q] # "none"
      /\ tx[w].pay = NoPayment /\ lock[q] = w /\ ~ Terminal(payment[q])
  BY <1>2 DEF Sound, Stages, Confirming, ToppingUp, TxType, JobType
<1>4. \A p \in Payments : tx[w].writes[p] = Keep
  BY <1>2, <1>3 DEF Sound, Written
<1>5. tx'[w] = t
  BY <1>1 DEF Goto, TypeOK
<1>6. t.pc = "commit" /\ t.job = tx[w].job /\ t.pay = NoPayment /\ t.writes = x
  BY <1>2, <1>3 DEF TxType
<1>7. x[q] = Verdict(mtn[q]) /\ \A p \in Payments \ {q} : x[p] = Keep
  BY <1>2, <1>3, <1>4 DEF TxType
<1>8. /\ x[q] = "succeeded" => mtn[q] = "SUCCESSFUL"
      /\ x[q] = "failed" => mtn[q] = "FAILED"
  BY <1>7 DEF Verdict, Keep
<1> HIDE DEF t, x
<1>9. Sound(w)'
  BY <1>1, <1>2, <1>3, <1>5, <1>6, <1>7, <1>8
     DEF Sound, Stages, ToppingUp, Confirming, Polled, Written, Keep
<1> QED
  BY <1>1, <1>6, <1>9, QuietStep

LEMMA SelectInv ==
    ASSUME Inv, NEW w \in Workers, SelectPending(w)
    PROVE  Inv'
<1> DEFINE S == {p \in Payments : Pollable(payment[p]) /\ age[p] >= 1}
           late == {p \in Payments : age[p] = 2}
<1>1. PICK todo \in SetToSeqs(S) :
          Goto(w, [tx[w] EXCEPT !.todo = todo, !.overdue = late,
                                !.pc = IF todo = <<>> THEN "commit" ELSE "query"])
  BY DEF SelectPending
<1> DEFINE t == [tx[w] EXCEPT !.todo = todo, !.overdue = late,
                              !.pc = IF todo = <<>> THEN "commit" ELSE "query"]
<1>2. TypeOK /\ TypeOK' /\ UNCHANGED <<payment, mtn, lock, jobs>>
  BY SelectType DEF Inv, SelectPending, dbVars, queueVars, mtnVars
<1>3. tx[w] \in TxType /\ tx[w].pc = "select" /\ Sound(w)
  BY DEF Inv, SelectPending, At, TypeOK
<1>4. tx[w].job.kind = "poll" /\ tx[w].pay = NoPayment
  BY <1>3 DEF Sound, Stages, ToppingUp, TxType, JobType
<1>5. todo \in Seq(S)
  BY FS_Subset, OrdersType
<1>6. \A i \in 1 .. Len(todo) : payment[todo[i]] # "none"
  BY <1>5 DEF Pollable
<1>7. /\ t.pc = IF todo = <<>> THEN "commit" ELSE "query"
      /\ t.job = tx[w].job /\ t.pay = NoPayment /\ t.writes = tx[w].writes /\ t.todo = todo
  BY <1>3, <1>4 DEF TxType
<1>8. tx'[w] = t
  BY <1>1, <1>2 DEF Goto, TypeOK
<1>9. \A p \in Payments : tx[w].writes[p] = Keep
  BY <1>3, <1>4 DEF Sound, Written, Keep
<1> HIDE DEF t
<1>10. Sound(w)'
  BY <1>2, <1>3, <1>4, <1>6, <1>7, <1>8, <1>9
     DEF Sound, Stages, ToppingUp, Confirming, Polled, Written, Keep
<1> QED
  BY <1>1, <1>2, <1>4, <1>7, <1>10, QuietStep DEF t

LEMMA QueryInv ==
    ASSUME Inv, NEW w \in Workers, QueryStatus(w)
    PROVE  Inv'
<1> DEFINE q == Head(tx[w].todo)
           verdict == PollVerdict(q, tx[w])
           x == [tx[w].writes EXCEPT ![q] = verdict]
           u == [tx[w] EXCEPT !.writes[q] = verdict, !.todo = Tail(@)]
           unflushed == Dirty(w) # {} \/ verdict # Keep
           pc == CASE verdict = "succeeded" -> "flush"
                   [] u.todo # <<>>         -> "query"
                   [] unflushed             -> "flush"
                   [] OTHER                 -> "commit"
           t == [u EXCEPT !.pc = pc]
<1>1. tx[w] \in TxType /\ tx[w].pc = "query" /\ Sound(w)
  BY DEF Inv, QueryStatus, At, TypeOK
<1>2. tx[w].job.kind = "poll" /\ tx[w].pay = NoPayment /\ tx[w].todo # <<>>
  BY <1>1 DEF Sound, Stages, ToppingUp, Polled, TxType, JobType
<1>3. TypeOK /\ TypeOK' /\ UNCHANGED <<payment, mtn, lock, jobs>> /\ Goto(w, t)
  BY <1>2, QueryType DEF Inv, QueryStatus, dbVars, queueVars, mtnVars
<1>4. tx'[w] = t
  BY <1>3 DEF Goto, TypeOK
<1>5. /\ t.pc = pc /\ t.job = tx[w].job /\ t.pay = NoPayment /\ t.writes = x
      /\ t.todo = Tail(tx[w].todo) /\ u.todo = Tail(tx[w].todo)
  BY <1>1, <1>2 DEF TxType
<1>6. q \in Payments /\ payment[q] # "none"
  <2>1. \A i \in 1 .. Len(tx[w].todo) : payment[tx[w].todo[i]] # "none"
    BY <1>1, <1>2 DEF Sound, Polled
  <2>2. tx[w].todo \in Seq(Payments)
    BY <1>1 DEF TxType
  <2>3. 1 \in 1 .. Len(tx[w].todo) /\ q = tx[w].todo[1]
    BY <1>2, <2>2
  <2> QED
    BY <2>1, <2>2, <2>3
<1>7. \A i \in 1 .. Len(Tail(tx[w].todo)) : payment[Tail(tx[w].todo)[i]] # "none"
  BY <1>1, <1>2 DEF Sound, Polled, TxType
<1>8. x[q] = verdict /\ \A p \in Payments \ {q} : x[p] = tx[w].writes[p]
  BY <1>1, <1>6 DEF TxType
<1>9. /\ verdict \in {Keep, "succeeded", "failed", "stuck"}
      /\ verdict = "succeeded" => mtn[q] = "SUCCESSFUL"
      /\ verdict = "failed" => mtn[q] = "FAILED"
  BY DEF PollVerdict, Verdict, Keep
<1>10. pc \in {"query", "flush", "commit"} /\ (pc = "query" => Tail(tx[w].todo) # <<>>)
  BY <1>5
<1>11. pc = "commit" => \A p \in Payments : x[p] # Keep => lock[p] = w
  BY <1>8 DEF Dirty
<1> HIDE DEF t, u, x, pc, verdict
<1>12. \A p \in Payments : Written(w, p)'
  <2> TAKE p \in Payments
  <2>1. tx'[w].writes[p] = x[p] /\ tx'[w].job.kind = "poll" /\ tx'[w].pc = pc
    BY <1>2, <1>4, <1>5
  <2>2. Written(w, p)
    BY <1>1 DEF Sound
  <2>3. CASE p = q
    BY <1>3, <1>6, <1>8, <1>9, <1>10, <1>11, <2>1, <2>3 DEF Written, Keep
  <2>4. CASE p # q
    BY <1>1, <1>2, <1>3, <1>8, <1>10, <1>11, <2>1, <2>2, <2>4 DEF Written
  <2> QED
    BY <2>3, <2>4
<1>13. Stages(w)' /\ ToppingUp(w)' /\ Confirming(w)' /\ Polled(w)'
  BY <1>1, <1>2, <1>3, <1>4, <1>5, <1>7, <1>10 DEF Stages, ToppingUp, Confirming, Polled
<1>14. Sound(w)'
  BY <1>12, <1>13 DEF Sound
<1> QED
  BY <1>3, <1>5, <1>14, QuietStep

LEMMA FlushInv ==
    ASSUME Inv, NEW w \in Workers, Flush(w)
    PROVE  Inv'
<1> DEFINE pc == IF tx[w].todo = <<>> THEN "commit" ELSE "query"
           t == [tx[w] EXCEPT !.pc = pc]
<1>1. TypeOK /\ TypeOK' /\ UNCHANGED <<payment, mtn, jobs>>
  BY LockType DEF Inv, Flush, dbVars, queueVars, mtnVars
<1>2. tx[w] \in TxType /\ tx[w].pc = "flush" /\ Sound(w)
  BY DEF Inv, Flush, At, TypeOK
<1>3. tx[w].job.kind = "poll" /\ tx[w].pay = NoPayment
  BY <1>2 DEF Sound, Stages, ToppingUp, TxType, JobType
<1>4. \A p \in Payments : tx[w].writes[p] # Keep => payment[p] # "none"
  BY <1>2, <1>3 DEF Sound, Written
<1>5. Dirty(w) = {p \in Payments : tx[w].writes[p] # Keep /\ lock[p] # w}
  BY DEF Dirty
<1>6. /\ \A p \in Dirty(w) : lock[p] = Nobody
      /\ lock' = [p \in Payments |-> IF p \in Dirty(w) THEN w ELSE lock[p]]
  BY <1>2, <1>5 DEF Flush, Acquire, Blockers, Needs, At
<1>7. /\ tx'[w] = t /\ \A v \in Workers \ {w} : tx'[v] = tx[v]
  BY <1>1 DEF Flush, Goto, TypeOK
<1>8. /\ t.pc = pc /\ t.job = tx[w].job /\ t.pay = NoPayment
      /\ t.writes = tx[w].writes /\ t.todo = tx[w].todo
  BY <1>2, <1>3 DEF TxType
<1> HIDE DEF t
<1>9. Sound(w)'
  <2>1. \A p \in Payments : Written(w, p)'
    BY <1>1, <1>2, <1>3, <1>4, <1>5, <1>6, <1>7, <1>8 DEF Sound, Written
  <2>2. Stages(w)' /\ ToppingUp(w)' /\ Confirming(w)' /\ Polled(w)'
    BY <1>1, <1>2, <1>3, <1>7, <1>8 DEF Sound, Stages, ToppingUp, Confirming, Polled
  <2> QED
    BY <2>1, <2>2 DEF Sound
<1>10. JobsSound' /\ RowsSound'
  BY <1>1, <1>4, <1>5, <1>6 DEF Inv, JobsSound, RowsSound
<1>11. \A v \in Workers \ {w} : Undisturbed(v)
  <2>1. \A v \in Workers, p \in Payments : v # w /\ lock[p] = v => lock'[p] = v
    BY <1>6
  <2> QED
    BY <1>1, <1>7, <2>1 DEF Undisturbed
<1> QED
  BY <1>1, <1>7, <1>8, <1>9, <1>10, <1>11, StepSound

-----------------------------------------------------------------------------
(* The provider, MTN and time                                              *)

LEMMA WorldInv ==
    ASSUME Inv,
           \/ \E bundle \in {"first", "default"} : PickBundle(bundle)
           \/ \E p \in Payments : MtnDecide(p) \/ MomoCallback(p) \/ Grow(p)
           \/ PollDue
    PROVE  Inv'
<1> USE DEF dbVars, queueVars, mtnVars, bounds
<1>1. UNCHANGED <<payment, lock, tx>>
  BY DEF PickBundle, MtnDecide, MomoCallback, Grow, PollDue
<1>2. TypeOK'
  <2>1. ASSUME NEW bundle \in {"first", "default"}, PickBundle(bundle) PROVE TypeOK'
    <3>1. topups + 1 \in Nat
      BY DEF Inv, TypeOK
    <3>2. TopUpJob(bundle, topups + 1) \in JobType
      BY <3>1 DEF TopUpJob, Job, JobType
    <3> QED
      BY <2>1, <3>1, <3>2 DEF Inv, TypeOK, PickBundle
  <2>2. CASE \E p \in Payments : MtnDecide(p)
    BY <2>2 DEF Inv, TypeOK, MtnDecide
  <2>3. CASE \E p \in Payments : MomoCallback(p)
    BY <2>3, JobsType DEF Inv, TypeOK, MomoCallback
  <2>4. CASE \E p \in Payments : Grow(p)
    BY <2>4 DEF Inv, TypeOK, Grow
  <2>5. CASE PollDue
    <3>1. PollJob \in JobType
      BY DEF PollJob, Job, JobType
    <3> QED
      BY <2>5, <3>1 DEF Inv, TypeOK, PollDue
  <2> QED
    BY <2>1, <2>2, <2>3, <2>4, <2>5
<1>3. \A p \in Payments : \/ mtn'[p] = mtn[p]
                          \/ mtn[p] = "PENDING" /\ mtn'[p] \in {"SUCCESSFUL", "FAILED"}
  BY DEF PickBundle, MtnDecide, MomoCallback, Grow, PollDue, Inv, TypeOK
<1>4. JobsSound'
  <2>1. \A j \in jobs' \ jobs : /\ j.kind \in {"topup", "confirm", "poll"}
                                /\ j.kind = "confirm" => j.pay \in Payments /\ payment[j.pay] # "none"
    BY DEF PickBundle, MtnDecide, MomoCallback, Grow, PollDue, TopUpJob, ConfirmJob, PollJob, Job
  <2> QED
    BY <1>1, <2>1 DEF Inv, JobsSound
<1>5. RowsSound'
  BY <1>1, <1>3 DEF Inv, RowsSound
<1>6. \A v \in Workers : Sound(v)'
  <2>1. \A v \in Workers : Undisturbed(v)
    BY <1>1, <1>3 DEF Undisturbed
  <2> QED
    BY <1>2, <2>1, UndisturbedSound DEF Inv
<1>7. OwnReference'
  BY <1>1 DEF Inv, OwnReference
<1> QED
  BY <1>2, <1>4, <1>5, <1>6, <1>7 DEF Inv

LEMMA NextInv == ASSUME Inv, [Next]_vars PROVE Inv'
<1>1. CASE UNCHANGED vars
  <2>1. \A v \in Workers : Undisturbed(v)
    BY <1>1 DEF Undisturbed, vars, dbVars, mtnVars
  <2>2. TypeOK'
    BY <1>1 DEF Inv, TypeOK, vars, dbVars, queueVars, mtnVars, bounds
  <2>3. \A v \in Workers : Sound(v)'
    BY <2>1, <2>2, UndisturbedSound DEF Inv
  <2> QED
    BY <1>1, <2>2, <2>3 DEF Inv, JobsSound, RowsSound, OwnReference, vars, dbVars, queueVars, mtnVars
<1>2. ASSUME NEW w \in Workers, Step(w) \/ Fault(w) \/ LoseAck(w) \/ Crash(w) PROVE Inv'
  BY <1>2, ClaimInv, CommitInv, FaultInv, CrashInv, ChooseInv, AskInv, LockInv,
     VerifyInv, SelectInv, QueryInv, FlushInv DEF Step
<1> QED
  BY <1>1, <1>2, WorldInv DEF Next

LEMMA SpecInv == Spec => []Inv
BY InitInv, NextInv, PTL DEF Spec

-----------------------------------------------------------------------------
(* What the payments promise                                               *)

\* The tables, the jobs and the transactions have their types.
THEOREM PaymentsTyped == Spec => []TypeOK
BY SpecInv, PTL DEF Inv

\* A run of confirm_payment writes nothing over a settled payment, and credits
\* none: whoever settles it holds the row from the look to the commit.
THEOREM ConfirmSettlesOnceHolds == Spec => ConfirmSettlesOnce
<1>1. ASSUME Inv, NEW w \in Workers, NEW p \in Payments,
             TakeEffect(w), tx[w].job.kind = "confirm", Terminal(payment[p])
      PROVE  payment'[p] = payment[p] /\ purchases'[p] = purchases[p]
  <2>1. Written(w, p)
    BY <1>1 DEF Inv, Sound
  <2>2. tx[w].writes[p] = Keep
    BY <1>1, <2>1 DEF Written
  <2> QED
    BY <1>1, <2>2 DEF TakeEffect, Keep
<1>2. Inv => \A w \in Workers, p \in Payments :
                 TakeEffect(w) /\ tx[w].job.kind = "confirm" /\ Terminal(payment[p])
                 => payment'[p] = payment[p] /\ purchases'[p] = purchases[p]
  BY <1>1
<1> QED
  BY <1>2, SpecInv, PTL DEF Spec, ConfirmSettlesOnce

\* What may still go unrecorded has a failure or a death to blame.
Recorded == Cardinality(Unrecorded) <= faults

LEMMA UnrecordedFinite == IsFiniteSet(Unrecorded) /\ Cardinality(Unrecorded) \in Nat
BY FS_Subset, FS_CardinalityType DEF Unrecorded

\* A step after which nothing more is unrecorded.
LEMMA NoMoreUnrecorded ==
    ASSUME TypeOK, Recorded, TypeOK', Unrecorded' \subseteq Unrecorded,
           UNCHANGED faults
    PROVE  Recorded'
<1>1. Cardinality(Unrecorded') <= Cardinality(Unrecorded) /\ Cardinality(Unrecorded') \in Nat
  BY UnrecordedFinite, FS_Subset, FS_CardinalityType
<1> QED
  BY <1>1, UnrecordedFinite DEF Recorded, TypeOK

LEMMA OneMoreUnrecorded ==
    ASSUME TypeOK, Recorded, TypeOK', NEW p, Unrecorded' \subseteq Unrecorded \cup {p},
           faults' = faults + 1
    PROVE  Recorded'
<1>1. /\ IsFiniteSet(Unrecorded \cup {p})
      /\ Cardinality(Unrecorded \cup {p}) <= Cardinality(Unrecorded) + 1
      /\ Cardinality(Unrecorded \cup {p}) \in Nat
  <2> DEFINE S == Unrecorded
  <2>1. IsFiniteSet(S) /\ Cardinality(S) \in Nat
    BY UnrecordedFinite
  <2> HIDE DEF S
  <2>2. /\ IsFiniteSet(S \cup {p})
        /\ Cardinality(S \cup {p}) = IF p \in S THEN Cardinality(S) ELSE Cardinality(S) + 1
    BY <2>1, FS_AddElement
  <2>3. IsFiniteSet(S \cup {p}) /\ Cardinality(S \cup {p}) <= Cardinality(S) + 1 /\ Cardinality(S \cup {p}) \in Nat
    BY <2>1, <2>2
  <2> QED
    BY <2>3 DEF S
<1>2. /\ Cardinality(Unrecorded') <= Cardinality(Unrecorded \cup {p})
      /\ Cardinality(Unrecorded') \in Nat
  BY <1>1, FS_Subset, FS_CardinalityType
<1> QED
  BY <1>1, <1>2, UnrecordedFinite DEF Recorded, TypeOK

LEMMA RecordedStep == ASSUME Inv, Recorded, [Next]_vars, Inv' PROVE Recorded'
<1> USE DEF dbVars, queueVars, mtnVars, bounds
<1>0. TypeOK /\ TypeOK' /\ RowsSound
  BY DEF Inv
\* A row once in the table stays there; nobody lets go of his reference.
<1> DEFINE Kept ==
               /\ \A p \in Payments : payment[p] # "none" => payment'[p] # "none"
               /\ \A p \in Payments : mtn'[p] # "none" =>
                      mtn[p] # "none" \/ \E w \in Workers : tx'[w].pay = p
               /\ \A w \in Workers :
                      \/ tx'[w].pay = tx[w].pay
                      \/ tx[w].pay = NoPayment
                      \/ tx[w].pay \in Payments /\ payment'[tx[w].pay] # "none"
               /\ faults' \in {faults, faults + 1}
<1>1. Kept => Recorded'
  <2> SUFFICES ASSUME Kept PROVE Recorded'
    OBVIOUS
  <2>1. Unrecorded' \subseteq Unrecorded
    BY DEF Unrecorded
  <2>2. CASE UNCHANGED faults
    BY <1>0, <2>1, <2>2, NoMoreUnrecorded
  <2>3. CASE faults' = faults + 1
    BY <1>0, <2>1, <2>3, OneMoreUnrecorded
  <2> QED
    BY <2>2, <2>3
<1>2. ASSUME UNCHANGED vars PROVE Kept
  BY <1>0, <1>2 DEF vars, TypeOK
<1>3. ASSUME NEW w \in Workers, Step(w) \/ LoseAck(w) PROVE Kept
  <2>0. /\ tx[w] \in TxType /\ Sound(w)
        /\ faults' \in {faults, faults + 1}
    BY <1>0, <1>3 DEF Inv, TypeOK, Step, Claim, Commit, LoseAck, CountFault, BreakDeadlock, ChooseBundle,
       RequestToPay, LockPayment, VerifyPayment, SelectPending, QueryStatus, Flush
  <2>1. ASSUME NEW j \in jobs, Claim(w, j) PROVE Kept
    <3>1. tx[w].pay = NoPayment
      BY <2>0, <2>1 DEF Sound, ToppingUp, Claim, At, TxType
    <3> QED
      BY <1>0, <2>0, <2>1, <3>1 DEF Claim, Goto, TypeOK
  <2>2. CASE TakeEffect(w)
    <3>1. tx[w].pay # NoPayment =>
              tx[w].pay \in Payments /\ tx[w].writes[tx[w].pay] = "pending"
      BY <2>0, <2>2 DEF Sound, ToppingUp, TakeEffect, At, TxType
    <3>2. \A p \in Payments : payment[p] # "none" => payment'[p] # "none"
      BY <2>0, <2>2 DEF TakeEffect, TxType
    <3>3. tx[w].pay # NoPayment => payment'[tx[w].pay] # "none"
      BY <2>2, <3>1 DEF TakeEffect, Keep
    <3> QED
      BY <1>0, <2>0, <2>2, <3>1, <3>2, <3>3 DEF TakeEffect, Goto, TypeOK
  <2>3. CASE BreakDeadlock(w)
    <3>1. tx[w].pc \in {"lock", "flush"}
      <4>1. Blockers(w) # {}
        BY <2>3 DEF BreakDeadlock, Deadlocked
      <4> QED
        BY <4>1 DEF Blockers, Needs, At
    <3>2. tx[w].pay = NoPayment
      BY <2>0, <3>1 DEF Sound, ToppingUp
    <3> QED
      BY <1>0, <2>0, <2>3, <3>2 DEF BreakDeadlock, RollBack, Goto, TypeOK
  <2>4. CASE ChooseBundle(w)
    <3>1. tx[w].pay = NoPayment
      BY <2>0, <2>4 DEF Sound, ToppingUp, ChooseBundle, At
    <3> QED
      BY <1>0, <2>0, <2>4, <3>1 DEF ChooseBundle, Goto, TypeOK
  <2>5. CASE RequestToPay(w)
    <3>1. tx'[w].pay = tx[w].pay
      BY <1>0, <2>0, <2>5 DEF RequestToPay, Goto, TypeOK, TxType
    <3>2. \A v \in Workers : tx'[v].pay = tx[v].pay
      BY <1>0, <2>5, <3>1 DEF RequestToPay, Goto, TypeOK
    <3>3. \A p \in Payments : mtn'[p] # "none" => mtn[p] # "none" \/ tx'[w].pay = p
      BY <1>0, <2>5, <3>1 DEF RequestToPay, TypeOK
    <3> QED
      BY <2>0, <2>5, <3>2, <3>3 DEF RequestToPay
  <2>6. CASE LockPayment(w) \/ VerifyPayment(w) \/ SelectPending(w) \/ QueryStatus(w) \/ Flush(w)
    <3>1. tx[w].pc \notin {"ask", "commit"}
      BY <2>6 DEF LockPayment, VerifyPayment, SelectPending, QueryStatus, Flush, At
    <3>2. tx[w].pay = NoPayment
      BY <2>0, <3>1 DEF Sound, ToppingUp
    <3>3. \A v \in Workers \ {w} : tx'[v].pay = tx[v].pay
      BY <1>0, <2>6 DEF LockPayment, VerifyPayment, SelectPending, QueryStatus, Flush, Goto, TypeOK
    <3>4. UNCHANGED <<payment, mtn>>
      BY <2>6 DEF LockPayment, VerifyPayment, SelectPending, QueryStatus, Flush
    <3> QED
      BY <2>0, <3>2, <3>3, <3>4
  <2> QED
    BY <1>3, <2>1, <2>2, <2>3, <2>4, <2>5, <2>6 DEF Step, Commit, LoseAck
<1>4. ASSUME NEW w \in Workers, Fault(w) \/ Crash(w) PROVE Recorded'
  <2>1. /\ UNCHANGED <<payment, mtn>>
        /\ \A v \in Workers \ {w} : tx'[v] = tx[v]
        /\ faults' = faults + 1
    BY <1>0, <1>4 DEF Fault, Crash, RollBack, CountFault, Goto, TypeOK
  <2>2. Unrecorded' \subseteq Unrecorded \cup {tx[w].pay}
    BY <2>1 DEF Unrecorded
  <2> QED
    BY <1>0, <2>1, <2>2, OneMoreUnrecorded
<1>5. ASSUME \/ \E bundle \in {"first", "default"} : PickBundle(bundle)
             \/ \E p \in Payments : MtnDecide(p) \/ MomoCallback(p) \/ Grow(p)
             \/ PollDue
      PROVE  Kept
  <2>1. UNCHANGED <<payment, tx, faults>>
    BY <1>5 DEF PickBundle, MtnDecide, MomoCallback, Grow, PollDue
  <2>2. \A p \in Payments : mtn'[p] # "none" => mtn[p] # "none"
    BY <1>0, <1>5 DEF PickBundle, MtnDecide, MomoCallback, Grow, PollDue, TypeOK
  <2> QED
    BY <1>0, <2>1, <2>2 DEF TypeOK
<1> HIDE DEF Kept
<1> QED
  BY <1>1, <1>2, <1>3, <1>4, <1>5 DEF Next

\* What a row says is what MTN said, for good; and whatever MTN was asked to
\* collect is on record, or a run failed or died since.
THEOREM AgreesWithMtnHolds == Spec => []AgreesWithMtn
<1>1. Init => Recorded
  <2> SUFFICES ASSUME Init PROVE Recorded
    OBVIOUS
  <2>1. Unrecorded = {}
    BY DEF Init, Unrecorded
  <2> QED
    BY <2>1, FS_EmptySet DEF Init, Recorded
<1>2. Inv /\ Recorded => AgreesWithMtn
  BY DEF Inv, RowsSound, Recorded, AgreesWithMtn
<1>3. Inv /\ Recorded /\ [Next]_vars /\ Inv' => Recorded'
  BY RecordedStep
<1> QED
  BY <1>1, <1>2, <1>3, SpecInv, PTL DEF Spec

\* A step of the handler leaves a worker at its job.
LEMMA JobKept ==
    ASSUME TypeOK, NEW w \in Workers,
           ChooseBundle(w) \/ RequestToPay(w) \/ LockPayment(w) \/ VerifyPayment(w)
           \/ SelectPending(w) \/ QueryStatus(w) \/ Flush(w)
    PROVE  /\ tx'[w].job = tx[w].job /\ \A v \in Workers \ {w} : tx'[v] = tx[v]
           /\ UNCHANGED <<payment, purchases, overtaken, jobs, dead, lost, callbacks>>
<1>1. UNCHANGED <<payment, purchases, overtaken, jobs, dead, lost, callbacks>>
  BY DEF ChooseBundle, RequestToPay, LockPayment, VerifyPayment, SelectPending, QueryStatus, Flush,
     dbVars, queueVars, mtnVars, bounds
<1>2. ASSUME NEW t, Goto(w, t), t.job = tx[w].job
      PROVE  tx'[w].job = tx[w].job /\ \A v \in Workers \ {w} : tx'[v] = tx[v]
  BY <1>2 DEF Goto, TypeOK
<1>3. tx[w] \in TxType
  BY DEF TypeOK
<1>4. CASE ChooseBundle(w)
  <2>1. ASSUME NEW q, Goto(w, [tx[w] EXCEPT !.pay = q, !.pc = "ask"])
        PROVE  tx'[w].job = tx[w].job /\ \A v \in Workers \ {w} : tx'[v] = tx[v]
    <3>1. [tx[w] EXCEPT !.pay = q, !.pc = "ask"].job = tx[w].job
      BY <1>3 DEF TxType
    <3> QED
      BY <1>2, <2>1, <3>1
  <2>2. ASSUME Goto(w, [tx[w] EXCEPT !.pc = "commit"])
        PROVE  tx'[w].job = tx[w].job /\ \A v \in Workers \ {w} : tx'[v] = tx[v]
    <3>1. [tx[w] EXCEPT !.pc = "commit"].job = tx[w].job
      BY <1>3 DEF TxType
    <3> QED
      BY <1>2, <2>2, <3>1
  <2> QED
    BY <1>1, <1>4, <2>1, <2>2 DEF ChooseBundle
<1>5. CASE RequestToPay(w) \/ VerifyPayment(w)
  <2>1. \A q, x : [tx[w] EXCEPT !.writes[q] = x, !.pc = "commit"].job = tx[w].job
    BY <1>3 DEF TxType
  <2> QED
    BY <1>1, <1>2, <1>5, <2>1 DEF RequestToPay, VerifyPayment
<1>6. CASE LockPayment(w) \/ Flush(w)
  <2>1. \E pc : Goto(w, [tx[w] EXCEPT !.pc = pc])
    <3>1. LockPayment(w) => Goto(w, [tx[w] EXCEPT !.pc =
              IF Terminal(payment[tx[w].job.pay]) THEN "commit" ELSE "verify"])
      BY DEF LockPayment
    <3>2. Flush(w) => Goto(w, [tx[w] EXCEPT !.pc = IF tx[w].todo = <<>> THEN "commit" ELSE "query"])
      BY DEF Flush
    <3> QED
      BY <1>6, <3>1, <3>2
  <2> PICK pc : Goto(w, [tx[w] EXCEPT !.pc = pc])
    BY <2>1
  <2>2. [tx[w] EXCEPT !.pc = pc].job = tx[w].job
    BY <1>3 DEF TxType
  <2> QED
    BY <1>1, <1>2, <2>1, <2>2
<1>7. CASE SelectPending(w)
  <2>1. \A todo, late, pc : [tx[w] EXCEPT !.todo = todo, !.overdue = late, !.pc = pc].job = tx[w].job
    BY <1>3 DEF TxType
  <2> QED
    BY <1>1, <1>2, <1>7, <2>1 DEF SelectPending
<1>8. CASE QueryStatus(w)
  <2> DEFINE q == Head(tx[w].todo)
             u == [tx[w] EXCEPT !.writes[q] = PollVerdict(q, tx[w]), !.todo = Tail(@)]
  <2>1. PICK pc : Goto(w, [u EXCEPT !.pc = pc])
    BY <1>8 DEF QueryStatus
  <2>2. [u EXCEPT !.pc = pc].job = tx[w].job
    BY <1>3 DEF TxType
  <2> QED
    BY <1>1, <1>2, <2>1, <2>2
<1> QED
  BY <1>4, <1>5, <1>6, <1>7, <1>8

\* A worker that gives its job up, one way or another.
LEMMA JobLeft ==
    ASSUME TypeOK, NEW w \in Workers,
           Commit(w) \/ LoseAck(w) \/ BreakDeadlock(w) \/ Fault(w) \/ Crash(w)
    PROVE  tx'[w] = Idle /\ \A v \in Workers \ {w} : tx'[v] = tx[v]
BY DEF Commit, LoseAck, TakeEffect, BreakDeadlock, Fault, Crash, RollBack, Goto, TypeOK

LEMMA JobTaken ==
    ASSUME TypeOK, NEW w \in Workers, NEW j \in jobs, Claim(w, j)
    PROVE  /\ tx'[w].job.kind = j.kind /\ tx'[w].job.pay = j.pay
           /\ tx'[w].pc = FirstStep(j) /\ Len(tx'[w].todo) = 0
           /\ \A p \in Payments : tx'[w].writes[p] = Keep
           /\ \A v \in Workers \ {w} : tx'[v] = tx[v]
<1> DEFINE k == [j EXCEPT !.att = @ + 1]
           t == [Idle EXCEPT !.pc = FirstStep(j), !.job = k]
<1>1. k.kind = j.kind /\ k.pay = j.pay
  BY DEF TypeOK, JobType
<1>2. tx'[w] = t /\ \A v \in Workers \ {w} : tx'[v] = tx[v]
  BY DEF Claim, Goto, TypeOK
<1> HIDE DEF k
<1>3. t.pc = FirstStep(j) /\ t.job = k /\ t.todo = <<>> /\ \A p \in Payments : t.writes[p] = Keep
  BY DEF Idle
<1> HIDE DEF t
<1> QED
  BY <1>1, <1>2, <1>3

\* Whoever changes a row, or the ledger, does so by a COMMIT.
LEMMA OnlyCommitsWrite ==
    ASSUME [Next]_vars
    PROVE  \/ \E w \in Workers : Commit(w) \/ LoseAck(w)
           \/ UNCHANGED <<payment, purchases, overtaken>>
BY DEF vars, dbVars, Next, Step, Claim, BreakDeadlock, ChooseBundle, RequestToPay, LockPayment,
   VerifyPayment, SelectPending, QueryStatus, Flush, Fault, Crash, PickBundle, MtnDecide,
   MomoCallback, Grow, PollDue, RollBack

LEMMA CreditedOnceStep ==
    ASSUME Inv, CreditedOnce, [Next]_vars
    PROVE  CreditedOnce'
<1>1. ASSUME NEW w \in Workers, TakeEffect(w) PROVE CreditedOnce'
  <2> SUFFICES ASSUME NEW p \in Payments, p \notin overtaken'
               PROVE  purchases'[p] = IF payment'[p] = "succeeded" THEN 1 ELSE 0
    BY DEF CreditedOnce
  <2>1. Written(w, p) /\ ToppingUp(w)
    BY DEF Inv, Sound
  <2>2. p \notin overtaken
        /\ (tx[w].job.kind = "poll" /\ tx[w].writes[p] # Keep => payment[p] = "pending")
    BY <1>1 DEF TakeEffect, Pollable
  <2>3. tx[w].writes[p] # Keep => ~ Terminal(payment[p])
    BY <1>1, <2>1, <2>2 DEF Written, ToppingUp, Terminal, TakeEffect, At
  <2>4. purchases[p] = IF payment[p] = "succeeded" THEN 1 ELSE 0
    BY <2>2 DEF CreditedOnce
  <2> QED
    BY <1>1, <2>3, <2>4 DEF TakeEffect, Terminal, Keep
<1>2. CASE UNCHANGED <<payment, purchases, overtaken>>
  BY <1>2 DEF CreditedOnce
<1> QED
  BY <1>1, <1>2, OnlyCommitsWrite DEF Commit, LoseAck

\* However many workers there are, and whatever fails, a payment is credited
\* once, when it succeeds, unless a poll overtook another run: confirm_payment
\* looks again at the row it holds, and a reference is topped up by one run.
THEOREM CreditedOnceHolds == Spec => []CreditedOnce
<1>1. Init => CreditedOnce
  BY DEF Init, CreditedOnce
<1>2. Inv /\ CreditedOnce /\ [Next]_vars => CreditedOnce'
  BY CreditedOnceStep
<1> QED
  BY <1>1, <1>2, SpecInv, PTL DEF Spec

-----------------------------------------------------------------------------
(* No callback is forgotten                                                *)

FollowsUp(j, p) == j.kind = "confirm" /\ j.pay = p

Followed(p) ==
    \/ \E j \in jobs \cup dead \cup lost : FollowsUp(j, p)
    \/ \E w \in Workers : FollowsUp(tx[w].job, p)

Decided(p) == mtn[p] \in {"SUCCESSFUL", "FAILED"}

\* A run that ends without its credits has found them there.
Credits(w) ==
    tx[w].job.kind = "confirm" =>
        /\ Decided(tx[w].job.pay)
        /\ tx[w].pc = "commit" /\ mtn[tx[w].job.pay] = "SUCCESSFUL" =>
              tx[w].writes[tx[w].job.pay] = "succeeded" \/ purchases[tx[w].job.pay] > 0

CallbackInv ==
    /\ \A p \in Payments : payment[p] = "succeeded" => purchases[p] > 0
    /\ \A p \in Payments : callbacks[p] > 0 => Decided(p)
    /\ \A j \in jobs : j.kind = "confirm" => Decided(j.pay)
    /\ \A w \in Workers : Credits(w)
    /\ \A p \in Payments :
          callbacks[p] > 0 /\ mtn[p] = "SUCCESSFUL" => purchases[p] > 0 \/ Followed(p)

\* What most steps leave as it is.
LEMMA StillFollowed ==
    ASSUME CallbackInv, TypeOK, UNCHANGED <<mtn, callbacks>>,
           \A p \in Payments : payment'[p] = "succeeded" => purchases'[p] > 0,
           \A p \in Payments : purchases[p] > 0 => purchases'[p] > 0,
           \A j \in jobs' : j.kind = "confirm" => Decided(j.pay),
           \A w \in Workers : Credits(w)',
           \A p \in Payments : Followed(p) /\ mtn[p] = "SUCCESSFUL" =>
               Followed(p)' \/ purchases'[p] > 0
    PROVE  CallbackInv'
BY DEF CallbackInv, Decided

LEMMA ClaimFollowed ==
    ASSUME Inv, CallbackInv, NEW w \in Workers, NEW j \in jobs, Claim(w, j)
    PROVE  CallbackInv'
<1>1. /\ tx'[w].job.kind = j.kind /\ tx'[w].job.pay = j.pay /\ tx'[w].pc = FirstStep(j)
      /\ \A v \in Workers \ {w} : tx'[v] = tx[v]
  BY JobTaken DEF Inv
<1>2. UNCHANGED <<payment, purchases, mtn, callbacks, dead, lost>> /\ jobs' = jobs \ {j}
  BY DEF Claim, dbVars, mtnVars, bounds
<1>3. Credits(w)'
  BY <1>1, <1>2 DEF CallbackInv, Credits, Decided, FirstStep
<1>4. \A v \in Workers : Credits(v)'
  BY <1>1, <1>2, <1>3 DEF CallbackInv, Credits, Decided
<1>5. ASSUME NEW p \in Payments, Followed(p) PROVE Followed(p)'
  <2>1. CASE FollowsUp(j, p)
    <3>1. FollowsUp(tx'[w].job, p)
      BY <1>1, <2>1 DEF FollowsUp
    <3> QED
      BY <3>1 DEF Followed
  <2>2. ASSUME NEW i \in (jobs \cup dead \cup lost) \ {j}, FollowsUp(i, p) PROVE Followed(p)'
    BY <1>2, <2>2 DEF Followed, FollowsUp
  <2>3. ASSUME NEW v \in Workers, FollowsUp(tx[v].job, p) PROVE Followed(p)'
    <3>1. v # w
      BY <2>3 DEF Inv, Sound, Stages, FollowsUp, Claim, At
    <3> QED
      BY <1>1, <2>3, <3>1 DEF Followed, FollowsUp
  <2> QED
    BY <1>5, <2>1, <2>2, <2>3 DEF Followed
<1> QED
  BY <1>2, <1>4, <1>5, StillFollowed DEF Inv, CallbackInv

\* The job of a run that ends without a COMMIT is kept, one way or another.
LEMMA LeftFollowed ==
    ASSUME TypeOK, TypeOK', NEW w \in Workers, tx'[w] = Idle,
           \A v \in Workers \ {w} : tx'[v] = tx[v],
           jobs \cup dead \cup lost \subseteq jobs' \cup dead' \cup lost',
           NEW p \in Payments, Followed(p),
           FollowsUp(tx[w].job, p) => tx[w].job \in jobs' \cup dead' \cup lost'
    PROVE  Followed(p)'
<1>1. ASSUME NEW i \in jobs \cup dead \cup lost, FollowsUp(i, p) PROVE Followed(p)'
  BY <1>1 DEF Followed, FollowsUp
<1>2. ASSUME NEW v \in Workers \ {w}, FollowsUp(tx[v].job, p) PROVE Followed(p)'
  BY <1>2 DEF Followed, FollowsUp
<1>3. CASE FollowsUp(tx[w].job, p)
  BY <1>3 DEF Followed, FollowsUp
<1> QED
  BY <1>1, <1>2, <1>3 DEF Followed

LEMMA EndFollowed ==
    ASSUME Inv, Inv', CallbackInv, NEW w \in Workers,
           Commit(w) \/ LoseAck(w) \/ BreakDeadlock(w) \/ Fault(w) \/ Crash(w)
    PROVE  CallbackInv'
<1> USE DEF Inv
<1>1. tx'[w] = Idle /\ \A v \in Workers \ {w} : tx'[v] = tx[v]
  BY JobLeft
<1>2. /\ UNCHANGED <<mtn, callbacks>> /\ jobs' \in {jobs, jobs \cup {tx[w].job}}
      /\ jobs \cup dead \cup lost \subseteq jobs' \cup dead' \cup lost'
      /\ BreakDeadlock(w) \/ Fault(w) \/ Crash(w) => tx[w].job \in jobs' \cup dead' \cup lost'
  BY DEF Commit, LoseAck, TakeEffect, BreakDeadlock, Fault, Crash, RollBack, PutBack, CountFault,
     mtnVars, queueVars, bounds
<1>3. \A p \in Payments : /\ payment'[p] = "succeeded" => purchases'[p] > 0
                          /\ purchases[p] > 0 => purchases'[p] > 0
  <2>1. CASE UNCHANGED <<payment, purchases>>
    BY <2>1 DEF CallbackInv
  <2>2. CASE TakeEffect(w)
    BY <2>2 DEF CallbackInv, TakeEffect, TypeOK, Keep
  <2> QED
    BY <2>1, <2>2 DEF Commit, LoseAck, BreakDeadlock, Fault, Crash, RollBack, dbVars
<1>4. \A j \in jobs' : j.kind = "confirm" => Decided(j.pay)
  BY <1>2 DEF CallbackInv, Credits
<1>5. \A v \in Workers : Credits(v)'
  <2>1. Credits(w)'
    BY <1>1 DEF Credits, Idle, Job
  <2>2. ASSUME NEW v \in Workers \ {w} PROVE Credits(v)'
    <3>1. tx[v].job.kind = "confirm" => tx[v].job.pay \in Payments
      BY DEF Sound, Confirming
    <3> QED
      BY <1>1, <1>2, <1>3, <3>1 DEF CallbackInv, Credits, Decided
  <2> QED
    BY <2>1, <2>2
<1>6. ASSUME NEW p \in Payments, Followed(p), mtn[p] = "SUCCESSFUL"
      PROVE  Followed(p)' \/ purchases'[p] > 0
  <2>1. CASE FollowsUp(tx[w].job, p) /\ TakeEffect(w)
    <3>1. tx[w].writes[p] = "succeeded" \/ purchases[p] > 0
      BY <1>6, <2>1 DEF CallbackInv, Credits, FollowsUp, TakeEffect, At
    <3>2. tx[w].writes[p] = "succeeded" => purchases'[p] > 0
      BY <2>1 DEF TakeEffect, TypeOK
    <3> QED
      BY <1>3, <3>1, <3>2
  <2>2. CASE ~ (FollowsUp(tx[w].job, p) /\ TakeEffect(w))
    <3>1. FollowsUp(tx[w].job, p) => tx[w].job \in jobs' \cup dead' \cup lost'
      BY <1>2, <2>2 DEF Commit, LoseAck
    <3> QED
      BY <1>1, <1>2, <1>6, <3>1, LeftFollowed
  <2> QED
    BY <2>1, <2>2
<1> QED
  BY <1>2, <1>3, <1>4, <1>5, <1>6, StillFollowed

LEMMA RunFollowed ==
    ASSUME Inv, Inv', CallbackInv, NEW w \in Workers,
           ChooseBundle(w) \/ RequestToPay(w) \/ LockPayment(w) \/ VerifyPayment(w)
           \/ SelectPending(w) \/ QueryStatus(w) \/ Flush(w)
    PROVE  CallbackInv'
<1> USE DEF Inv
<1>1. /\ tx'[w].job = tx[w].job /\ \A v \in Workers \ {w} : tx'[v] = tx[v]
      /\ UNCHANGED <<payment, purchases, overtaken, jobs, dead, lost, callbacks>>
  BY JobKept
<1>2. \A p \in Payments : Decided(p) => mtn'[p] = mtn[p]
  <2>1. CASE RequestToPay(w)
    <3>1. tx[w].pay \in Payments => mtn[tx[w].pay] = "none"
      BY <2>1 DEF Sound, ToppingUp, RequestToPay, At
    <3> QED
      BY <2>1, <3>1 DEF RequestToPay, TypeOK, Decided
  <2>2. CASE UNCHANGED mtn
    BY <2>2
  <2> QED
    BY <2>1, <2>2 DEF ChooseBundle, LockPayment, VerifyPayment, SelectPending, QueryStatus, Flush, mtnVars
<1>3. Credits(w)'
  <2> SUFFICES ASSUME tx[w].job.kind = "confirm" PROVE Credits(w)'
    BY <1>1 DEF Credits
  <2> DEFINE q == tx[w].job.pay
  <2>1. q \in Payments /\ Decided(q) /\ mtn'[q] = mtn[q] /\ tx[w].pc # "commit"
    <3>1. q \in Payments /\ Decided(q)
      BY DEF Sound, Confirming, CallbackInv, Credits
    <3>2. tx[w].pc # "commit"
      BY DEF ChooseBundle, RequestToPay, LockPayment, VerifyPayment, SelectPending, QueryStatus, Flush, At
    <3> QED
      BY <1>2, <3>1, <3>2
  <2>2. LockPayment(w) \/ VerifyPayment(w)
    BY DEF Sound, Stages, ChooseBundle, RequestToPay, SelectPending, QueryStatus, Flush, At
  <2>3. tx[w] \in TxType
    BY DEF TypeOK
  <2>4. ASSUME LockPayment(w), tx'[w].pc = "commit", mtn[q] = "SUCCESSFUL" PROVE purchases[q] > 0
    <3>1. Terminal(payment[q])
      BY <2>3, <2>4 DEF LockPayment, Goto, TypeOK, TxType
    <3> QED
      BY <2>1, <2>4, <3>1 DEF Terminal, RowsSound, CallbackInv
  <2>5. ASSUME VerifyPayment(w), mtn[q] = "SUCCESSFUL" PROVE tx'[w].writes[q] = "succeeded"
    <3> DEFINE x == [tx[w].writes EXCEPT ![q] = Verdict(mtn[q])]
    <3>1. x[q] = "succeeded"
      BY <2>1, <2>3, <2>5 DEF TxType, Verdict
    <3>2. tx'[w].writes = x
      BY <2>3, <2>5 DEF VerifyPayment, Goto, TypeOK, TxType
    <3> QED
      BY <3>1, <3>2
  <2> QED
    BY <1>1, <2>1, <2>2, <2>4, <2>5 DEF Credits, Decided
<1>4. \A v \in Workers : Credits(v)'
  <2> SUFFICES ASSUME NEW v \in Workers \ {w} PROVE Credits(v)'
    BY <1>3
  <2>1. tx[v].job.kind = "confirm" => tx[v].job.pay \in Payments /\ Decided(tx[v].job.pay)
    BY DEF Sound, Confirming, CallbackInv, Credits
  <2>2. tx[v].job.kind = "confirm" => mtn'[tx[v].job.pay] = mtn[tx[v].job.pay]
    BY <1>2, <2>1
  <2> QED
    BY <1>1, <2>1, <2>2 DEF CallbackInv, Credits, Decided
<1>5. \A p \in Payments : Followed(p)' <=> Followed(p)
  <2>1. \A v \in Workers : tx'[v].job = tx[v].job
    BY <1>1
  <2> QED
    BY <1>1, <2>1 DEF Followed, FollowsUp
<1>6. \A j \in jobs : j.kind = "confirm" => j.pay \in Payments
  BY DEF JobsSound
<1> QED
  BY <1>1, <1>2, <1>4, <1>5, <1>6 DEF CallbackInv, Decided

LEMMA WorldFollowed ==
    ASSUME Inv, Inv', CallbackInv,
           \/ \E bundle \in {"first", "default"} : PickBundle(bundle)
           \/ \E p \in Payments : MtnDecide(p) \/ MomoCallback(p) \/ Grow(p)
           \/ PollDue
    PROVE  CallbackInv'
<1> USE DEF Inv, dbVars, queueVars, mtnVars, bounds
<1>1. UNCHANGED <<payment, purchases, tx, dead, lost>> /\ jobs \subseteq jobs'
  BY DEF PickBundle, MtnDecide, MomoCallback, Grow, PollDue
<1>2. \A p \in Payments : Decided(p) => mtn'[p] = mtn[p]
  BY DEF PickBundle, MtnDecide, MomoCallback, Grow, PollDue, TypeOK, Decided
<1>3. \A p \in Payments : Followed(p) => Followed(p)'
  BY <1>1 DEF Followed, FollowsUp
<1>4. \A p \in Payments : callbacks'[p] = callbacks[p] \/ (Decided(p) /\ Followed(p)')
  <2>1. ASSUME NEW q \in Payments, MomoCallback(q) PROVE Decided(q) /\ Followed(q)'
    <3>1. ConfirmJob(q, callbacks[q] + 1) \in jobs' /\ Decided(q)
      BY <2>1 DEF MomoCallback, Decided
    <3>2. FollowsUp(ConfirmJob(q, callbacks[q] + 1), q)
      BY DEF FollowsUp, ConfirmJob, Job
    <3> QED
      BY <3>1, <3>2 DEF Followed, FollowsUp
  <2>2. (\E q \in Payments : MomoCallback(q)) \/ UNCHANGED callbacks
    BY DEF PickBundle, MtnDecide, Grow, PollDue
  <2> QED
    BY <2>1, <2>2 DEF MomoCallback, TypeOK
<1>5. \A v \in Workers : Credits(v)'
  <2> SUFFICES ASSUME NEW v \in Workers PROVE Credits(v)'
    OBVIOUS
  <2>1. tx[v].job.kind = "confirm" => tx[v].job.pay \in Payments /\ Decided(tx[v].job.pay)
    BY DEF Sound, Confirming, CallbackInv, Credits
  <2>2. tx[v].job.kind = "confirm" => mtn'[tx[v].job.pay] = mtn[tx[v].job.pay]
    BY <1>2, <2>1
  <2> QED
    BY <1>1, <2>1, <2>2 DEF CallbackInv, Credits, Decided
<1>6. \A j \in jobs' : j.kind = "confirm" => Decided(j.pay)'
  <2>1. \A j \in jobs' : j.kind = "confirm" => j \in jobs \/ Decided(j.pay)
    BY DEF PickBundle, MtnDecide, MomoCallback, Grow, PollDue, TopUpJob, ConfirmJob, PollJob, Job, Decided
  <2>2. \A j \in jobs' : j.kind = "confirm" => j.pay \in Payments /\ Decided(j.pay)
    BY <2>1 DEF CallbackInv, JobsSound
  <2> QED
    BY <1>2, <2>2 DEF Decided
<1> QED
  BY <1>1, <1>2, <1>3, <1>4, <1>5, <1>6 DEF CallbackInv, Decided

\* Once a callback was let in for money MTN has collected, the credits are there
\* or a job is left that follows it up.
THEOREM CallbackKeptHolds == Spec => []CallbackKept
<1>1. Init => CallbackInv
  <2> SUFFICES ASSUME Init PROVE CallbackInv
    OBVIOUS
  <2>1. \A w \in Workers : tx[w] = Idle
    BY DEF Init
  <2> QED
    BY <2>1 DEF Init, CallbackInv, Credits, Idle, Job
<1>2. ASSUME Inv, Inv', CallbackInv, [Next]_vars PROVE CallbackInv'
  <2>1. CASE UNCHANGED vars
    BY <1>2, <2>1 DEF CallbackInv, Credits, Decided, Followed, FollowsUp, vars, dbVars, queueVars,
       mtnVars, bounds
  <2>2. ASSUME NEW w \in Workers, Step(w) \/ Fault(w) \/ LoseAck(w) \/ Crash(w) PROVE CallbackInv'
    BY <1>2, <2>2, ClaimFollowed, EndFollowed, RunFollowed DEF Step
  <2> QED
    BY <1>2, <2>1, <2>2, WorldFollowed DEF Next
<1>3. ASSUME Inv, CallbackInv PROVE CallbackKept
  <2>1. ASSUME NEW p \in Payments, Followed(p) PROVE FollowUps(p) # {}
    <3>1. \A w \in Workers : FollowsUp(tx[w].job, p) => ~ At(w, "idle")
      BY <1>3 DEF Inv, Sound, Stages, FollowsUp, At
    <3> QED
      BY <2>1, <3>1 DEF Followed, FollowUps, FollowsUp
  <2> QED
    BY <1>3, <2>1 DEF CallbackInv, CallbackKept
<1> QED
  BY <1>1, <1>2, <1>3, SpecInv, PTL DEF Spec

-----------------------------------------------------------------------------
(* Where no poll overtakes another run                                     *)

NotOvertaken == overtaken = {}

\* What a poll is about to write is about rows that are still pending.
Fresher ==
    \A w \in Workers, p \in Payments :
        tx[w].job.kind = "poll" /\ tx[w].writes[p] # Keep => payment[p] = "pending"

LEMMA OvertakenStep ==
    ASSUME Fresher, NotOvertaken, [Next]_vars
    PROVE  NotOvertaken'
<1>1. ASSUME NEW w \in Workers, TakeEffect(w) PROVE NotOvertaken'
  BY <1>1 DEF TakeEffect, Fresher, Pollable, NotOvertaken
<1> QED
  BY <1>1, OnlyCommitsWrite DEF Commit, LoseAck, NotOvertaken

\* Without polls there are none.
NothingPolls ==
    /\ \A j \in jobs : j.kind # "poll"
    /\ \A w \in Workers : tx[w].job.kind # "poll"

LEMMA NothingPollsStep ==
    ASSUME ~ Polling, Inv, NothingPolls, [Next]_vars
    PROVE  NothingPolls'
<1>1. CASE UNCHANGED vars
  BY <1>1 DEF NothingPolls, vars, queueVars
<1>2. ASSUME NEW w \in Workers, Step(w) \/ Fault(w) \/ LoseAck(w) \/ Crash(w) PROVE NothingPolls'
  <2>1. ASSUME NEW j \in jobs, Claim(w, j) PROVE NothingPolls'
    <3>1. tx'[w].job.kind = j.kind /\ \A v \in Workers \ {w} : tx'[v] = tx[v]
      BY <2>1, JobTaken DEF Inv
    <3> QED
      BY <2>1, <3>1 DEF NothingPolls, Claim
  <2>2. ASSUME Commit(w) \/ LoseAck(w) \/ BreakDeadlock(w) \/ Fault(w) \/ Crash(w) PROVE NothingPolls'
    <3>1. tx'[w] = Idle /\ \A v \in Workers \ {w} : tx'[v] = tx[v]
      BY <2>2, JobLeft DEF Inv
    <3>2. jobs' \in {jobs, jobs \cup {tx[w].job}}
      BY <2>2 DEF Commit, LoseAck, BreakDeadlock, Fault, Crash, RollBack, PutBack, queueVars
    <3> QED
      BY <3>1, <3>2 DEF NothingPolls, Idle, Job
  <2>3. ASSUME ChooseBundle(w) \/ RequestToPay(w) \/ LockPayment(w) \/ VerifyPayment(w)
               \/ SelectPending(w) \/ QueryStatus(w) \/ Flush(w)
        PROVE  NothingPolls'
    <3>1. /\ tx'[w].job = tx[w].job /\ \A v \in Workers \ {w} : tx'[v] = tx[v]
          /\ UNCHANGED jobs
      BY <2>3, JobKept DEF Inv
    <3> QED
      BY <3>1 DEF NothingPolls
  <2> QED
    BY <1>2, <2>1, <2>2, <2>3 DEF Step
<1>3. CASE \/ \E bundle \in {"first", "default"} : PickBundle(bundle)
           \/ \E p \in Payments : MtnDecide(p) \/ MomoCallback(p) \/ Grow(p)
  BY <1>3 DEF NothingPolls, PickBundle, MtnDecide, MomoCallback, Grow, TopUpJob, ConfirmJob, Job,
     queueVars
<1> QED
  BY <1>1, <1>2, <1>3 DEF Next, PollDue

\* As nothing in the repository polls, no run is overtaken: with
\* CreditedOnceHolds, a payment is credited once, however many workers there
\* are.
THEOREM NotOvertakenUnpolled == ASSUME ~ Polling PROVE Spec => []NotOvertaken
<1>1. Init => NothingPolls /\ NotOvertaken
  BY DEF Init, NothingPolls, NotOvertaken, Idle, Job
<1>2. NothingPolls => Fresher
  BY DEF NothingPolls, Fresher
<1>3. Inv /\ NothingPolls /\ [Next]_vars => NothingPolls'
  BY NothingPollsStep
<1>4. NothingPolls /\ NotOvertaken /\ [Next]_vars => NotOvertaken'
  BY <1>2, OvertakenStep
<1> QED
  BY <1>1, <1>3, <1>4, SpecInv, PTL DEF Spec

\* One worker process, as deployed: nobody settles a payment between a poll's
\* unlocked read of it and the COMMIT of what the poll makes of it.
OneWorker == \A v, w \in Workers : v = w

StillPending ==
    \A w \in Workers :
        tx[w].job.kind = "poll" =>
            /\ \A i \in 1 .. Len(tx[w].todo) : payment[tx[w].todo[i]] = "pending"
            /\ \A p \in Payments : tx[w].writes[p] # Keep => payment[p] = "pending"

LEMMA SelectedPending ==
    ASSUME Inv, NEW w \in Workers, SelectPending(w)
    PROVE  /\ \A i \in 1 .. Len(tx'[w].todo) : payment[tx'[w].todo[i]] = "pending"
           /\ \A p \in Payments : tx'[w].writes[p] = Keep
<1> DEFINE S == {p \in Payments : Pollable(payment[p]) /\ age[p] >= 1}
           late == {p \in Payments : age[p] = 2}
<1>1. PICK todo \in SetToSeqs(S) :
          Goto(w, [tx[w] EXCEPT !.todo = todo, !.overdue = late,
                                !.pc = IF todo = <<>> THEN "commit" ELSE "query"])
  BY DEF SelectPending
<1>2. tx[w] \in TxType /\ tx[w].pc = "select" /\ Sound(w) /\ TypeOK
  BY DEF Inv, SelectPending, At, TypeOK
<1>3. todo \in Seq(S)
  BY FS_Subset, OrdersType
<1>4. tx'[w].todo = todo /\ tx'[w].writes = tx[w].writes
  BY <1>1, <1>2 DEF Goto, TypeOK, TxType
<1>5. tx[w].pay = NoPayment /\ tx[w].job.kind = "poll"
  BY <1>2 DEF Sound, Stages, ToppingUp, TxType, JobType
<1>6. \A p \in Payments : tx[w].writes[p] = Keep
  BY <1>2, <1>5 DEF Sound, Written, Keep
<1> QED
  BY <1>3, <1>4, <1>6 DEF Pollable

LEMMA QueriedPending ==
    ASSUME Inv, NEW w \in Workers, QueryStatus(w), StillPending
    PROVE  /\ \A i \in 1 .. Len(tx'[w].todo) : payment[tx'[w].todo[i]] = "pending"
           /\ \A p \in Payments : tx'[w].writes[p] # Keep => payment[p] = "pending"
<1> DEFINE q == Head(tx[w].todo)
           x == [tx[w].writes EXCEPT ![q] = PollVerdict(q, tx[w])]
           u == [tx[w] EXCEPT !.writes[q] = PollVerdict(q, tx[w]), !.todo = Tail(@)]
<1>1. tx[w] \in TxType /\ tx[w].pc = "query" /\ Sound(w) /\ TypeOK
  BY DEF Inv, QueryStatus, At, TypeOK
<1>2. tx[w].job.kind = "poll" /\ tx[w].todo # <<>> /\ tx[w].todo \in Seq(Payments)
  BY <1>1 DEF Sound, Stages, Polled, TxType, JobType
<1>3. PICK pc : Goto(w, [u EXCEPT !.pc = pc])
  BY DEF QueryStatus
<1>4. tx'[w].todo = Tail(tx[w].todo) /\ tx'[w].writes = x
  BY <1>1, <1>3 DEF Goto, TypeOK, TxType
<1>5. payment[q] = "pending"
  BY <1>2 DEF StillPending
<1>6. \A i \in 1 .. Len(Tail(tx[w].todo)) : payment[Tail(tx[w].todo)[i]] = "pending"
  BY <1>2 DEF StillPending
<1>7. \A p \in Payments : x[p] # Keep => payment[p] = "pending"
  BY <1>1, <1>2, <1>5 DEF StillPending, TxType
<1> QED
  BY <1>4, <1>6, <1>7

LEMMA StillPendingStep ==
    ASSUME OneWorker, Inv, StillPending, [Next]_vars
    PROVE  StillPending'
<1> USE DEF dbVars, queueVars, mtnVars, bounds
<1>0. TypeOK /\ \A w \in Workers : tx[w] \in TxType
  BY DEF Inv, TypeOK
<1>1. CASE UNCHANGED <<payment, tx>>
  BY <1>1 DEF StillPending
<1>2. ASSUME NEW w \in Workers, Step(w) \/ Fault(w) \/ LoseAck(w) \/ Crash(w) PROVE StillPending'
  <2> SUFFICES ASSUME tx'[w].job.kind = "poll"
               PROVE  /\ \A i \in 1 .. Len(tx'[w].todo) : payment'[tx'[w].todo[i]] = "pending"
                      /\ \A p \in Payments : tx'[w].writes[p] # Keep => payment'[p] = "pending"
    BY DEF StillPending, OneWorker
  <2>1. tx'[w] # Idle
    BY DEF Idle, Job
  <2>2. ~ (Commit(w) \/ LoseAck(w) \/ BreakDeadlock(w) \/ Fault(w) \/ Crash(w))
    BY <1>0, <2>1, JobLeft
  <2>3. UNCHANGED payment
    BY <1>2, <2>2 DEF Step, Claim, ChooseBundle, RequestToPay, LockPayment, VerifyPayment,
       SelectPending, QueryStatus, Flush
  <2>4. ASSUME NEW j \in jobs, Claim(w, j)
        PROVE  Len(tx'[w].todo) = 0 /\ \A p \in Payments : tx'[w].writes[p] = Keep
    BY <1>0, <2>4, JobTaken
  <2>5. CASE SelectPending(w)
    BY <2>3, <2>5, SelectedPending
  <2>6. CASE QueryStatus(w)
    BY <2>3, <2>6, QueriedPending
  <2>7. ~ (ChooseBundle(w) \/ RequestToPay(w) \/ LockPayment(w) \/ VerifyPayment(w))
    <3>1. ChooseBundle(w) \/ RequestToPay(w) \/ LockPayment(w) \/ VerifyPayment(w)
          => tx'[w].job = tx[w].job
      BY <1>0, JobKept
    <3>2. Stages(w)
      BY DEF Inv, Sound
    <3> QED
      BY <3>1, <3>2 DEF Stages, ChooseBundle, RequestToPay, LockPayment, VerifyPayment, At
  <2>8. CASE Flush(w)
    <3>1. tx'[w].todo = tx[w].todo /\ tx'[w].writes = tx[w].writes /\ tx'[w].job = tx[w].job
      BY <1>0, <2>8 DEF Flush, Goto, TypeOK, TxType
    <3> QED
      BY <2>3, <3>1 DEF StillPending
  <2> QED
    BY <1>2, <2>2, <2>4, <2>5, <2>6, <2>7, <2>8 DEF Step
<1>3. (\E w \in Workers : Step(w) \/ Fault(w) \/ LoseAck(w) \/ Crash(w)) \/ UNCHANGED <<payment, tx>>
  BY DEF Next, vars, PickBundle, MtnDecide, MomoCallback, Grow, PollDue
<1> QED
  BY <1>1, <1>2, <1>3

\* With polls, and with the one worker process that is deployed, no run is
\* overtaken either.
THEOREM NotOvertakenByOneWorker == ASSUME OneWorker PROVE Spec => []NotOvertaken
<1>1. Init => StillPending /\ NotOvertaken
  BY DEF Init, StillPending, NotOvertaken, Idle, Job
<1>2. StillPending => Fresher
  BY DEF StillPending, Fresher
<1>3. Inv /\ StillPending /\ [Next]_vars => StillPending'
  BY StillPendingStep
<1>4. StillPending /\ NotOvertaken /\ [Next]_vars => NotOvertaken'
  BY <1>2, OvertakenStep
<1> QED
  BY <1>1, <1>3, <1>4, SpecInv, PTL DEF Spec

=============================================================================
