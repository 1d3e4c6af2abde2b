------------------------------ MODULE Payments ------------------------------
(***************************************************************************)
(* Top-ups (services/payments.py, handlers/payments.py, momo_callback in   *)
(* main.py and the topup: buttons of handlers/provider_commands.py): asking*)
(* MTN to collect the price of a bundle from a provider, learning from a   *)
(* callback or by polling that he paid, and crediting him.                 *)
(*                                                                         *)
(* The payments are those of one provider; nothing is read across          *)
(* providers. Each worker runs one job in one READ COMMITTED transaction   *)
(* whose writes are kept in tx[w] until Commit; what MTN was asked stays   *)
(* asked when the transaction rolls back. A COMMIT may take effect and its *)
(* answer be lost: then the job runs again. The job queue is seen as       *)
(* JobQueue shows it, as in Dispatch.                                      *)
(*                                                                         *)
(* Nothing in the repository enqueues poll_pending_payments: Polling says  *)
(* whether something outside it (a cron job, an operator) keeps doing so.  *)
(***************************************************************************)
EXTENDS Integers, Sequences, FiniteSets, SequencesExt

CONSTANTS
    Workers,
    Payments,       \* references, each drawn by one run of initiate_payment
    NoPayment,
    Nobody,
    Polling,        \* does anything enqueue poll_pending_payments?
    MaxAttempts,    \* job.max_attempts
    MaxTopUps,      \* bound: bundles the provider picks
    MaxCallbacks,   \* bound: callbacks of MTN let in for one payment
    MaxFaults       \* bound: failed calls and sends, lost answers of COMMIT,
                    \* and workers that lose their job in mid-run

ASSUME PaymentsAssumption ==
    /\ NoPayment \notin Payments
    /\ Nobody \notin Workers
    /\ IsFiniteSet(Payments)
    /\ Polling \in BOOLEAN
    /\ MaxAttempts \in Nat \ {0}
    /\ {MaxTopUps, MaxCallbacks, MaxFaults} \subseteq Nat
    /\ MaxTopUps + MaxFaults <= Cardinality(Payments)   \* references suffice

VARIABLES
    payment,        \* payment.state, "none" before the row is committed
    purchases,      \* purchase rows of the ledger for each payment, counted
    mtn,            \* what MTN answers about each reference
    age,            \* 0, then 1 past poll_after, then 2 past stuck_after
    jobs,           \* pending jobs
    dead,           \* jobs that failed MaxAttempts times
    lost,           \* jobs left in state claimed by a worker that lost them
    tx,             \* the transaction of each worker
    lock,           \* who holds each payment's row
    overtaken,      \* payments that a poll wrote when another run had moved
                    \* them on since the poll read them
    topups, callbacks, faults

dbVars == <<payment, purchases>>
queueVars == <<jobs, dead, lost>>
mtnVars == <<mtn, age>>
bounds == <<topups, callbacks, faults>>
vars == <<dbVars, queueVars, mtnVars, tx, lock, overtaken, bounds>>

PaymentStates == {"none", "pending", "succeeded", "failed", "stuck"}

Job(kind, p, bundle, n) ==
    [kind |-> kind, pay |-> p, bundle |-> bundle, n |-> n, att |-> 0]

TopUpJob(bundle, n) == Job("topup", NoPayment, bundle, n)
ConfirmJob(p, n) == Job("confirm", p, "none", n)
PollJob == Job("poll", NoPayment, "none", 0)

Keep == "keep"      \* a row the transaction does not write

Idle ==
    [pc |-> "idle", job |-> Job("none", NoPayment, "none", 0), pay |-> NoPayment,
     todo |-> <<>>, overdue |-> {}, writes |-> [p \in Payments |-> Keep]]

At(w, step) == tx[w].pc = step
Goto(w, t) == tx' = [tx EXCEPT ![w] = t]

\* initiated is written and overwritten in one transaction, so that a row is
\* never seen in it.
Pollable(st) == st = "pending"

TerminalFailed(st) == st = "failed"                 \* mutant
TerminalOrStuck(st) == st \in {"succeeded", "failed", "stuck"}  \* mutant
Terminal(st) == st \in {"succeeded", "failed"}

-----------------------------------------------------------------------------
(* Row locks: FOR UPDATE and UPDATE exclude each other and themselves      *)

Dirty(w) == {p \in Payments : tx[w].writes[p] # Keep /\ lock[p] # w}

NeedsWithoutSelect(w) == IF At(w, "flush") THEN Dirty(w) ELSE {}  \* mutant: no FOR UPDATE

\* The rows the next statement of a worker's transaction locks.
Needs(w) ==
    CASE At(w, "lock")  -> {tx[w].job.pay}
      [] At(w, "flush") -> Dirty(w)
      [] OTHER          -> {}

Blockers(w) == {lock[p] : p \in Needs(w)} \ {w, Nobody}

Acquire(w) ==
    /\ Blockers(w) = {}
    /\ lock' = [p \in Payments |-> IF p \in Needs(w) THEN w ELSE lock[p]]

Unlock(w) == lock' = [p \in Payments |-> IF lock[p] = w THEN Nobody ELSE lock[p]]

Deadlocked(w) ==
    \E S \in SUBSET Workers :
        w \in S /\ \A v \in S : Blockers(v) \cap S # {}

-----------------------------------------------------------------------------
(* Jobs, as JobQueue promises them                                         *)

FirstStep(j) ==
    CASE j.kind = "topup"   -> "choose"
      [] j.kind = "confirm" -> "lock"
      [] OTHER              -> "select"

Claim(w, j) ==
    /\ At(w, "idle")
    /\ j \in jobs
    /\ jobs' = jobs \ {j}
    /\ Goto(w, [Idle EXCEPT !.pc = FirstStep(j), !.job = [j EXCEPT !.att = @ + 1]])
    /\ UNCHANGED <<dbVars, dead, lost, mtnVars, lock, overtaken, bounds>>

\* A COMMIT that takes effect: so do the writes, whatever the rows hold by now.
TakeEffect(w) ==
    LET t == tx[w]
        written == {p \in Payments : t.writes[p] # Keep}
    IN
    /\ At(w, "commit")
    /\ payment' = [p \in Payments |->
           IF t.writes[p] = Keep THEN payment[p] ELSE t.writes[p]]
    /\ purchases' = [p \in Payments |->
           IF t.writes[p] = "succeeded" THEN purchases[p] + 1 ELSE purchases[p]]
    /\ overtaken' = overtaken \cup
           (IF t.job.kind = "poll" THEN {p \in written : ~ Pollable(payment[p])} ELSE {})
    /\ Goto(w, Idle)
    /\ Unlock(w)
    /\ UNCHANGED mtnVars

Commit(w) == TakeEffect(w) /\ UNCHANGED <<queueVars, bounds>>

\* The worker takes the run for a failed one.
PutBack(w) ==
    LET j == tx[w].job
    IN  IF j.att < MaxAttempts
        THEN jobs' = jobs \cup {j} /\ UNCHANGED <<dead, lost>>
        ELSE dead' = dead \cup {j} /\ UNCHANGED <<jobs, lost>>

RollBack(w) ==
    /\ PutBack(w)
    /\ Goto(w, Idle)
    /\ Unlock(w)
    /\ UNCHANGED <<dbVars, mtnVars, overtaken>>

CountFault == faults < MaxFaults /\ faults' = faults + 1 /\ UNCHANGED <<topups, callbacks>>

\* A call to MTN, a send or the database raises, before or after its effect.
Fault(w) == ~ At(w, "idle") /\ RollBack(w) /\ CountFault

\* The COMMIT takes effect and its answer is lost.
LoseAck(w) == TakeEffect(w) /\ PutBack(w) /\ CountFault

BreakDeadlock(w) ==
    /\ Deadlocked(w)
    /\ RollBack(w)
    /\ UNCHANGED bounds

\* The process dies, or the transaction that would put its job back fails: the
\* job stays in state claimed, which nothing undoes.
Crash(w) ==
    /\ ~ At(w, "idle")
    /\ CountFault
    /\ lost' = lost \cup {tx[w].job}
    /\ Goto(w, Idle)
    /\ Unlock(w)
    /\ UNCHANGED <<dbVars, jobs, dead, mtnVars, overtaken>>

-----------------------------------------------------------------------------
(* The topup: buttons and initiate_payment                                 *)

\* get_bundles: first_purchase as long as no payment has succeeded.
Offered(bundle) == bundle = "default" \/ \A p \in Payments : payment[p] # "succeeded"

\* References nobody has used. (A uuid4: there is always another.)
Fresh ==
    {p \in Payments : mtn[p] = "none" /\ \A w \in Workers : tx[w].pay # p}

ChooseBundle(w) ==
    /\ At(w, "choose")
    /\ IF Offered(tx[w].job.bundle)
       THEN \E p \in Fresh : Goto(w, [tx[w] EXCEPT !.pay = p, !.pc = "ask"])
       ELSE Goto(w, [tx[w] EXCEPT !.pc = "commit"])
    /\ UNCHANGED <<dbVars, queueVars, mtnVars, lock, overtaken, bounds>>

\* The row is flushed as initiated, MTN is asked, the row becomes pending and
\* the provider is told to look at his phone. Only then does it commit.
RequestToPay(w) ==
    LET p == tx[w].pay IN
    /\ At(w, "ask")
    /\ mtn' = [mtn EXCEPT ![p] = "PENDING"]
    /\ Goto(w, [tx[w] EXCEPT !.writes[p] = "pending", !.pc = "commit"])
    /\ UNCHANGED <<dbVars, queueVars, age, lock, overtaken, bounds>>

-----------------------------------------------------------------------------
(* confirm_payment                                                         *)

\* session.get(Payment, with_for_update=True)
LockPayment(w) ==
    /\ At(w, "lock")
    /\ Acquire(w)
    /\ Goto(w, [tx[w] EXCEPT
           !.pc = IF Terminal(payment[tx[w].job.pay]) THEN "commit" ELSE "verify"])
    /\ UNCHANGED <<dbVars, queueVars, mtnVars, overtaken, bounds>>

VerdictRaw(status) == status                        \* mutant
VerdictOptimist(status) == IF status = "FAILED" THEN "failed" ELSE "succeeded"  \* mutant
Verdict(status) ==
    CASE status = "SUCCESSFUL" -> "succeeded"
      [] status = "FAILED"     -> "failed"
      [] OTHER                 -> Keep

\* get_payment_status is asked; what the callback said is not looked at.
VerifyPayment(w) ==
    LET p == tx[w].job.pay IN
    /\ At(w, "verify")
    /\ Goto(w, [tx[w] EXCEPT !.writes[p] = Verdict(mtn[p]), !.pc = "commit"])
    /\ UNCHANGED <<dbVars, queueVars, mtnVars, lock, overtaken, bounds>>

-----------------------------------------------------------------------------
(* poll_pending_payments                                                   *)

\* The rows are read without a lock and not looked at again.
SelectPending(w) ==
    /\ At(w, "select")
    /\ \E todo \in SetToSeqs({p \in Payments : Pollable(payment[p]) /\ age[p] >= 1}) :
           Goto(w, [tx[w] EXCEPT !.todo = todo,
                                 !.overdue = {p \in Payments : age[p] = 2},
                                 !.pc = IF todo = <<>> THEN "commit" ELSE "query"])
    /\ UNCHANGED <<dbVars, queueVars, mtnVars, lock, overtaken, bounds>>

PollVerdict(p, t) ==
    IF Verdict(mtn[p]) = Keep /\ p \in t.overdue THEN "stuck" ELSE Verdict(mtn[p])

\* A success is flushed before its message is sent; a failure or a stuck
\* payment waits for the next flush, or for that of the commit.
QueryStatus(w) ==
    LET p == Head(tx[w].todo)
        verdict == PollVerdict(p, tx[w])
        t == [tx[w] EXCEPT !.writes[p] = verdict, !.todo = Tail(@)]
        unflushed == Dirty(w) # {} \/ verdict # Keep
    IN  /\ At(w, "query")
        /\ Goto(w, [t EXCEPT
               !.pc = CASE verdict = "succeeded"         -> "flush"
                        [] t.todo # <<>>                 -> "query"
                        [] unflushed                     -> "flush"
                        [] OTHER                         -> "commit"])
        /\ UNCHANGED <<dbVars, queueVars, mtnVars, lock, overtaken, bounds>>

\* UPDATE payment SET ... WHERE id = ..., in the order of the keys.
Flush(w) ==
    /\ At(w, "flush")
    /\ Acquire(w)
    /\ Goto(w, [tx[w] EXCEPT !.pc = IF tx[w].todo = <<>> THEN "commit" ELSE "query"])
    /\ UNCHANGED <<dbVars, queueVars, mtnVars, overtaken, bounds>>

-----------------------------------------------------------------------------
(* The provider, MTN and time                                              *)

PickBundle(bundle) ==
    /\ topups < MaxTopUps
    /\ topups' = topups + 1
    /\ jobs' = jobs \cup {TopUpJob(bundle, topups + 1)}
    /\ UNCHANGED <<dbVars, dead, lost, mtnVars, tx, lock, overtaken, callbacks, faults>>

\* The provider approves, refuses or lets the request lapse.
MtnDecide(p) ==
    /\ mtn[p] = "PENDING"
    /\ \E status \in {"SUCCESSFUL", "FAILED"} : mtn' = [mtn EXCEPT ![p] = status]
    /\ UNCHANGED <<dbVars, queueVars, age, tx, lock, overtaken, bounds>>

\* momo_callback. One with a reference that is not in the table is ignored; it
\* changes nothing.
MomoCallback(p) ==
    /\ mtn[p] \in {"SUCCESSFUL", "FAILED"}
    /\ payment[p] # "none"
    /\ callbacks[p] < MaxCallbacks
    /\ callbacks' = [callbacks EXCEPT ![p] = @ + 1]
    /\ jobs' = jobs \cup {ConfirmJob(p, callbacks[p] + 1)}
    /\ UNCHANGED <<dbVars, dead, lost, mtnVars, tx, lock, overtaken, topups, faults>>

PollDue ==
    /\ Polling
    /\ PollJob \notin jobs
    /\ jobs' = jobs \cup {PollJob}
    /\ UNCHANGED <<dbVars, dead, lost, mtnVars, tx, lock, overtaken, bounds>>

Grow(p) ==
    /\ payment[p] = "pending"
    /\ age[p] < 2
    /\ age' = [age EXCEPT ![p] = @ + 1]
    /\ UNCHANGED <<dbVars, queueVars, mtn, tx, lock, overtaken, bounds>>

-----------------------------------------------------------------------------
Init ==
    /\ payment = [p \in Payments |-> "none"]
    /\ purchases = [p \in Payments |-> 0]
    /\ mtn = [p \in Payments |-> "none"]
    /\ age = [p \in Payments |-> 0]
    /\ jobs = {}
    /\ dead = {}
    /\ lost = {}
    /\ tx = [w \in Workers |-> Idle]
    /\ lock = [p \in Payments |-> Nobody]
    /\ overtaken = {}
    /\ topups = 0
    /\ callbacks = [p \in Payments |-> 0]
    /\ faults = 0

Step(w) ==
    \/ \E j \in jobs : Claim(w, j)
    \/ Commit(w)
    \/ BreakDeadlock(w)
    \/ ChooseBundle(w)
    \/ RequestToPay(w)
    \/ LockPayment(w)
    \/ VerifyPayment(w)
    \/ SelectPending(w)
    \/ QueryStatus(w)
    \/ Flush(w)

Next ==
    \/ \E w \in Workers : Step(w) \/ Fault(w) \/ LoseAck(w) \/ Crash(w)
    \/ \E bundle \in {"first", "default"} : PickBundle(bundle)
    \/ \E p \in Payments : MtnDecide(p) \/ MomoCallback(p) \/ Grow(p)
    \/ PollDue

Spec == Init /\ [][Next]_vars

\* Every job there can be, and its claim in whichever attempt.
AllJobs ==
    {PollJob}
    \cup {TopUpJob(b, n) : b \in {"first", "default"}, n \in 1..MaxTopUps}
    \cup {ConfirmJob(p, n) : p \in Payments, n \in 1..MaxCallbacks}

Claimed(j) ==
    \E w \in Workers, n \in 0..(MaxAttempts - 1) : Claim(w, [j EXCEPT !.att = n])

\* Workers work; jobs are claimed in the order of run_at, so that none waits
\* for ever behind others; time passes; where there is Polling, polls fall
\* due. The provider need not answer, and a callback may be lost.
FairSpec ==
    /\ Spec
    /\ \A w \in Workers : WF_vars(Step(w))
    /\ \A j \in AllJobs : SF_vars(Claimed(j))
    /\ \A p \in Payments : WF_vars(Grow(p))
    /\ WF_vars(PollDue)

-----------------------------------------------------------------------------
(* Properties                                                              *)

JobType ==
    [kind : {"none", "topup", "confirm", "poll"}, pay : Payments \cup {NoPayment},
     bundle : {"none", "first", "default"}, n : Nat, att : Nat]

TxType ==
    [pc : {"idle", "choose", "ask", "lock", "verify", "select", "query", "flush", "commit"},
     job : JobType, pay : Payments \cup {NoPayment}, todo : Seq(Payments),
     overdue : SUBSET Payments,
     writes : [Payments -> {Keep, "pending", "succeeded", "failed", "stuck"}]]

\* The types of the tables, of the jobs and of the transactions.
TypeOK ==
    /\ payment \in [Payments -> PaymentStates]
    /\ purchases \in [Payments -> Nat]
    /\ mtn \in [Payments -> {"none", "PENDING", "SUCCESSFUL", "FAILED"}]
    /\ age \in [Payments -> 0..2]
    /\ \A j \in jobs \cup dead \cup lost : j \in JobType
    /\ tx \in [Workers -> TxType]
    /\ lock \in [Payments -> Workers \cup {Nobody}]
    /\ overtaken \subseteq Payments
    /\ callbacks \in [Payments -> Nat]
    /\ {topups, faults} \subseteq Nat

\* Credits are written exactly when a payment succeeds and only once, however
\* many workers look at it because of callbacks, retries and polls (FR-PAY-06,
\* -07): all but a payment that a poll, which reads the rows without a lock,
\* wrote after another run had moved it on.
CreditedOnce ==
    \A p \in Payments \ overtaken :
        purchases[p] = IF payment[p] = "succeeded" THEN 1 ELSE 0

\* confirm_payment looks again at the row once it has locked it: whatever
\* callbacks, retries and polls run beside it, it never credits a payment, nor
\* writes it off, that another run has already settled.
ConfirmSettlesOnce ==
    [][\A w \in Workers, p \in Payments :
           TakeEffect(w) /\ tx[w].job.kind = "confirm" /\ Terminal(payment[p])
           => payment'[p] = payment[p] /\ purchases'[p] = purchases[p]]_vars

\* MTN was asked to collect it, and no row tells nor will tell of it.
Unrecorded ==
    {p \in Payments : mtn[p] # "none" /\ payment[p] = "none" /\ \A w \in Workers : tx[w].pay # p}

\* Credits are written only for money MTN has collected, a failure is noted
\* only when MTN has given up: what was read before the lock, the flush or
\* the commit still holds after it. And what MTN was asked to collect is on
\* record (FR-PAY-02), but for the runs that failed or died after they asked.
AgreesWithMtn ==
    /\ \A p \in Payments :
          /\ payment[p] = "succeeded" => mtn[p] = "SUCCESSFUL"
          /\ payment[p] = "failed" => mtn[p] = "FAILED"
    /\ Cardinality(Unrecorded) <= faults

\* A payment in sight of the polls does not stay pending (FR-PAY-05, -08).
PendingSettles ==
    \A p \in Payments : (payment[p] = "pending") ~> (payment[p] # "pending")

\* The jobs that follow up a callback for a payment: waiting, at work, or given
\* up after MaxAttempts failures or the loss of their worker.
FollowUps(p) ==
    {j \in jobs \cup dead \cup lost \cup {tx[w].job : w \in {v \in Workers : ~ At(v, "idle")}} :
        j.kind = "confirm" /\ j.pay = p}

\* A callback is never forgotten: once one was let in for money MTN has
\* collected, its credits are there or a job is left that follows it up,
\* whatever fails, and also when the payment had been given up as stuck, or is
\* polled at the same time.
CallbackKept ==
    \A p \in Payments :
        callbacks[p] > 0 /\ mtn[p] = "SUCCESSFUL"
            => purchases[p] > 0 \/ FollowUps(p) # {}

=============================================================================
