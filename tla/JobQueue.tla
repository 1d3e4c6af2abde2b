------------------------------ MODULE JobQueue ------------------------------
(***************************************************************************)
(* The job table and the workers that drain it (worker.py, jobs.py).       *)
(*                                                                         *)
(* A worker handles one job in three database transactions: it CLAIMS the  *)
(* oldest due job (SELECT ... FOR UPDATE SKIP LOCKED, then UPDATE), it     *)
(* RUNS the handler and marks the job succeeded in one transaction, and,   *)
(* when the handler raised, it SETTLES the job in a third transaction:     *)
(* back to pending after a backoff, or dead.                               *)
(*                                                                         *)
(* A handler is abstracted to two kinds of outcome: what it writes to the  *)
(* database, which commits or rolls back with its transaction, and what it *)
(* sends to the outside (WhatsApp, MTN), which no rollback undoes.         *)
(***************************************************************************)
EXTENDS Integers, FiniteSets

CONSTANTS
    Workers,        \* worker loops (run_worker)
    Jobs,           \* rows the job table may come to hold
    Unhandled,      \* jobs whose kind no handler is registered for
    NoJob,          \* what a worker holds when it holds nothing
    MaxAttempts,    \* job.max_attempts (5 in enqueue_job)
    Base,           \* config job_backoff_base_seconds, in ticks
    Lag,            \* how far behind its due time a job is told apart
    MaxCrashes,     \* bound: how often worker processes die in a behaviour
    MaxErrors,      \* bound: how often a transaction around the handler fails
    AckLoss         \* may a COMMIT take effect and its answer be lost?

ASSUME JobQueueAssumption ==
    /\ NoJob \notin Jobs
    /\ Unhandled \subseteq Jobs
    /\ MaxAttempts \in Nat \ {0}
    /\ Base \in Nat
    /\ Lag \in Nat
    /\ MaxCrashes \in Nat
    /\ MaxErrors \in Nat
    /\ AckLoss \in BOOLEAN

VARIABLES
    state,          \* job.state ("absent" before the row is inserted)
    attempts,       \* job.attempts
    due,            \* job.scheduled_at minus the clock, never below -Lag
    effects,        \* how many times the handler's writes were committed
    sends,          \* how many times the handler ran up to its sends
    pc,             \* where a worker is in _claim_one
    held,           \* the job a worker is working on (its _ClaimedJob)
    tries,          \* _ClaimedJob.attempts, copied when the job is claimed
    crashes,        \* how often a worker process has died
    errors,         \* how often run_worker has logged "Worker loop error"
    unacked         \* jobs of which a COMMIT took effect without an answer

jobVars == <<state, attempts, due, effects, sends>>
workerVars == <<pc, held, tries>>
faultVars == <<crashes, errors, unacked>>
vars == <<jobVars, workerVars, faultVars>>

JobStates == {"absent", "pending", "claimed", "succeeded", "dead"}
Settled == {"succeeded", "dead"}
Stages == {"idle", "locked", "claimed", "running", "raised"}

Init ==
    /\ state = [j \in Jobs |-> "absent"]
    /\ attempts = [j \in Jobs |-> 0]
    /\ due = [j \in Jobs |-> 0]
    /\ effects = [j \in Jobs |-> 0]
    /\ sends = [j \in Jobs |-> 0]
    /\ pc = [w \in Workers |-> "idle"]
    /\ held = [w \in Workers |-> NoJob]
    /\ tries = [w \in Workers |-> 0]
    /\ crashes = 0
    /\ errors = 0
    /\ unacked = {}

-----------------------------------------------------------------------------
(* The table                                                               *)

\* enqueue_job, committed by whoever called it. A job may be scheduled for
\* now or, as a wave timeout is, for later.
Enqueue(j, delay) ==
    /\ state[j] = "absent"
    /\ state' = [state EXCEPT ![j] = "pending"]
    /\ due' = [due EXCEPT ![j] = delay]
    /\ UNCHANGED <<attempts, effects, sends, workerVars, faultVars>>

\* One tick of the clock: every scheduled_at comes one tick closer.
Tick ==
    /\ \E j \in Jobs : state[j] = "pending" /\ due[j] > -Lag
    /\ due' = [j \in Jobs |-> IF state[j] = "pending" /\ due[j] > -Lag
                              THEN due[j] - 1 ELSE due[j]]
    /\ UNCHANGED <<state, attempts, effects, sends, workerVars, faultVars>>

\* The row lock of the claiming transaction: held from its SELECT to its
\* COMMIT. Rows locked by the later UPDATEs of the same job cannot be found
\* by the SELECT, their state is no longer pending.
RowLocked(j) == \E w \in Workers : pc[w] = "locked" /\ held[w] = j

\* Mutant: FOR UPDATE without SKIP LOCKED's effect, the row is not locked.
ClaimableUnlocked(j) == state[j] = "pending" /\ due[j] <= 0

\* Mutant: scheduled_at = now instead of <=.
ClaimableOnTheTick(j) == state[j] = "pending" /\ due[j] = 0 /\ ~ RowLocked(j)

\* WHERE state = 'pending' AND scheduled_at <= now ... SKIP LOCKED
Claimable(j) == state[j] = "pending" /\ due[j] <= 0 /\ ~ RowLocked(j)

Backoff(n) == Base * 2 ^ (n - 1)

-----------------------------------------------------------------------------
(* Phase 1: claim                                                          *)

\* SELECT ... ORDER BY scheduled_at LIMIT 1 FOR UPDATE SKIP LOCKED
LockJob(w, j) ==
    /\ pc[w] = "idle"
    /\ Claimable(j)
    /\ \A k \in Jobs : Claimable(k) => due[j] <= due[k]
    /\ pc' = [pc EXCEPT ![w] = "locked"]
    /\ held' = [held EXCEPT ![w] = j]
    /\ UNCHANGED <<tries, jobVars, faultVars>>

\* state = claimed, attempts += 1, the copy kept in _ClaimedJob, COMMIT
CommitClaim(w) ==
    /\ pc[w] = "locked"
    /\ LET j == held[w] IN
       /\ state' = [state EXCEPT ![j] = "claimed"]
       /\ attempts' = [attempts EXCEPT ![j] = @ + 1]
       /\ tries' = [tries EXCEPT ![w] = attempts[j] + 1]
    /\ pc' = [pc EXCEPT ![w] = "claimed"]
    /\ UNCHANGED <<due, effects, sends, held, faultVars>>

\* The worker is done with its job and goes back to the top of its loop.
Release(w) ==
    /\ pc' = [pc EXCEPT ![w] = "idle"]
    /\ held' = [held EXCEPT ![w] = NoJob]
    /\ tries' = [tries EXCEPT ![w] = 0]

\* HANDLERS.get(kind) is None: dead at once, whatever its attempts
NoHandler(w) ==
    /\ pc[w] = "claimed"
    /\ held[w] \in Unhandled
    /\ state' = [state EXCEPT ![held[w]] = "dead"]
    /\ Release(w)
    /\ UNCHANGED <<attempts, due, effects, sends, faultVars>>

-----------------------------------------------------------------------------
(* Phase 2: run the handler and mark the job, in one transaction           *)

\* The handler reaches the outside world before its transaction commits.
RunHandler(w) ==
    /\ pc[w] = "claimed"
    /\ held[w] \notin Unhandled
    /\ sends' = [sends EXCEPT ![held[w]] = @ + 1]
    /\ pc' = [pc EXCEPT ![w] = "running"]
    /\ UNCHANGED <<state, attempts, due, effects, held, tries, faultVars>>

\* The handler returned: its writes and state = succeeded commit together.
CommitSuccess(w) ==
    /\ pc[w] = "running"
    /\ state' = [state EXCEPT ![held[w]] = "succeeded"]
    /\ effects' = [effects EXCEPT ![held[w]] = @ + 1]
    /\ Release(w)
    /\ UNCHANGED <<attempts, due, sends, faultVars>>

\* Mutant: the handler commits its own writes before it raises.
RaiseKeepingWrites(w) ==
    /\ pc[w] = "running"
    /\ effects' = [effects EXCEPT ![held[w]] = @ + 1]
    /\ pc' = [pc EXCEPT ![w] = "raised"]
    /\ UNCHANGED <<state, attempts, due, sends, held, tries, faultVars>>

\* The handler, its UPDATE or its COMMIT raised: everything it wrote is
\* rolled back and the except clause takes over.
Raise(w) ==
    /\ pc[w] = "running"
    /\ pc' = [pc EXCEPT ![w] = "raised"]
    /\ UNCHANGED <<held, tries, jobVars, faultVars>>

\* The COMMIT of phase 2 took effect but its answer was lost: the worker
\* sees an exception and goes to phase 3 with a job that has succeeded.
LoseAck(w) ==
    /\ AckLoss
    /\ pc[w] = "running"
    /\ state' = [state EXCEPT ![held[w]] = "succeeded"]
    /\ effects' = [effects EXCEPT ![held[w]] = @ + 1]
    /\ pc' = [pc EXCEPT ![w] = "raised"]
    /\ unacked' = unacked \cup {held[w]}
    /\ UNCHANGED <<attempts, due, sends, held, tries, crashes, errors>>

-----------------------------------------------------------------------------
(* Phase 3: retry or dead, decided on the copy taken at the claim          *)

\* Mutants: one retry too many; the job is not put back; the job is put in
\* the "failed" state that models.py declares.
RetryOnceMore(w) ==
    /\ pc[w] = "raised"
    /\ tries[w] <= MaxAttempts
    /\ state' = [state EXCEPT ![held[w]] = "pending"]
    /\ due' = [due EXCEPT ![held[w]] = Backoff(tries[w])]
    /\ Release(w)
    /\ UNCHANGED <<attempts, effects, sends, faultVars>>
RetryLeavesClaimed(w) ==
    /\ pc[w] = "raised"
    /\ tries[w] < MaxAttempts
    /\ due' = [due EXCEPT ![held[w]] = Backoff(tries[w])]
    /\ Release(w)
    /\ UNCHANGED <<state, attempts, effects, sends, faultVars>>
RetryAsFailed(w) ==
    /\ pc[w] = "raised"
    /\ tries[w] < MaxAttempts
    /\ state' = [state EXCEPT ![held[w]] = "failed"]
    /\ Release(w)
    /\ UNCHANGED <<attempts, due, effects, sends, faultVars>>

Retry(w) ==
    /\ pc[w] = "raised"
    /\ tries[w] < MaxAttempts
    /\ state' = [state EXCEPT ![held[w]] = "pending"]
    /\ due' = [due EXCEPT ![held[w]] = Backoff(tries[w])]
    /\ Release(w)
    /\ UNCHANGED <<attempts, effects, sends, faultVars>>

GiveUp(w) ==
    /\ pc[w] = "raised"
    /\ tries[w] >= MaxAttempts
    /\ state' = [state EXCEPT ![held[w]] = "dead"]
    /\ Release(w)
    /\ UNCHANGED <<attempts, due, effects, sends, faultVars>>

-----------------------------------------------------------------------------
\* The process dies and is started again: its worker is back at the top of
\* its loop, and what it had not committed is gone.
Crash(w) ==
    /\ crashes < MaxCrashes
    /\ pc[w] # "idle"
    /\ crashes' = crashes + 1
    /\ Release(w)
    /\ UNCHANGED <<jobVars, errors, unacked>>

\* "Worker loop error": an exception leaves _claim_one, and the worker, still
\* alive, forgets its job. The transaction of phase 1 failed (the row is still
\* pending), or it committed and its answer was lost, or the transaction of
\* the no-handler branch or of phase 3 failed (the row stays as it was found).
\* What raises in phase 2 is caught in _claim_one: see Raise.
LoopError(w) ==
    /\ errors < MaxErrors
    /\ pc[w] \in {"locked", "claimed", "raised"}
    /\ errors' = errors + 1
    /\ Release(w)
    /\ UNCHANGED <<jobVars, crashes, unacked>>

Step(w) ==
    \/ \E j \in Jobs : LockJob(w, j)
    \/ CommitClaim(w)
    \/ NoHandler(w)
    \/ RunHandler(w)
    \/ CommitSuccess(w)
    \/ Raise(w)
    \/ LoseAck(w)
    \/ Retry(w)
    \/ GiveUp(w)

Next ==
    \/ \E j \in Jobs, delay \in {0, Base} : Enqueue(j, delay)
    \/ Tick
    \/ \E w \in Workers : Step(w) \/ Crash(w) \/ LoopError(w)

\* Time passes, and a worker that is not idle, or that has a job to claim,
\* goes on: the event loop never abandons a coroutine and every external
\* call returns or raises.
Fairness == WF_vars(Tick) /\ \A w \in Workers : WF_vars(Step(w))

Spec == Init /\ [][Next]_vars
FairSpec == Spec /\ Fairness

-----------------------------------------------------------------------------
(* Properties                                                              *)

\* The type of the tables and of what the workers hold (models.py, Job).
TypeOK ==
    /\ state \in [Jobs -> JobStates]
    /\ attempts \in [Jobs -> Nat]
    /\ due \in [Jobs -> Int]
    /\ effects \in [Jobs -> Nat]
    /\ sends \in [Jobs -> Nat]
    /\ pc \in [Workers -> Stages]
    /\ held \in [Workers -> Jobs \cup {NoJob}]
    /\ tries \in [Workers -> Nat]
    /\ crashes \in Nat
    /\ errors \in Nat
    /\ unacked \subseteq Jobs

\* Two workers never work on the same job, from the SELECT of the claim to
\* the end of phase 3, although only the first of its transactions holds the
\* row lock all along (NFR-COR-03).
MutualExclusion ==
    \A v, w \in Workers : held[v] # NoJob /\ held[v] = held[w] => v = w

\* A job's handler runs at most once per attempt and at most MaxAttempts
\* times (NFR-COR-04), whichever process dies and whichever COMMIT is lost;
\* so nothing it sends is sent more often than that.
WorkBounded ==
    \A j \in Jobs : /\ effects[j] <= sends[j]
                   /\ sends[j] <= attempts[j]
                   /\ attempts[j] <= MaxAttempts

\* The handler's writes are in the database exactly once when the job has
\* succeeded, and not at all in every other state of the job: a retry never
\* finds the half-written work of the attempt before it. Only a job whose
\* COMMIT went unanswered may be repeated.
EffectsMatch ==
    \A j \in Jobs \ unacked : effects[j] = IF state[j] = "succeeded" THEN 1 ELSE 0

\* A job that has succeeded or is dead is never claimed, retried or killed
\* again, although phase 2 and phase 3 update it without looking at its state,
\* unless its COMMIT went unanswered.
SettledForGood ==
    [][\A j \in Jobs \ unacked : state[j] \in Settled => state'[j] = state[j]]_vars

\* Claimed, and no worker knows of it: nothing will ever touch it again.
Stranded(j) == state[j] = "claimed" /\ \A w \in Workers : held[w] # j

\* A job is stranded only by the death of the worker that held it or by an
\* error of the transactions around its handler (the claim, the no-handler
\* branch, phase 3), one job each time. A handler that raises, whatever it
\* raises and however often, never strands its job.
StrandedByFailures ==
    Cardinality({j \in Jobs : Stranded(j)}) <= crashes + errors

\* Every job that is enqueued is run to success or declared dead, also when
\* workers die: "work resumes on restart with no loss" (NFR-REL-01).
WorkResumes ==
    \A j \in Jobs : (state[j] = "pending") ~> (state[j] \in Settled)

\* What makes MutualExclusion and WorkBounded inductive. A worker's view of
\* its job agrees with the table: the row is still pending while only the
\* claiming transaction holds it, it is claimed from then on, and the copy of
\* the attempt count is still the one in the row. A job that may be claimed
\* again has an attempt left.
ViewAgrees ==
    \A w \in Workers :
        /\ pc[w] = "idle" <=> held[w] = NoJob
        /\ pc[w] = "locked" => state[held[w]] = "pending"
        /\ pc[w] \in {"claimed", "running"} => state[held[w]] = "claimed"
        /\ pc[w] = "raised" => \/ state[held[w]] = "claimed"
                               \/ held[w] \in unacked /\ state[held[w]] = "succeeded"
        /\ pc[w] \in {"claimed", "running", "raised"} =>
               tries[w] = attempts[held[w]] /\ tries[w] > 0
        /\ pc[w] = "claimed" => sends[held[w]] < attempts[held[w]]
        /\ pc[w] = "running" => effects[held[w]] < sends[held[w]]

AttemptLeft ==
    \A j \in Jobs : state[j] \in {"absent", "pending"} => attempts[j] < MaxAttempts

QueueInv == TypeOK /\ MutualExclusion /\ WorkBounded /\ ViewAgrees /\ AttemptLeft

\* The queue seen by those who enqueue jobs: see JobLife.
Life(j) ==
    CASE Stranded(j) -> "stranded"
      [] state[j] \in {"pending", "claimed"} /\ ~ Stranded(j) -> "waiting"
      [] state[j] = "succeeded" -> "done"
      [] state[j] = "dead" -> "abandoned"
      [] OTHER -> "absent"

Abstract == INSTANCE JobLife WITH life <- [j \in Jobs |-> Life(j)], doubtful <- unacked

\* The three transactions of a job, its retries and its workers implement the
\* life of a job, in which each of the things that may become of it is one step;
\* and one of them does: a job is run to success or declared dead (NFR-COR-04),
\* unless its worker dies
\* or fails outside the handler.
ImplementsJobLife == Abstract!FairSpec

=============================================================================
