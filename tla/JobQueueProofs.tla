--------------------------- MODULE JobQueueProofs ---------------------------
(***************************************************************************)
(* Proofs about JobQueue, for any numbers of workers, jobs, attempts and   *)
(* crashes. They follow from one inductive invariant, QueueInv: a worker's *)
(* view of the job it holds agrees with the job's row.                     *)
(***************************************************************************)
EXTENDS JobQueue, FiniteSetTheorems, TLAPS

-----------------------------------------------------------------------------
(* Backoff stays within the integers: 2^n counts the subsets of 1..n.      *)

LEMMA PowerOfTwo == ASSUME NEW n \in Nat PROVE 2 ^ n \in Nat
<1>1. IsFiniteSet(1 .. n) /\ Cardinality(1 .. n) = n
  BY FS_Interval
<1>2. IsFiniteSet(SUBSET (1 .. n)) /\ Cardinality(SUBSET (1 .. n)) = 2 ^ n
  BY <1>1, FS_SUBSET
<1> QED
  BY <1>2, FS_CardinalityType

LEMMA BackoffType == ASSUME NEW n \in Nat, n > 0 PROVE Backoff(n) \in Nat
<1>1. n - 1 \in Nat
  OBVIOUS
<1>2. 2 ^ (n - 1) \in Nat
  BY <1>1, PowerOfTwo
<1> QED
  BY <1>2, JobQueueAssumption DEF Backoff, JobQueueAssumption

-----------------------------------------------------------------------------
(* The inductive invariant                                                 *)

LEMMA QueueInit == Init => QueueInv
BY JobQueueAssumption
DEF JobQueueAssumption, Init, QueueInv, TypeOK, MutualExclusion, WorkBounded,
    ViewAgrees, AttemptLeft, JobStates, Stages

LEMMA QueueStep == QueueInv /\ [Next]_vars => QueueInv'
<1> USE JobQueueAssumption DEF JobQueueAssumption
<1> SUFFICES ASSUME QueueInv, [Next]_vars PROVE QueueInv'
  OBVIOUS
<1> USE DEF QueueInv, TypeOK, MutualExclusion, WorkBounded, ViewAgrees,
            AttemptLeft, JobStates, Stages
<1>1. ASSUME NEW j \in Jobs, NEW delay \in {0, Base}, Enqueue(j, delay)
      PROVE  QueueInv'
  BY <1>1 DEF Enqueue, workerVars, faultVars
<1>2. CASE Tick
  BY <1>2 DEF Tick, workerVars, faultVars
<1>3. ASSUME NEW w \in Workers, NEW j \in Jobs, LockJob(w, j)
      PROVE  QueueInv'
  BY <1>3 DEF LockJob, Claimable, RowLocked, jobVars, faultVars
<1>4. ASSUME NEW w \in Workers, CommitClaim(w)
      PROVE  QueueInv'
  BY <1>4 DEF CommitClaim, faultVars
<1>5. ASSUME NEW w \in Workers, NoHandler(w)
      PROVE  QueueInv'
  BY <1>5 DEF NoHandler, Release, faultVars
<1>6. ASSUME NEW w \in Workers, RunHandler(w)
      PROVE  QueueInv'
  BY <1>6 DEF RunHandler, faultVars
<1>7. ASSUME NEW w \in Workers, CommitSuccess(w)
      PROVE  QueueInv'
  BY <1>7 DEF CommitSuccess, Release, faultVars
<1>8. ASSUME NEW w \in Workers, Raise(w)
      PROVE  QueueInv'
  BY <1>8 DEF Raise, jobVars, faultVars
<1>9. ASSUME NEW w \in Workers, LoseAck(w)
      PROVE  QueueInv'
  BY <1>9 DEF LoseAck
<1>10. ASSUME NEW w \in Workers, Retry(w)
       PROVE  QueueInv'
  <2>1. Backoff(tries[w]) \in Nat
    BY <1>10, BackoffType DEF Retry
  <2> QED
    BY <1>10, <2>1 DEF Retry, Release, faultVars
<1>11. ASSUME NEW w \in Workers, GiveUp(w)
       PROVE  QueueInv'
  BY <1>11 DEF GiveUp, Release, faultVars
<1>12. ASSUME NEW w \in Workers, Crash(w) \/ LoopError(w)
       PROVE  QueueInv'
  BY <1>12 DEF Crash, LoopError, Release, jobVars
<1>13. CASE UNCHANGED vars
  BY <1>13 DEF vars, jobVars, workerVars, faultVars
<1> QED
  BY <1>1, <1>2, <1>3, <1>4, <1>5, <1>6, <1>7, <1>8, <1>9, <1>10, <1>11,
     <1>12, <1>13 DEF Next, Step

LEMMA QueueInvariant == Spec => []QueueInv
BY QueueInit, QueueStep, PTL DEF Spec

-----------------------------------------------------------------------------
(* What it gives                                                           *)

\* The job table and the workers always have the types models.py declares.
THEOREM TypeCorrect == Spec => []TypeOK
BY QueueInvariant, PTL DEF QueueInv

\* FOR UPDATE SKIP LOCKED in phase 1 and the state column afterwards keep any
\* two workers off the same job through all three transactions of _claim_one.
THEOREM NoJobTwice == Spec => []MutualExclusion
BY QueueInvariant, PTL DEF QueueInv

\* Whatever fails in _claim_one, a handler runs at most max_attempts times.
THEOREM HandlerRunsBounded == Spec => []WorkBounded
BY QueueInvariant, PTL DEF QueueInv

-----------------------------------------------------------------------------
(* Jobs whose COMMITs were answered                                        *)

LEMMA EffectsInit == Init => EffectsMatch
BY DEF Init, EffectsMatch

LEMMA EffectsStep ==
    ASSUME QueueInv, EffectsMatch, [Next]_vars
    PROVE  EffectsMatch'
<1> USE DEF EffectsMatch, QueueInv, TypeOK, ViewAgrees, faultVars
<1>1. ASSUME NEW j \in Jobs, NEW delay \in {0, Base}, Enqueue(j, delay)
      PROVE  EffectsMatch'
  BY <1>1 DEF Enqueue
<1>2. CASE Tick
  BY <1>2 DEF Tick
<1>3. ASSUME NEW w \in Workers, Step(w)
      PROVE  EffectsMatch'
  BY <1>3 DEF Step, LockJob, CommitClaim, NoHandler, RunHandler, CommitSuccess,
              Raise, LoseAck, Retry, GiveUp, jobVars
<1>4. ASSUME NEW w \in Workers, Crash(w) \/ LoopError(w)
      PROVE  EffectsMatch'
  BY <1>4 DEF Crash, LoopError, jobVars
<1>5. CASE UNCHANGED vars
  BY <1>5 DEF vars, jobVars
<1> QED
  BY <1>1, <1>2, <1>3, <1>4, <1>5 DEF Next

\* Phase 2 commits a handler's writes together with state = succeeded, so they
\* are in the database once when the job has succeeded and never otherwise.
THEOREM EffectsExactlyOnce == Spec => []EffectsMatch
<1>1. QueueInv /\ EffectsMatch /\ [Next]_vars => EffectsMatch'
  BY EffectsStep
<1> QED
  BY <1>1, EffectsInit, QueueInvariant, PTL DEF Spec

LEMMA SettledStep ==
    ASSUME QueueInv, [Next]_vars, NEW j \in Jobs \ unacked, state[j] \in Settled
    PROVE  state'[j] = state[j]
<1> USE DEF Settled, QueueInv, TypeOK, ViewAgrees
<1>1. ASSUME NEW k \in Jobs, NEW delay \in {0, Base}, Enqueue(k, delay)
      PROVE  state'[j] = state[j]
  BY <1>1 DEF Enqueue
<1>2. ASSUME NEW w \in Workers, Step(w)
      PROVE  state'[j] = state[j]
  BY <1>2 DEF Step, LockJob, CommitClaim, NoHandler, RunHandler, CommitSuccess,
              Raise, LoseAck, Retry, GiveUp, jobVars
<1>3. CASE Tick \/ \E w \in Workers : Crash(w) \/ LoopError(w)
  BY <1>3 DEF Tick, Crash, LoopError, jobVars
<1>4. CASE UNCHANGED vars
  BY <1>4 DEF vars, jobVars
<1> QED
  BY <1>1, <1>2, <1>3, <1>4 DEF Next

\* The UPDATEs of phases 2 and 3 have no state in their WHERE clause, yet no
\* job leaves succeeded or dead.
THEOREM SettledStaysSettled == Spec => SettledForGood
<1>1. QueueInv /\ [Next]_vars =>
        [\A j \in Jobs \ unacked : state[j] \in Settled => state'[j] = state[j]]_vars
  BY SettledStep
<1> QED
  BY <1>1, QueueInvariant, PTL DEF Spec, SettledForGood

-----------------------------------------------------------------------------
(* Stranded jobs                                                           *)

StrandedJobs == {j \in Jobs : Stranded(j)}

StrandedInv == IsFiniteSet(StrandedJobs) /\ StrandedByFailures

LEMMA HeldIsJob ==
    ASSUME QueueInv, NEW w \in Workers, pc[w] # "idle"
    PROVE  held[w] \in Jobs
BY DEF QueueInv, TypeOK, ViewAgrees

\* Only a death or an error outside the handler strands a job, and only the
\* one its worker held.
Failures == crashes + errors

LEMMA StrandedGrow ==
    ASSUME QueueInv, [Next]_vars
    PROVE  \/ StrandedJobs' \subseteq StrandedJobs /\ Failures' \in {Failures, Failures + 1}
           \/ /\ Failures' = Failures + 1
              /\ \E w \in Workers : /\ held[w] \in Jobs
                                     /\ StrandedJobs' \subseteq StrandedJobs \cup {held[w]}
<1> USE DEF StrandedJobs, Stranded, QueueInv, TypeOK, faultVars, Failures
<1>1. ASSUME NEW j \in Jobs, NEW delay \in {0, Base}, Enqueue(j, delay)
      PROVE  StrandedJobs' \subseteq StrandedJobs /\ Failures' = Failures
  BY <1>1 DEF Enqueue, workerVars
<1>2. CASE Tick
  BY <1>2 DEF Tick, workerVars
<1>3. ASSUME NEW w \in Workers, Step(w)
      PROVE  StrandedJobs' \subseteq StrandedJobs /\ Failures' = Failures
  <2>1. CASE RunHandler(w) \/ Raise(w) \/ LoseAck(w)
    BY <1>3, <2>1 DEF RunHandler, Raise, LoseAck, jobVars
  <2>4. ASSUME NEW j \in Jobs, LockJob(w, j)
        PROVE  StrandedJobs' \subseteq StrandedJobs /\ Failures' = Failures
    <3>1. state' = state /\ Failures' = Failures /\ held[w] = NoJob
          /\ held' = [held EXCEPT ![w] = j]
      BY <2>4 DEF LockJob, jobVars, ViewAgrees
    <3> QED
      BY <3>1, JobQueueAssumption DEF JobQueueAssumption
  <2>2. CASE CommitClaim(w)
    BY <1>3, <2>2 DEF CommitClaim
  <2>3. CASE NoHandler(w) \/ CommitSuccess(w) \/ Retry(w) \/ GiveUp(w)
    BY <1>3, <2>3 DEF NoHandler, CommitSuccess, Retry, GiveUp, Release
  <2> QED
    BY <1>3, <2>1, <2>2, <2>3, <2>4 DEF Step
<1>4. ASSUME NEW w \in Workers, Crash(w) \/ LoopError(w)
      PROVE  /\ Failures' = Failures + 1
             /\ held[w] \in Jobs
             /\ StrandedJobs' \subseteq StrandedJobs \cup {held[w]}
  BY <1>4, HeldIsJob DEF Crash, LoopError, Release, jobVars
<1>5. CASE UNCHANGED vars
  BY <1>5 DEF vars, jobVars, workerVars
<1> QED
  BY <1>1, <1>2, <1>3, <1>4, <1>5 DEF Next

LEMMA StrandedStep == QueueInv /\ StrandedInv /\ [Next]_vars => StrandedInv'
<1> SUFFICES ASSUME QueueInv, StrandedInv, [Next]_vars PROVE StrandedInv'
  OBVIOUS
<1>1. Failures \in Nat /\ IsFiniteSet(StrandedJobs) /\ Cardinality(StrandedJobs) <= Failures
  BY DEF QueueInv, TypeOK, StrandedInv, StrandedByFailures, StrandedJobs, Failures
<1>2. Cardinality(StrandedJobs) \in Nat
  BY <1>1, FS_CardinalityType
<1>3. CASE StrandedJobs' \subseteq StrandedJobs /\ Failures' \in {Failures, Failures + 1}
  <2>1. IsFiniteSet(StrandedJobs') /\ Cardinality(StrandedJobs') <= Cardinality(StrandedJobs)
    BY <1>1, <1>3, FS_Subset
  <2>2. Cardinality(StrandedJobs') \in Nat
    BY <2>1, FS_CardinalityType
  <2> QED
    BY <1>1, <1>2, <1>3, <2>1, <2>2 DEF StrandedInv, StrandedByFailures, StrandedJobs, Failures
<1>4. ASSUME NEW j \in Jobs, Failures' = Failures + 1, StrandedJobs' \subseteq StrandedJobs \cup {j}
      PROVE  StrandedInv'
  <2> DEFINE more == StrandedJobs \cup {j}
  <2>1. IsFiniteSet(more) /\ Cardinality(more) <= Cardinality(StrandedJobs) + 1
    BY <1>1, <1>2, FS_AddElement
  <2>2. IsFiniteSet(StrandedJobs') /\ Cardinality(StrandedJobs') <= Cardinality(more)
    BY <1>4, <2>1, FS_Subset
  <2>3. Cardinality(StrandedJobs') \in Nat /\ Cardinality(more) \in Nat
    BY <2>1, <2>2, FS_CardinalityType
  <2>4. Cardinality(StrandedJobs') <= Failures'
    BY <1>1, <1>2, <1>4, <2>1, <2>2, <2>3
  <2> QED
    BY <2>2, <2>4 DEF StrandedInv, StrandedByFailures, StrandedJobs, Failures
<1> QED
  BY <1>3, <1>4, StrandedGrow

\* Each job that is claimed for ever stands for one death of a worker or one
\* failure of the claim, of the no-handler branch or of phase 3; what raises in
\* a handler strands nothing.
THEOREM OnlyFailuresStrand == Spec => []StrandedByFailures
<1>1. Init => StrandedInv
  <2> SUFFICES ASSUME Init PROVE StrandedInv
    OBVIOUS
  <2>1. StrandedJobs = {}
    BY DEF Init, StrandedJobs, Stranded
  <2> QED
    BY <2>1, FS_EmptySet DEF Init, StrandedInv, StrandedByFailures, StrandedJobs
<1>2. StrandedInv => StrandedByFailures
  BY DEF StrandedInv
<1> QED
  BY <1>1, <1>2, StrandedStep, QueueInvariant, PTL DEF Spec

-----------------------------------------------------------------------------
(* The queue implements the life of a job (without its liveness)           *)

LEMMA LifeTable ==
    ASSUME NEW j \in Jobs, state[j] \in JobStates
    PROVE  /\ Stranded(j) => Life(j) = "stranded"
           /\ state[j] = "pending" => Life(j) = "waiting"
           /\ state[j] = "claimed" /\ ~ Stranded(j) => Life(j) = "waiting"
           /\ state[j] = "succeeded" => Life(j) = "done"
           /\ state[j] = "dead" => Life(j) = "abandoned"
           /\ state[j] = "absent" => Life(j) = "absent"
BY DEF Life, JobStates, Stranded

LEMMA NextLifeTable ==
    ASSUME NEW j \in Jobs, state'[j] \in JobStates
    PROVE  /\ Stranded(j)' => Life(j)' = "stranded"
           /\ state'[j] = "pending" => Life(j)' = "waiting"
           /\ state'[j] = "claimed" /\ ~ Stranded(j)' => Life(j)' = "waiting"
           /\ state'[j] = "succeeded" => Life(j)' = "done"
           /\ state'[j] = "dead" => Life(j)' = "abandoned"
           /\ state'[j] = "absent" => Life(j)' = "absent"
BY DEF Life, JobStates, Stranded

LEMMA SameLife ==
    ASSUME NEW j \in Jobs, state'[j] = state[j], Stranded(j)' <=> Stranded(j)
    PROVE  Life(j)' = Life(j)
BY DEF Life

\* A step changes the row, and the holder, of one job at most.
LEMMA OtherLives ==
    ASSUME QueueInv, NEW w \in Workers, held[w] \in Jobs,
           Step(w) \/ Crash(w) \/ LoopError(w), ~ \E j \in Jobs : LockJob(w, j)
    PROVE  /\ held' \in {held, [held EXCEPT ![w] = NoJob]}
           /\ \A k \in Jobs \ {held[w]} : Life(k)' = Life(k)
<1> USE DEF QueueInv, TypeOK
<1>1. held' \in {held, [held EXCEPT ![w] = NoJob]}
  BY DEF Step, Crash, LoopError, CommitClaim, NoHandler, RunHandler, CommitSuccess,
         Raise, LoseAck, Retry, GiveUp, Release
<1>2. \A k \in Jobs \ {held[w]} : state'[k] = state[k]
  BY DEF Step, Crash, LoopError, CommitClaim, NoHandler, RunHandler, CommitSuccess,
         Raise, LoseAck, Retry, GiveUp, jobVars
<1>3. \A k \in Jobs \ {held[w]} : Stranded(k)' <=> Stranded(k)
  BY <1>1, <1>2, JobQueueAssumption DEF Stranded, JobQueueAssumption
<1> QED
  BY <1>1, <1>2, <1>3, SameLife

LEMMA LifeChange ==
    ASSUME NEW j \in Jobs, NEW stage, Life(j)' = stage,
           \A k \in Jobs \ {j} : Life(k)' = Life(k)
    PROVE  [k \in Jobs |-> Life(k)]' = [[k \in Jobs |-> Life(k)] EXCEPT ![j] = stage]
OBVIOUS

LEMMA NothingChanges ==
    ASSUME \A k \in Jobs : Life(k)' = Life(k), effects' = effects, unacked' = unacked
    PROVE  UNCHANGED Abstract!vars
BY DEF Abstract!vars

LEMMA SubmitStep ==
    ASSUME QueueInv, NEW j \in Jobs, NEW delay \in {0, Base}, Enqueue(j, delay)
    PROVE  Abstract!Submit(j)
<1> USE DEF QueueInv, TypeOK
<1>1. Life(j) = "absent" /\ Life(j)' = "waiting"
  <2>1. state[j] = "absent" /\ state'[j] = "pending"
    BY DEF Enqueue
  <2> QED
    BY <2>1, LifeTable, NextLifeTable DEF JobStates
<1>2. \A k \in Jobs \ {j} : Life(k)' = Life(k)
  BY SameLife DEF Enqueue, Stranded, workerVars
<1>3. [k \in Jobs |-> Life(k)]' = [[k \in Jobs |-> Life(k)] EXCEPT ![j] = "waiting"]
  BY <1>1, <1>2, LifeChange
<1> QED
  BY <1>1, <1>3 DEF Abstract!Submit, Enqueue, faultVars

LEMMA DoStep ==
    ASSUME QueueInv, NEW w \in Workers, CommitSuccess(w) \/ LoseAck(w)
    PROVE  Abstract!Do(held[w])
<1> USE DEF QueueInv, TypeOK
<1>1. PICK j \in Jobs : held[w] = j
  BY HeldIsJob DEF CommitSuccess, LoseAck
<1>2. Life(j) = "waiting" /\ Life(j)' = "done"
  <2>1. state[j] = "claimed" /\ ~ Stranded(j) /\ state'[j] = "succeeded"
    BY <1>1 DEF CommitSuccess, LoseAck, ViewAgrees, Stranded
  <2> QED
    BY <1>1, <2>1, LifeTable, NextLifeTable DEF JobStates
<1>3. \A k \in Jobs \ {j} : Life(k)' = Life(k)
  <2>1. Step(w) /\ ~ \E k \in Jobs : LockJob(w, k)
    BY DEF Step, CommitSuccess, LoseAck, LockJob
  <2> QED
    BY <1>1, <2>1, OtherLives
<1>4. [k \in Jobs |-> Life(k)]' = [[k \in Jobs |-> Life(k)] EXCEPT ![j] = "done"]
  BY <1>1, <1>2, <1>3, LifeChange
<1>5. /\ effects' = [effects EXCEPT ![j] = @ + 1]
      /\ unacked' \in {unacked, unacked \cup {j}}
  BY <1>1 DEF CommitSuccess, LoseAck, faultVars
<1>6. [k \in Jobs |-> Life(k)][j] = "waiting"
  BY <1>1, <1>2
<1>7. Abstract!Do(j)
  BY <1>1, <1>4, <1>5, <1>6 DEF Abstract!Do
<1> QED
  BY <1>1, <1>7

\* Phase 3, and the crash of a worker: what becomes of the job it held.
LEMMA LetGo ==
    ASSUME QueueInv, NEW w \in Workers,
           NoHandler(w) \/ Retry(w) \/ GiveUp(w) \/ Crash(w) \/ LoopError(w)
    PROVE  /\ held[w] \in Jobs
           /\ held' = [held EXCEPT ![w] = NoJob]
           /\ effects' = effects /\ unacked' = unacked
           /\ \A k \in Jobs \ {held[w]} : Life(k)' = Life(k)
           /\ \A v \in Workers : held'[v] # held[w]
<1> USE DEF QueueInv, TypeOK
<1>1. held[w] \in Jobs
  BY HeldIsJob DEF NoHandler, Retry, GiveUp, Crash, LoopError
<1>2. held' = [held EXCEPT ![w] = NoJob]
  BY DEF NoHandler, Retry, GiveUp, Crash, LoopError, Release
<1>3. effects' = effects /\ unacked' = unacked
  BY DEF NoHandler, Retry, GiveUp, Crash, LoopError, jobVars, faultVars
<1>4. \A k \in Jobs \ {held[w]} : Life(k)' = Life(k)
  <2>1. (Step(w) \/ Crash(w) \/ LoopError(w)) /\ ~ \E k \in Jobs : LockJob(w, k)
    BY DEF Step, NoHandler, Retry, GiveUp, Crash, LoopError, LockJob
  <2> QED
    BY <1>1, <2>1, OtherLives
<1>5. \A v \in Workers : held'[v] # held[w]
  BY <1>1, <1>2, JobQueueAssumption DEF MutualExclusion, JobQueueAssumption
<1> QED
  BY <1>1, <1>2, <1>3, <1>4, <1>5

LEMMA FailStep ==
    ASSUME QueueInv, NEW w \in Workers, NoHandler(w) \/ GiveUp(w) \/ Crash(w) \/ LoopError(w),
           state[held[w]] = "claimed"
    PROVE  Abstract!Fail(held[w])
<1> USE DEF QueueInv, TypeOK
<1>0. PICK j \in Jobs : held[w] = j
  BY LetGo
<1>1. (\A v \in Workers : held'[v] # j) /\ effects' = effects
      /\ unacked' = unacked /\ \A k \in Jobs \ {j} : Life(k)' = Life(k)
  BY <1>0, LetGo
<1>2. Life(j) = "waiting"
  BY <1>0, <1>1, LifeTable DEF Stranded
<1>3. Life(j)' \in {"abandoned", "stranded"}
  <2>1. CASE NoHandler(w) \/ GiveUp(w)
    <3>1. state'[j] = "dead"
      BY <1>0, <1>1, <2>1 DEF NoHandler, GiveUp
    <3> QED
      BY <1>0, <1>1, <3>1, NextLifeTable DEF JobStates
  <2>2. CASE Crash(w) \/ LoopError(w)
    <3>1. state'[j] = "claimed" /\ Stranded(j)'
      BY <1>0, <1>1, <2>2 DEF Crash, LoopError, jobVars, Stranded
    <3> QED
      BY <1>0, <1>1, <3>1, NextLifeTable DEF JobStates
  <2> QED
    BY <2>1, <2>2
<1>4. [k \in Jobs |-> Life(k)]' = [[k \in Jobs |-> Life(k)] EXCEPT ![j] = Life(j)']
  BY <1>0, <1>1, LifeChange
<1>5. [k \in Jobs |-> Life(k)][j] = "waiting"
  BY <1>0, <1>1, <1>2
<1>6. Abstract!Fail(j)
  BY <1>0, <1>1, <1>3, <1>4, <1>5 DEF Abstract!Fail
<1> QED
  BY <1>0, <1>6

LEMMA ReopenStep ==
    ASSUME QueueInv, NEW w \in Workers, Retry(w) \/ GiveUp(w),
           held[w] \in unacked, state[held[w]] = "succeeded"
    PROVE  Abstract!Reopen(held[w])
<1> USE DEF QueueInv, TypeOK
<1>0. PICK j \in Jobs : held[w] = j
  BY LetGo
<1>1. effects' = effects /\ unacked' = unacked
      /\ \A k \in Jobs \ {j} : Life(k)' = Life(k)
  BY <1>0, LetGo
<1>2. Life(j) = "done"
  BY <1>0, <1>1, LifeTable
<1>3. Life(j)' \in {"waiting", "abandoned"}
  <2>1. state'[j] \in {"pending", "dead"}
    BY <1>0, <1>1 DEF Retry, GiveUp
  <2> QED
    BY <1>0, <1>1, <2>1, NextLifeTable DEF JobStates
<1>4. [k \in Jobs |-> Life(k)]' = [[k \in Jobs |-> Life(k)] EXCEPT ![j] = Life(j)']
  BY <1>0, <1>1, LifeChange
<1>5. [k \in Jobs |-> Life(k)][j] = "done"
  BY <1>0, <1>1, <1>2
<1>6. j \in unacked
  BY <1>0
<1>7. Abstract!Reopen(j)
  BY <1>0, <1>1, <1>3, <1>4, <1>5, <1>6 DEF Abstract!Reopen
<1> QED
  BY <1>0, <1>7

LEMMA HiddenStep ==
    ASSUME QueueInv, NEW w \in Workers,
           \/ \E j \in Jobs : LockJob(w, j)
           \/ CommitClaim(w) \/ RunHandler(w) \/ Raise(w)
           \/ Retry(w) /\ state[held[w]] = "claimed"
           \/ (Crash(w) \/ LoopError(w)) /\ state[held[w]] # "claimed"
    PROVE  UNCHANGED Abstract!vars
<1> USE DEF QueueInv, TypeOK
<1>1. effects' = effects /\ unacked' = unacked
  BY DEF LockJob, CommitClaim, RunHandler, Raise, Retry, Crash, LoopError, jobVars, faultVars
<1>2. ASSUME NEW j \in Jobs, LockJob(w, j), NEW k \in Jobs
      PROVE  Life(k)' = Life(k)
  <2>1. state' = state /\ held' = [held EXCEPT ![w] = j] /\ held[w] = NoJob
        /\ state[j] = "pending"
    BY <1>2 DEF LockJob, Claimable, jobVars, ViewAgrees
  <2>2. Stranded(k)' <=> Stranded(k)
    BY <2>1, JobQueueAssumption DEF Stranded, JobQueueAssumption
  <2> QED
    BY <2>1, <2>2, SameLife
<1>3. ASSUME CommitClaim(w), NEW k \in Jobs
      PROVE  Life(k)' = Life(k)
  <2>1. held[w] \in Jobs /\ state[held[w]] = "pending"
        /\ state'[held[w]] = "claimed" /\ held' = held
    BY <1>3, HeldIsJob DEF CommitClaim, ViewAgrees
  <2>2. CASE k = held[w]
    BY <2>1, <2>2, LifeTable, NextLifeTable DEF Stranded, JobStates
  <2>3. CASE k # held[w]
    <3>1. state'[k] = state[k] /\ (Stranded(k)' <=> Stranded(k))
      BY <1>3, <2>1, <2>3 DEF CommitClaim, Stranded
    <3> QED
      BY <3>1, SameLife
  <2> QED
    BY <2>2, <2>3
<1>4. ASSUME RunHandler(w) \/ Raise(w), NEW k \in Jobs
      PROVE  Life(k)' = Life(k)
  <2>1. state' = state /\ held' = held
    BY <1>4 DEF RunHandler, Raise, jobVars
  <2> QED
    BY <2>1, SameLife DEF Stranded
<1>5. ASSUME Retry(w), state[held[w]] = "claimed", NEW k \in Jobs
      PROVE  Life(k)' = Life(k)
  <2>1. CASE k = held[w]
    <3>1. state'[k] = "pending" /\ ~ Stranded(k)
      BY <1>5, <2>1 DEF Retry, Stranded
    <3> QED
      BY <1>5, <2>1, <3>1, LifeTable, NextLifeTable DEF JobStates
  <2> QED
    BY <1>5, <2>1, LetGo
<1>6. ASSUME Crash(w) \/ LoopError(w), state[held[w]] # "claimed", NEW k \in Jobs
      PROVE  Life(k)' = Life(k)
  <2>1. CASE k = held[w]
    <3>1. state'[k] = state[k] /\ state[k] # "claimed"
      BY <1>6, <2>1 DEF Crash, LoopError, jobVars
    <3> QED
      BY <3>1, SameLife DEF Stranded
  <2> QED
    BY <1>6, <2>1, LetGo
<1> QED
  BY <1>1, <1>2, <1>3, <1>4, <1>5, <1>6, NothingChanges

LEMMA LifeStep ==
    ASSUME QueueInv, [Next]_vars
    PROVE  [Abstract!Next]_(Abstract!vars)
<1>1. ASSUME NEW j \in Jobs, NEW delay \in {0, Base}, Enqueue(j, delay)
      PROVE  Abstract!Next
  BY <1>1, SubmitStep DEF Abstract!Next
<1>2. CASE Tick \/ UNCHANGED vars
  <2>1. state' = state /\ held' = held /\ effects' = effects /\ unacked' = unacked
    BY <1>2 DEF Tick, vars, jobVars, workerVars, faultVars
  <2>2. \A k \in Jobs : Life(k)' = Life(k)
    BY <2>1, SameLife DEF Stranded
  <2> QED
    BY <2>1, <2>2, NothingChanges
<1>3. ASSUME NEW w \in Workers, Step(w) \/ Crash(w) \/ LoopError(w)
      PROVE  [Abstract!Next]_(Abstract!vars)
  <2>1. ASSUME pc[w] # "idle" PROVE held[w] \in Jobs
    BY <2>1, HeldIsJob
  <2>2. CASE CommitSuccess(w) \/ LoseAck(w)
    <3>1. held[w] \in Jobs /\ Abstract!Do(held[w])
      BY <2>1, <2>2, DoStep DEF CommitSuccess, LoseAck
    <3> QED
      BY <3>1 DEF Abstract!Next, Abstract!End
  <2>3. CASE (NoHandler(w) \/ GiveUp(w) \/ Crash(w) \/ LoopError(w)) /\ state[held[w]] = "claimed"
    <3>1. held[w] \in Jobs /\ Abstract!Fail(held[w])
      BY <2>1, <2>3, FailStep DEF NoHandler, GiveUp, Crash, LoopError
    <3> QED
      BY <3>1 DEF Abstract!Next, Abstract!End
  <2>4. CASE (Retry(w) \/ GiveUp(w)) /\ state[held[w]] # "claimed"
    <3>1. held[w] \in unacked /\ state[held[w]] = "succeeded"
      BY <2>4 DEF Retry, GiveUp, QueueInv, ViewAgrees
    <3>2. held[w] \in Jobs /\ Abstract!Reopen(held[w])
      BY <2>1, <2>4, <3>1, ReopenStep DEF Retry, GiveUp
    <3> QED
      BY <3>2 DEF Abstract!Next
  <2>5. NoHandler(w) => state[held[w]] = "claimed"
    BY DEF NoHandler, QueueInv, ViewAgrees
  <2> QED
    BY <1>3, <2>2, <2>3, <2>4, <2>5, HiddenStep DEF Step
<1> QED
  BY <1>1, <1>2, <1>3 DEF Next

\* Seen from enqueue_job's callers, claims, attempts and backoff are invisible:
\* a job is submitted, then done once, abandoned or stranded, in one step.
THEOREM QueueImplementsLife == Spec => Abstract!Spec
<1>1. Init => Abstract!Init
  BY DEF Init, Abstract!Init, Life, Stranded
<1>2. QueueInv /\ [Next]_vars => [Abstract!Next]_(Abstract!vars)
  BY LifeStep
<1> QED
  BY <1>1, <1>2, QueueInvariant, PTL DEF Spec, Abstract!Spec

=============================================================================
