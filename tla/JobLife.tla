------------------------------ MODULE JobLife ------------------------------
(***************************************************************************)
(* What the job queue promises to the code that enqueues jobs: a submitted *)
(* job is done, its effects taking place in one step, or abandoned without *)
(* any, or stranded where its worker died or failed, without any either;   *)
(* and one of the three happens. It happens once, except to a job that was *)
(* done and the queue cannot know it: that one may be taken up again.      *)
(***************************************************************************)
EXTENDS Naturals

CONSTANT Jobs

VARIABLES
    life,           \* where each job is in its life
    effects,        \* how often each job's writes took place
    doubtful        \* jobs that were done without the queue's knowing

vars == <<life, effects, doubtful>>

Init ==
    /\ life = [j \in Jobs |-> "absent"]
    /\ effects = [j \in Jobs |-> 0]
    /\ doubtful = {}

Submit(j) ==
    /\ life[j] = "absent"
    /\ life' = [life EXCEPT ![j] = "waiting"]
    /\ UNCHANGED <<effects, doubtful>>

Do(j) ==
    /\ life[j] = "waiting"
    /\ life' = [life EXCEPT ![j] = "done"]
    /\ effects' = [effects EXCEPT ![j] = @ + 1]
    /\ doubtful' \in {doubtful, doubtful \cup {j}}

Fail(j) ==
    /\ life[j] = "waiting"
    /\ \E end \in {"abandoned", "stranded"} : life' = [life EXCEPT ![j] = end]
    /\ UNCHANGED <<effects, doubtful>>

Reopen(j) ==
    /\ j \in doubtful /\ life[j] = "done"
    /\ \E again \in {"waiting", "abandoned"} : life' = [life EXCEPT ![j] = again]
    /\ UNCHANGED <<effects, doubtful>>

End(j) == Do(j) \/ Fail(j)

Next == \E j \in Jobs : Submit(j) \/ End(j) \/ Reopen(j)

Spec == Init /\ [][Next]_vars
FairSpec == Spec /\ \A j \in Jobs : WF_vars(End(j))

=============================================================================
