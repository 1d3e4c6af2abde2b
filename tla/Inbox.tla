------------------------------- MODULE Inbox -------------------------------
(***************************************************************************)
(* What the webhook promises to the people who write: however often Meta   *)
(* delivers a message, it is kept once and handed on once, to whoever has  *)
(* to answer it, or abandoned where an operator finds it, as a dead job or *)
(* one that stays claimed. Nothing that was sent just vanishes. The one    *)
(* exception: if it is in doubt whether it was handed on, because the      *)
(* database did not answer, it may be handed on again.                     *)
(***************************************************************************)
EXTENDS Naturals

CONSTANT Messages

VARIABLES
    stage,          \* where each message is
    times,          \* how often it was handed on
    doubts          \* how often that was in doubt

vars == <<stage, times, doubts>>

Init ==
    /\ stage = [m \in Messages |-> "unsent"]
    /\ times = [m \in Messages |-> 0]
    /\ doubts = [m \in Messages |-> 0]

At(place) == {m \in Messages : stage[m] = place}

\* Messages travel alone or several in one delivery.
Move(some, place) ==
    stage' = [m \in Messages |-> IF m \in some THEN place ELSE stage[m]]

Send == \E some \in SUBSET At("unsent") : Move(some, "sent") /\ UNCHANGED <<times, doubts>>
Keep == \E some \in SUBSET At("sent") : Move(some, "kept") /\ UNCHANGED <<times, doubts>>

HandOn(m) ==
    /\ stage[m] \in {"kept", "in doubt"}
    /\ Move({m}, "handed on")
    /\ times' = [times EXCEPT ![m] = @ + 1]
    /\ UNCHANGED doubts

\* Handed on without an answer: to be handed on again, if anybody still tries.
Doubt(m) ==
    /\ stage[m] \in {"kept", "in doubt"}
    /\ Move({m}, "in doubt") \/ Move({m}, "handed on")
    /\ times' = [times EXCEPT ![m] = @ + 1]
    /\ doubts' = [doubts EXCEPT ![m] = @ + 1]

\* Nobody tries any more.
LeaveIt(m) ==
    /\ stage[m] = "in doubt"
    /\ Move({m}, "handed on")
    /\ UNCHANGED <<times, doubts>>

Abandon(m) ==
    /\ stage[m] = "kept"
    /\ Move({m}, "abandoned")
    /\ UNCHANGED <<times, doubts>>

Next ==
    \/ Send
    \/ Keep
    \/ \E m \in Messages : HandOn(m) \/ Doubt(m) \/ LeaveIt(m) \/ Abandon(m)

Spec == Init /\ [][Next]_vars

\* Again and again nothing is under way. No message is sent twice, so that
\* each that was sent is handed on or abandoned in the end.
Quiet == At("sent") \cup At("kept") \cup At("in doubt") = {}

LiveSpec == Spec /\ []<>Quiet

=============================================================================
