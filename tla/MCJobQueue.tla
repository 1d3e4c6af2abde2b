----------------------------- MODULE MCJobQueue -----------------------------
(* Instances of JobQueue for TLC. *)
EXTENDS JobQueue, TLC

\* Jobs that the workers treat alike, and the workers themselves, may be
\* exchanged in runs that check no liveness.
Symmetry == Permutations(Workers) \cup Permutations(Jobs \ Unhandled)

=============================================================================
