---------------------------- MODULE Introduction ----------------------------
(***************************************************************************)
(* What dispatch promises: a confirmed request is either matched with one  *)
(* qualified provider, who pays one credit for it in the same step and     *)
(* must have had it, or left unmatched; one of the two happens; and only   *)
(* the two who are matched ever get each other's contact details. Credits  *)
(* come and go beside that, and are never owed. That one of the two        *)
(* happens is not promised of a request dispatch has come to doubt.        *)
(***************************************************************************)
EXTENDS Integers

CONSTANTS Requests, Providers, Qualified, Credits

VARIABLES
    outcome,        \* of each request: "open", "matched" or "unmatched"
    match,          \* who is matched with whom, as <<request, provider>>
    balance,        \* credits of each provider
    contacts,       \* details delivered, as <<request, provider, to>>
    doubtful        \* requests whose dispatch went on without knowing it

vars == <<outcome, match, balance, contacts, doubtful>>

Init ==
    /\ outcome = [r \in Requests |-> "open"]
    /\ match = {}
    /\ balance = Credits
    /\ contacts = {}
    /\ doubtful = {}

Match(r, p) ==
    /\ outcome[r] = "open"
    /\ p \in Qualified[r]
    /\ balance[p] > 0
    /\ outcome' = [outcome EXCEPT ![r] = "matched"]
    /\ match' = match \cup {<<r, p>>}
    /\ balance' = [balance EXCEPT ![p] = @ - 1]
    /\ UNCHANGED <<contacts, doubtful>>

\* Credits are given, or taken back as far as there are any.
Recredit(p) ==
    /\ balance' = [balance EXCEPT ![p] = balance'[p]] /\ balance'[p] \in Nat
    /\ UNCHANGED <<outcome, match, contacts, doubtful>>

LeaveUnmatched(r) ==
    /\ outcome[r] = "open"
    /\ outcome' = [outcome EXCEPT ![r] = "unmatched"]
    /\ doubtful' \in {doubtful, doubtful \cup {r}}
    /\ UNCHANGED <<match, balance, contacts>>

Introduce(r, p, to) ==
    /\ <<r, p>> \in match
    /\ contacts' = contacts \cup {<<r, p, to>>}
    /\ UNCHANGED <<outcome, match, balance, doubtful>>

Doubt(r) ==
    /\ doubtful' = doubtful \cup {r}
    /\ UNCHANGED <<outcome, match, balance, contacts>>

Settle(r) == LeaveUnmatched(r) \/ \E p \in Providers : Match(r, p)

Next ==
    \/ \E r \in Requests :
          \/ Settle(r) \/ Doubt(r)
          \/ \E p \in Providers, to \in {"provider", "customer"} : Introduce(r, p, to)
    \/ \E p \in Providers : Recredit(p)

Spec == Init /\ [][Next]_vars
FairSpec == Spec /\ \A r \in Requests : WF_vars(r \notin doubtful /\ Settle(r))

=============================================================================
