----------------------------- MODULE MCDispatch -----------------------------
(* Instances of Dispatch for TLC. *)
EXTENDS Dispatch, TLC

\* Every provider offers the trade and covers the quarter of every request.
AllQualified == [r \in Requests |-> Providers]

OneCredit == [p \in Providers |-> 1]

NeverLow == -1             \* no low-balance warnings

OneThenRest == <<1, 0>>
AllAtOnce == <<0>>

\* Nothing known, all well, nothing well, half of it; with silence or without.
Histories ==
    {[yes |-> 0, other |-> 0, silent |-> 0, lastLead |-> Epoch]}
    \cup {[yes |-> o[1], other |-> o[2], silent |-> o[3], lastLead |-> t] :
             o \in {<<0, 0, 1>>, <<1, 0, 1>>, <<0, 1, 0>>, <<1, 1, 0>>}, t \in 1 .. 2}

Percent(h) == IF h.yes = 0 THEN 0 ELSE (100 * h.yes) \div (h.yes + h.other)

\* First is who has a larger share of jobs done among those his customers told
\* of, or the same and has waited longer for a lead.
ASSUME PrecedesByPercent ==
    \A h, g \in Histories :
        Precedes(h, g) <=> \/ Percent(h) > Percent(g)
                           \/ Percent(h) = Percent(g) /\ h.lastLead < g.lastLead

\* The plans for up to three providers and two sizes, from the histories that
\* matter to them.
ASSUME PlansChecked ==
    \A eligible \in SUBSET {"a", "b", "c"} :
        \A past \in [eligible -> {h \in Histories : h.lastLead # 2}],
           cold \in SUBSET eligible, sizes \in UNION {[1 .. n -> 0 .. 2] : n \in 1 .. 2} :
            \A waves \in Plans(past, cold, sizes) :
                /\ EveryoneOnceInFullWaves(waves, eligible, sizes)
                /\ ColdThenByRank(waves, past, cold)

Symmetry == Permutations(Providers) \cup Permutations(Requests) \cup Permutations(Workers)

=============================================================================
