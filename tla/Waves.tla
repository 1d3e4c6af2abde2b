------------------------------- MODULE Waves -------------------------------
(***************************************************************************)
(* Wave planning (services/dispatch.py, handlers/dispatch.py): providers   *)
(* are ranked by what became of their jobs, the ranking is reordered so    *)
(* that cold-start providers come first and is cut into waves of           *)
(* configured sizes, where size 0 stands for "all who remain".             *)
(***************************************************************************)
EXTENDS Naturals, Sequences, FiniteSets, SequencesExt

\* What became of a provider's jobs: the follow-ups answered yes, those answered
\* otherwise, those without an answer, and when he got his last lead.
History == [yes : Nat, other : Nat, silent : Nat, lastLead : Nat]

Epoch == 0          \* the last lead of whoever has had none

\* completion_rate, as a fraction: 0 as long as no outcome is known.
Rate(h) == IF h.yes + h.other = 0 THEN <<0, 1>> ELSE <<h.yes, h.yes + h.other>>

\* ORDER BY completion_rate DESC, last_lead ASC
Precedes(h, g) ==
    LET x == Rate(h)[1] * Rate(g)[2]
        y == Rate(g)[1] * Rate(h)[2]
    IN  x > y \/ (x = y /\ h.lastLead < g.lastLead)

\* The orders in which the database may return the eligible: it breaks ties as
\* it likes.
RankProviders(eligible, history) ==
    {ranked \in SetToSeqs(eligible) : \A i, j \in DOMAIN ranked :
        i < j => ~ Precedes(history[ranked[j]], history[ranked[i]])}

\* [p for p in ranked if p in chosen]: SelectSeq, as a recursive function.
Among(ranked, chosen) ==
    LET kept[i \in 0 .. Len(ranked)] ==
            IF i = 0 THEN <<>>
            ELSE IF ranked[i] \in chosen
                 THEN Append(kept[i - 1], ranked[i])
                 ELSE kept[i - 1]
    IN  kept[Len(ranked)]

\* cold_list + rest: the order within each of the two parts is kept.
ColdStartFirst(ranked, cold) ==
    Among(ranked, cold) \o Among(ranked, ToSet(ranked) \ cold)

\* A Python slice stops at the end of the list.
SliceEnd(offset, size, length) ==
    IF size = 0 \/ offset + size > length THEN length ELSE offset + size

\* One turn of the loop over wave_sizes: a break once nobody is left.
Cut(ranked, size, so) ==
    LET end == SliceEnd(so.offset, size, Len(ranked))
    IN  IF so.offset >= Len(ranked)
        THEN so
        ELSE [waves |-> Append(so.waves, SubSeq(ranked, so.offset + 1, end)),
              offset |-> end]

\* The loop: what it has cut off after each of the sizes.
CutAll(ranked, sizes) ==
    LET cut[i \in 0 .. Len(sizes)] ==
            IF i = 0 THEN [waves |-> <<>>, offset |-> 0]
            ELSE Cut(ranked, sizes[i], cut[i - 1])
    IN  cut[Len(sizes)]

\* The waves of the loop, and one of those left over when the sizes run out.
SplitIntoWaves(ranked, sizes) ==
    LET last == CutAll(ranked, sizes)
    IN  IF last.offset < Len(ranked)
        THEN Append(last.waves, SubSeq(ranked, last.offset + 1, Len(ranked)))
        ELSE last.waves

\* The plans for the eligible with these histories, one for each way to break
\* the ties between them.
Plans(history, cold, sizes) ==
    {SplitIntoWaves(ColdStartFirst(ranked, cold), sizes) :
        ranked \in RankProviders(DOMAIN history, history)}

-----------------------------------------------------------------------------
(* What a plan is for                                                      *)

\* Everyone who is eligible is asked exactly once, over all the waves together,
\* however the sizes add up (FR-DSP-03). No wave is empty, which would only wait
\* for its timeout, and a wave is smaller than its configured size only when
\* nobody is left after it.
EveryoneOnceInFullWaves(waves, eligible, sizes) ==
    LET all == FlattenSeq(waves)
    IN  /\ ToSet(all) = eligible /\ Len(all) = Cardinality(eligible)
        /\ \A i \in DOMAIN waves :
              /\ waves[i] # <<>>
              /\ i <= Len(sizes) /\ sizes[i] # 0 =>
                    \/ Len(waves[i]) = sizes[i]
                    \/ i = Len(waves) /\ Len(waves[i]) < sizes[i]

\* Nobody who has had his first offers is asked before a cold-start provider,
\* and within the two groups nobody before a better one (FR-DSP-02, FR-DSP-04).
ColdThenByRank(waves, history, cold) ==
    LET all == FlattenSeq(waves)
    IN  \A i, j \in DOMAIN all : i < j =>
            \/ all[i] \in cold /\ all[j] \notin cold
            \/ /\ all[i] \in cold <=> all[j] \in cold
               /\ ~ Precedes(history[all[j]], history[all[i]])

=============================================================================
