----------------------------- MODULE WavesProofs -----------------------------
(***************************************************************************)
(* What wave planning computes, for every ranking and every list of sizes. *)
(*                                                                         *)
(* The two loops of the plan are recursive functions. Induction is used in *)
(* the form of sets: a set that has 0 and, with i - 1, has i, has them all *)
(* (UpTo). It shows that a recursive function exists (Recursion) and then  *)
(* that what it computes has a property at every step.                     *)
(***************************************************************************)
EXTENDS Waves, FiniteSetTheorems, SequenceTheorems,
        WellFoundedInduction, TLAPS

-----------------------------------------------------------------------------
(* Induction and recursion                                                 *)

LEMMA LeastNumber ==
    ASSUME NEW T \in SUBSET Nat, T # {}
    PROVE  \E n \in T : \A m \in T : n <= m
<1> DEFINE R == OpToRel(<, Nat)
<1>1. \A m, n \in Nat : m < n => <<m, n>> \in R
  BY DEF OpToRel
<1>2. IsWellFoundedOn(R, Nat)
  BY NatLessThanWellFounded
<1> HIDE DEF R
<1>3. PICK n \in T : \A m \in T : <<m, n>> \notin R
  BY <1>2, WFMin
<1>4. \A m \in T : n <= m
  <2> SUFFICES ASSUME NEW m \in T PROVE ~ (m < n)
    OBVIOUS
  <2> QED
    BY <1>1, <1>3
<1> QED
  BY <1>4

LEMMA UpTo ==
    ASSUME NEW n \in Nat, NEW T, 0 \in T,
           \A i \in 0 .. n : i # 0 /\ i - 1 \in T => i \in T
    PROVE  0 .. n \subseteq T
<1> DEFINE U == (0 .. n) \ T
<1> SUFFICES ASSUME U # {} PROVE FALSE
  OBVIOUS
<1>1. U \in SUBSET Nat
  OBVIOUS
<1>2. PICK m \in U : \A i \in U : m <= i
  <2> HIDE DEF U
  <2> QED
    BY <1>1, LeastNumber
<1>3. m # 0 /\ m \in 0 .. n /\ m - 1 \in 0 .. n /\ m - 1 \notin U
  BY <1>2
<1> QED
  BY <1>2, <1>3

\* f goes through n steps from a, the i-th of which is the function G[i].
Iterates(f, n, a, G) ==
    f[0] = a /\ \A i \in 1 .. n : f[i] = G[i][f[i - 1]]

StaysIn(V, n, G) == \A i \in 1 .. n : \A v \in V : G[i][v] \in V

\* Recursion from 0 to n: a function that goes through the steps exists.
LEMMA Recursion ==
    ASSUME NEW n \in Nat, NEW V, NEW a \in V, NEW G, StaysIn(V, n, G)
    PROVE  \E f : Iterates(f, n, a, G)
<1> DEFINE T == {m \in 0 .. n : \E f \in [0 .. n -> V] : Iterates(f, m, a, G)}
<1>1. 0 \in T
  <2>1. /\ [i \in 0 .. n |-> a] \in [0 .. n -> V]
        /\ Iterates([i \in 0 .. n |-> a], 0, a, G)
    BY DEF Iterates
  <2> QED
    BY <2>1
<1>2. ASSUME NEW m \in 0 .. n, m # 0, m - 1 \in T PROVE m \in T
  <2>1. PICK f \in [0 .. n -> V] : Iterates(f, m - 1, a, G)
    BY <1>2
  <2> DEFINE g == [f EXCEPT ![m] = G[m][f[m - 1]]]
  <2>2. m - 1 \in 0 .. n /\ m \in 1 .. n
    BY <1>2
  <2>3. g \in [0 .. n -> V]
    BY <2>2 DEF StaysIn
  <2>4. g[m] = G[m][f[m - 1]] /\ \A i \in 0 .. n : i # m => g[i] = f[i]
    OBVIOUS
  <2>5. Iterates(g, m, a, G)
    <3>1. g[0] = a
      BY <1>2, <2>1, <2>4 DEF Iterates
    <3>2. ASSUME NEW i \in 1 .. m PROVE g[i] = G[i][g[i - 1]]
      <4>1. i \in 0 .. n /\ i - 1 \in 0 .. n /\ i - 1 # m
        OBVIOUS
      <4>2. g[i - 1] = f[i - 1]
        BY <2>4, <4>1
      <4>3. CASE i = m
        BY <2>4, <4>2, <4>3
      <4>4. CASE i # m
        <5>1. i \in 1 .. m - 1
          BY <4>4
        <5> HIDE DEF g
        <5> QED
          BY <2>1, <2>4, <4>1, <4>2, <4>4, <5>1 DEF Iterates
      <4> QED
        BY <4>3, <4>4
    <3> QED
      BY <3>1, <3>2 DEF Iterates
  <2> QED
    BY <2>3, <2>5
<1> HIDE DEF T
<1>3. 0 .. n \subseteq T
  BY <1>1, <1>2, UpTo
<1>4. n \in T
  BY <1>3
<1> QED
  BY <1>4 DEF T

\* Whatever goes through the steps stays in V.
LEMMA IteratesIn ==
    ASSUME NEW n \in Nat, NEW V, NEW a \in V, NEW G, StaysIn(V, n, G),
           NEW f, Iterates(f, n, a, G)
    PROVE  \A i \in 0 .. n : f[i] \in V
<1> DEFINE T == {i \in 0 .. n : f[i] \in V}
<1>1. 0 \in T
  BY DEF Iterates
<1>2. ASSUME NEW i \in 0 .. n, i # 0, i - 1 \in T PROVE i \in T
  BY <1>2 DEF Iterates, StaysIn
<1> HIDE DEF T
<1>3. 0 .. n \subseteq T
  BY <1>1, <1>2, UpTo
<1> QED
  BY <1>3 DEF T

-----------------------------------------------------------------------------
(* The two loops, by their equations                                       *)

LEMMA LoopOfAmong ==
    ASSUME NEW S, NEW ranked \in Seq(S), NEW chosen
    PROVE  \E kept :
              /\ Among(ranked, chosen) = kept[Len(ranked)]
              /\ kept[0] = <<>>
              /\ \A i \in 1 .. Len(ranked) :
                    kept[i] = IF ranked[i] \in chosen
                              THEN Append(kept[i - 1], ranked[i])
                              ELSE kept[i - 1]
<1> DEFINE n == Len(ranked)
           V == Seq(S)
           none == <<>>
           Body(f) == [i \in 0 .. n |->
                         IF i = 0 THEN <<>>
                         ELSE IF ranked[i] \in chosen
                              THEN Append(f[i - 1], ranked[i])
                              ELSE f[i - 1]]
           G == [i \in 1 .. n |-> [v \in V |->
                   IF ranked[i] \in chosen THEN Append(v, ranked[i]) ELSE v]]
<1>1. n \in Nat /\ none \in V
  OBVIOUS
<1>2. StaysIn(V, n, G)
  BY DEF StaysIn
<1>3. PICK h : Iterates(h, n, none, G)
  <2> HIDE DEF G, n, V, none
  <2> QED
    BY <1>1, <1>2, Recursion
<1>4. \A i \in 0 .. n : h[i] \in V
  <2> HIDE DEF G, n, V, none
  <2> QED
    BY <1>1, <1>2, <1>3, IteratesIn
<1> DEFINE f == [i \in 0 .. n |-> h[i]]
<1>5. f = Body(f)
  <2>1. f[0] = <<>>
    BY <1>3 DEF Iterates
  <2>2. ASSUME NEW i \in 1 .. n
        PROVE  f[i] = IF ranked[i] \in chosen THEN Append(f[i - 1], ranked[i]) ELSE f[i - 1]
    <3>1. h[i] = G[i][h[i - 1]] /\ i - 1 \in 0 .. n
      BY <1>3 DEF Iterates
    <3>2. h[i - 1] \in V
      BY <1>4, <3>1
    <3> QED
      BY <3>1, <3>2
  <2>3. f = [i \in 0 .. n |-> f[i]]
    OBVIOUS
  <2> HIDE DEF f
  <2>4. ASSUME NEW i \in 0 .. n PROVE f[i] = Body(f)[i]
    BY <2>1, <2>2
  <2> QED
    BY <2>3, <2>4
<1> DEFINE kept == CHOOSE g : g = Body(g)
<1>6. kept = Body(kept)
  <2> HIDE DEF Body, f
  <2> QED
    BY <1>5
<1>7. Among(ranked, chosen) = kept[n]
  BY DEF Among
<1> HIDE DEF kept
<1>8. \A i \in 0 .. n : kept[i] = Body(kept)[i]
  <2> HIDE DEF Body
  <2> QED
    BY <1>6
<1>9. kept[0] = <<>>
  BY <1>1, <1>8
<1>10. ASSUME NEW i \in 1 .. n
       PROVE  kept[i] = IF ranked[i] \in chosen
                        THEN Append(kept[i - 1], ranked[i])
                        ELSE kept[i - 1]
  BY <1>8
<1> QED
  BY <1>7, <1>9, <1>10

\* What the second loop keeps: the waves cut off so far and where they end.
CutType(S, n) == [waves : Seq(Seq(S)), offset : 0 .. n]

LEMMA SliceEndType ==
    ASSUME NEW n \in Nat, NEW offset \in 0 .. n, NEW size \in Nat
    PROVE  /\ SliceEnd(offset, size, n) \in offset .. n
           /\ offset < n => offset < SliceEnd(offset, size, n)
BY DEF SliceEnd

LEMMA CutTypeStep ==
    ASSUME NEW S, NEW ranked \in Seq(S), NEW size \in Nat,
           NEW so \in CutType(S, Len(ranked))
    PROVE  Cut(ranked, size, so) \in CutType(S, Len(ranked))
<1> DEFINE end == SliceEnd(so.offset, size, Len(ranked))
<1>1. Len(ranked) \in Nat /\ so.offset \in 0 .. Len(ranked) /\ so.waves \in Seq(Seq(S))
  BY DEF CutType
<1>2. end \in so.offset .. Len(ranked)
  BY <1>1, SliceEndType
<1> HIDE DEF end
<1>3. SubSeq(ranked, so.offset + 1, end) \in Seq(S)
  BY <1>1, <1>2
<1>4. Append(so.waves, SubSeq(ranked, so.offset + 1, end)) \in Seq(Seq(S))
  BY <1>1, <1>3
<1> QED
  BY <1>1, <1>2, <1>4 DEF Cut, CutType, end

LEMMA LoopOfCutAll ==
    ASSUME NEW S, NEW ranked \in Seq(S), NEW sizes \in Seq(Nat)
    PROVE  \E cut :
              /\ CutAll(ranked, sizes) = cut[Len(sizes)]
              /\ cut[0] = [waves |-> <<>>, offset |-> 0]
              /\ \A i \in 1 .. Len(sizes) : cut[i] = Cut(ranked, sizes[i], cut[i - 1])
<1> DEFINE n == Len(sizes)
           V == CutType(S, Len(ranked))
           none == [waves |-> <<>>, offset |-> 0]
           Body(f) == [i \in 0 .. n |->
                         IF i = 0 THEN [waves |-> <<>>, offset |-> 0]
                         ELSE Cut(ranked, sizes[i], f[i - 1])]
           G == [i \in 1 .. n |-> [v \in V |-> Cut(ranked, sizes[i], v)]]
<1>1. n \in Nat /\ none \in V
  BY DEF CutType
<1>2. StaysIn(V, n, G)
  BY CutTypeStep DEF StaysIn
<1>3. PICK h : Iterates(h, n, none, G)
  <2> HIDE DEF G, n, V, none
  <2> QED
    BY <1>1, <1>2, Recursion
<1>4. \A i \in 0 .. n : h[i] \in V
  <2> HIDE DEF G, n, V, none
  <2> QED
    BY <1>1, <1>2, <1>3, IteratesIn
<1> DEFINE f == [i \in 0 .. n |-> h[i]]
<1>5. f = Body(f)
  <2>1. f[0] = none
    BY <1>3 DEF Iterates
  <2>2. ASSUME NEW i \in 1 .. n PROVE f[i] = Cut(ranked, sizes[i], f[i - 1])
    <3>1. h[i] = G[i][h[i - 1]] /\ i - 1 \in 0 .. n
      BY <1>3 DEF Iterates
    <3>2. h[i - 1] \in V
      BY <1>4, <3>1
    <3> QED
      BY <3>1, <3>2
  <2>3. f = [i \in 0 .. n |-> f[i]]
    OBVIOUS
  <2> HIDE DEF f
  <2>4. ASSUME NEW i \in 0 .. n PROVE f[i] = Body(f)[i]
    BY <2>1, <2>2
  <2> QED
    BY <2>3, <2>4
<1> DEFINE cut == CHOOSE g : g = Body(g)
<1>6. cut = Body(cut)
  <2> HIDE DEF Body, f
  <2> QED
    BY <1>5
<1>7. CutAll(ranked, sizes) = cut[n]
  BY DEF CutAll
<1> HIDE DEF cut
<1>8. \A i \in 0 .. n : cut[i] = Body(cut)[i]
  <2> HIDE DEF Body
  <2> QED
    BY <1>6
<1>9. cut[0] = none
  BY <1>1, <1>8
<1>10. ASSUME NEW i \in 1 .. n PROVE cut[i] = Cut(ranked, sizes[i], cut[i - 1])
  BY <1>8
<1> QED
  BY <1>7, <1>9, <1>10

-----------------------------------------------------------------------------
(* Cold starts first                                                       *)

\* k is what is chosen of the first i of ranked, in its order; at tells where.
Picks(k, at, ranked, i, chosen) ==
    /\ at \in [1 .. Len(k) -> 1 .. i]
    /\ \A x, y \in 1 .. Len(k) : x < y => at[x] < at[y]
    /\ \A x \in 1 .. Len(k) : k[x] = ranked[at[x]] /\ ranked[at[x]] \in chosen
    /\ \A j \in 1 .. i : ranked[j] \in chosen => \E x \in 1 .. Len(k) : at[x] = j

LEMMA AmongPicks ==
    ASSUME NEW S, NEW ranked \in Seq(S), NEW chosen
    PROVE  LET k == Among(ranked, chosen)
           IN  k \in Seq(S) /\ \E at : Picks(k, at, ranked, Len(ranked), chosen)
<1> DEFINE n == Len(ranked)
<1>1. PICK kept :
         /\ Among(ranked, chosen) = kept[n]
         /\ kept[0] = <<>>
         /\ \A i \in 1 .. n : kept[i] = IF ranked[i] \in chosen
                                      THEN Append(kept[i - 1], ranked[i])
                                      ELSE kept[i - 1]
  BY LoopOfAmong
<1> DEFINE T == {i \in 0 .. n : /\ kept[i] \in Seq(S)
                               /\ \E at : Picks(kept[i], at, ranked, i, chosen)}
<1>2. 0 \in T
  <2>1. kept[0] \in Seq(S) /\ Len(kept[0]) = 0
    BY <1>1
  <2>2. Picks(kept[0], [x \in 1 .. 0 |-> 0], ranked, 0, chosen)
    BY <2>1 DEF Picks
  <2> QED
    BY <2>1, <2>2
<1>3. ASSUME NEW i \in 0 .. n, i # 0, i - 1 \in T PROVE i \in T
  <2> DEFINE k == kept[i - 1]
             m == Len(k)
  <2>1. PICK at : Picks(k, at, ranked, i - 1, chosen)
    BY <1>3
  <2>2. k \in Seq(S) /\ m \in Nat /\ i \in 1 .. n /\ ranked[i] \in S
    BY <1>3
  <2>3. CASE ranked[i] \notin chosen
    <3>1. kept[i] = k
      BY <1>1, <2>2, <2>3
    <3>2. Picks(k, at, ranked, i, chosen)
      <4> HIDE DEF k
      <4> QED
        BY <2>1, <2>2, <2>3 DEF Picks
    <3> QED
      BY <2>2, <3>1, <3>2
  <2>4. CASE ranked[i] \in chosen
    <3> DEFINE l == Append(k, ranked[i])
               on == [x \in 1 .. m + 1 |-> IF x = m + 1 THEN i ELSE at[x]]
    <3>1. kept[i] = l
      BY <1>1, <2>2, <2>4
    <3>2. l \in Seq(S) /\ Len(l) = m + 1 /\ l[m + 1] = ranked[i]
          /\ \A x \in 1 .. m : l[x] = k[x]
      <4> HIDE DEF k
      <4> QED
        BY <2>2
    <3>3. /\ at \in [1 .. m -> 1 .. i - 1]
          /\ \A x, y \in 1 .. m : x < y => at[x] < at[y]
          /\ \A x \in 1 .. m : k[x] = ranked[at[x]] /\ ranked[at[x]] \in chosen
          /\ \A j \in 1 .. i - 1 : ranked[j] \in chosen => \E x \in 1 .. m : at[x] = j
      BY <2>1 DEF Picks
    <3> HIDE DEF l, k, m
    <3>4. on \in [1 .. m + 1 -> 1 .. i]
      BY <2>2, <3>3
    <3>5. on[m + 1] = i /\ \A x \in 1 .. m : on[x] = at[x]
      BY <2>2
    <3> HIDE DEF on
    <3>6. ASSUME NEW x \in 1 .. m + 1, NEW y \in 1 .. m + 1, x < y PROVE on[x] < on[y]
      <4>1. x \in 1 .. m /\ at[x] \in 1 .. i - 1
        BY <2>2, <3>3, <3>6
      <4>2. CASE y = m + 1
        BY <2>2, <3>5, <4>1, <4>2
      <4>3. CASE y # m + 1
        BY <2>2, <3>3, <3>5, <3>6, <4>1, <4>3
      <4> QED
        BY <4>2, <4>3
    <3>7. \A x \in 1 .. m + 1 : l[x] = ranked[on[x]] /\ ranked[on[x]] \in chosen
      BY <2>2, <2>4, <3>2, <3>3, <3>5
    <3>8. ASSUME NEW j \in 1 .. i, ranked[j] \in chosen
          PROVE  \E x \in 1 .. m + 1 : on[x] = j
      <4>1. CASE j = i
        BY <2>2, <3>5, <4>1
      <4>2. CASE j # i
        <5>1. PICK x \in 1 .. m : at[x] = j
          BY <3>3, <3>8, <4>2
        <5> QED
          BY <2>2, <3>5, <5>1
      <4> QED
        BY <4>1, <4>2
    <3>9. Picks(l, on, ranked, i, chosen)
      BY <3>2, <3>4, <3>6, <3>7, <3>8 DEF Picks
    <3> QED
      BY <3>1, <3>2, <3>9
  <2> QED
    BY <2>3, <2>4
<1> HIDE DEF T
<1>4. 0 .. n \subseteq T
  BY <1>2, <1>3, UpTo
<1>5. n \in T
  BY <1>4
<1> QED
  BY <1>1, <1>5 DEF T

\* The cold-start providers first, otherwise in the order of the ranking: at
\* tells where in the ranking each of them stands.
Ordered(c, at, ranked, cold) ==
    /\ at \in [1 .. Len(c) -> 1 .. Len(ranked)]
    /\ \A x \in 1 .. Len(c) : c[x] = ranked[at[x]]
    /\ \A j \in 1 .. Len(ranked) : \E x \in 1 .. Len(c) : at[x] = j
    /\ \A x, y \in 1 .. Len(c) : x < y =>
          \/ c[x] \in cold /\ c[y] \notin cold
          \/ (c[x] \in cold <=> c[y] \in cold) /\ at[x] < at[y]

LEMMA ColdFirst ==
    ASSUME NEW S, NEW ranked \in Seq(S), NEW cold
    PROVE  LET c == ColdStartFirst(ranked, cold)
           IN  c \in Seq(S) /\ \E at : Ordered(c, at, ranked, cold)
<1> DEFINE n == Len(ranked)
           warm == ToSet(ranked) \ cold
           k == Among(ranked, cold)
           l == Among(ranked, warm)
           c == k \o l
<1>1. ColdStartFirst(ranked, cold) = c /\ n \in Nat
  BY DEF ColdStartFirst
<1>2. PICK at : Picks(k, at, ranked, n, cold)
  BY AmongPicks
<1>3. PICK on : Picks(l, on, ranked, n, warm)
  BY AmongPicks
<1>4. k \in Seq(S) /\ l \in Seq(S)
  BY AmongPicks
<1>5. \A j \in 1 .. n : ranked[j] \in warm <=> ranked[j] \notin cold
  BY DEF ToSet
<1> HIDE DEF k, l, warm, n
<1> DEFINE a == Len(k)
           b == Len(l)
<1>6. /\ a \in Nat /\ b \in Nat /\ c \in Seq(S) /\ Len(c) = a + b
      /\ \A x \in 1 .. a : c[x] = k[x]
      /\ \A x \in a + 1 .. a + b : x - a \in 1 .. b /\ c[x] = l[x - a]
  BY <1>4
<1> DEFINE to == [x \in 1 .. a + b |-> IF x <= a THEN at[x] ELSE on[x - a]]
<1>7. /\ at \in [1 .. a -> 1 .. n] /\ on \in [1 .. b -> 1 .. n]
      /\ \A x, y \in 1 .. a : x < y => at[x] < at[y]
      /\ \A x, y \in 1 .. b : x < y => on[x] < on[y]
      /\ \A x \in 1 .. a : k[x] = ranked[at[x]] /\ ranked[at[x]] \in cold
      /\ \A x \in 1 .. b : l[x] = ranked[on[x]] /\ ranked[on[x]] \in warm
      /\ \A j \in 1 .. n : ranked[j] \in cold => \E x \in 1 .. a : at[x] = j
      /\ \A j \in 1 .. n : ranked[j] \in warm => \E x \in 1 .. b : on[x] = j
  BY <1>2, <1>3 DEF Picks
<1> HIDE DEF a, b, c
<1>8. /\ \A x \in 1 .. a : to[x] = at[x]
      /\ \A x \in a + 1 .. a + b : to[x] = on[x - a]
  BY <1>6
<1>9. to \in [1 .. a + b -> 1 .. n]
  BY <1>6, <1>7
<1> HIDE DEF to
<1>10. /\ \A x \in 1 .. a : c[x] = ranked[to[x]] /\ c[x] \in cold
       /\ \A x \in a + 1 .. a + b : c[x] = ranked[to[x]] /\ c[x] \notin cold
  <2>1. ASSUME NEW x \in 1 .. a PROVE c[x] = ranked[to[x]] /\ c[x] \in cold
    BY <1>6, <1>7, <1>8
  <2>2. ASSUME NEW x \in a + 1 .. a + b PROVE c[x] = ranked[to[x]] /\ c[x] \notin cold
    <3>1. x - a \in 1 .. b /\ c[x] = l[x - a] /\ to[x] = on[x - a]
      BY <1>6, <1>8
    <3>2. on[x - a] \in 1 .. n /\ l[x - a] = ranked[on[x - a]] /\ ranked[on[x - a]] \in warm
      BY <1>7, <3>1
    <3> QED
      BY <1>5, <3>1, <3>2
  <2> QED
    BY <2>1, <2>2
<1>11. ASSUME NEW j \in 1 .. n PROVE \E x \in 1 .. a + b : to[x] = j
  <2>1. CASE ranked[j] \in cold
    <3>1. PICK x \in 1 .. a : at[x] = j
      BY <1>7, <2>1
    <3> QED
      BY <1>6, <1>8, <3>1
  <2>2. CASE ranked[j] \notin cold
    <3>1. PICK x \in 1 .. b : on[x] = j
      BY <1>5, <1>7, <2>2
    <3>2. a + x \in a + 1 .. a + b /\ (a + x) - a = x /\ a + x \in 1 .. a + b
      BY <1>6
    <3> QED
      BY <1>8, <3>1, <3>2
  <2> QED
    BY <2>1, <2>2
<1>12. ASSUME NEW x \in 1 .. a + b, NEW y \in 1 .. a + b, x < y
       PROVE  \/ c[x] \in cold /\ c[y] \notin cold
              \/ (c[x] \in cold <=> c[y] \in cold) /\ to[x] < to[y]
  <2>1. CASE y <= a
    <3>1. x \in 1 .. a /\ y \in 1 .. a
      BY <1>6, <1>12, <2>1
    <3> QED
      BY <1>7, <1>8, <1>10, <1>12, <3>1
  <2>2. CASE x > a
    <3>1. /\ x \in a + 1 .. a + b /\ y \in a + 1 .. a + b
          /\ x - a \in 1 .. b /\ y - a \in 1 .. b /\ x - a < y - a
      BY <1>6, <1>12, <2>2
    <3>2. to[x] < to[y]
      BY <1>7, <1>8, <3>1
    <3> QED
      BY <1>10, <3>1, <3>2
  <2>3. CASE x <= a /\ y > a
    <3>1. x \in 1 .. a /\ y \in a + 1 .. a + b
      BY <1>6, <2>3
    <3> QED
      BY <1>10, <3>1
  <2> QED
    BY <1>6, <2>1, <2>2, <2>3
<1>13. \A x \in 1 .. a + b : c[x] = ranked[to[x]]
  <2> SUFFICES ASSUME NEW x \in 1 .. a + b PROVE c[x] = ranked[to[x]]
    OBVIOUS
  <2>1. x \in 1 .. a \/ x \in a + 1 .. a + b
    BY <1>6
  <2> QED
    BY <1>10, <2>1
<1>14. Ordered(c, to, ranked, cold)
  BY <1>6, <1>9, <1>11, <1>12, <1>13 DEF Ordered, n
<1> QED
  BY <1>1, <1>6, <1>14

-----------------------------------------------------------------------------
(* The cut into waves                                                      *)

\* ends tells where each of the waves ends; the i-th size was cut off what was
\* left, and of the sizes up to the j-th none is left over but at the end.
Chain(waves, ends, ranked) ==
    /\ ends \in [0 .. Len(waves) -> 0 .. Len(ranked)]
    /\ ends[0] = 0
    /\ \A i \in 1 .. Len(waves) :
          /\ ends[i - 1] < ends[i]
          /\ waves[i] = SubSeq(ranked, ends[i - 1] + 1, ends[i])

BySizes(waves, ends, ranked, sizes) ==
    \A i \in 1 .. Len(waves) : i <= Len(sizes) =>
        ends[i] = SliceEnd(ends[i - 1], sizes[i], Len(ranked))

\* The state of the loop after j of the sizes.
Cutting(so, ends, ranked, sizes, j) ==
    /\ Len(so.waves) <= j
    /\ Chain(so.waves, ends, ranked)
    /\ BySizes(so.waves, ends, ranked, sizes)
    /\ ends[Len(so.waves)] = so.offset
    /\ so.offset < Len(ranked) => Len(so.waves) = j

\* A wave more, from where the last of m waves ends.
OneMore(more, ends, m, end, ranked) ==
    \E on : /\ Chain(more, on, ranked)
           /\ on[m + 1] = end
           /\ \A i \in 0 .. m : on[i] = ends[i]

LEMMA Appended ==
    ASSUME NEW V, NEW s \in Seq(V), NEW e \in V
    PROVE  /\ Append(s, e) \in Seq(V) /\ Len(s) \in Nat /\ Len(Append(s, e)) = Len(s) + 1
           /\ Append(s, e)[Len(s) + 1] = e
           /\ \A i \in 1 .. Len(s) : Append(s, e)[i] = s[i]
OBVIOUS

LEMMA ChainOn ==
    ASSUME NEW waves, NEW m \in Nat, m = Len(waves), NEW ranked, Len(ranked) \in Nat,
           NEW ends, Chain(waves, ends, ranked),
           NEW end \in 0 .. Len(ranked), ends[m] < end,
           NEW more, Len(more) = m + 1, \A i \in 1 .. m : more[i] = waves[i],
           more[m + 1] = SubSeq(ranked, ends[m] + 1, end)
    PROVE  OneMore(more, ends, m, end, ranked)
<1> DEFINE on == [i \in 0 .. m + 1 |-> IF i = m + 1 THEN end ELSE ends[i]]
<1>1. /\ ends \in [0 .. m -> 0 .. Len(ranked)] /\ ends[0] = 0
      /\ \A i \in 1 .. m : /\ ends[i - 1] < ends[i]
                           /\ waves[i] = SubSeq(ranked, ends[i - 1] + 1, ends[i])
  BY DEF Chain
<1>4. on \in [0 .. m + 1 -> 0 .. Len(ranked)]
  BY <1>1
<1>5. on[m + 1] = end /\ \A i \in 0 .. m : on[i] = ends[i]
  BY <1>1
<1> HIDE DEF on
<1>6. ASSUME NEW i \in 1 .. m + 1
      PROVE  on[i - 1] < on[i] /\ more[i] = SubSeq(ranked, on[i - 1] + 1, on[i])
  <2>1. CASE i = m + 1
    <3>1. i - 1 = m /\ m \in 0 .. m
      BY <1>1, <2>1
    <3>2. on[i] = end /\ on[i - 1] = ends[m] /\ ends[m] < end
      BY <1>5, <2>1, <3>1
    <3> QED
      BY <2>1, <3>2
  <2>2. CASE i # m + 1
    <3>1. i \in 1 .. m /\ i \in 0 .. m /\ i - 1 \in 0 .. m
      <4>1. m \in Nat
        BY <1>1
      <4> QED
        BY <2>2, <4>1
    <3> QED
      BY <1>1, <1>5, <3>1
  <2> QED
    BY <2>1, <2>2
<1>7. on[0] = 0
  BY <1>1, <1>5
<1>8. Chain(more, on, ranked)
  BY <1>4, <1>6, <1>7 DEF Chain
<1> QED
  BY <1>5, <1>8 DEF OneMore

LEMMA CuttingStep ==
    ASSUME NEW S, NEW ranked \in Seq(S), NEW sizes \in Seq(Nat),
           NEW j \in 1 .. Len(sizes), NEW so \in CutType(S, Len(ranked)),
           NEW ends, Cutting(so, ends, ranked, sizes, j - 1)
    PROVE  \E on : Cutting(Cut(ranked, sizes[j], so), on, ranked, sizes, j)
<1> DEFINE n == Len(ranked)
           m == Len(so.waves)
           end == SliceEnd(so.offset, sizes[j], n)
           w == SubSeq(ranked, so.offset + 1, end)
           more == Append(so.waves, w)
           V == Seq(S)
           next == [waves |-> more, offset |-> end]
<1>1. /\ n \in Nat /\ so.waves \in Seq(V) /\ so.offset \in 0 .. n /\ m \in Nat
      /\ sizes[j] \in Nat
  BY DEF CutType
<1>2. /\ m <= j - 1 /\ Chain(so.waves, ends, ranked) /\ ends[m] = so.offset
      /\ so.offset < n => m = j - 1
      /\ \A i \in 1 .. m : i <= Len(sizes) => ends[i] = SliceEnd(ends[i - 1], sizes[i], n)
  BY DEF Cutting, BySizes
<1>3. CASE so.offset >= n
  <2>1. Cut(ranked, sizes[j], so) = so
    BY <1>3 DEF Cut
  <2>2. Cutting(so, ends, ranked, sizes, j)
    BY <1>1, <1>2, <1>3 DEF Cutting, BySizes
  <2> QED
    BY <2>1, <2>2
<1>4. CASE so.offset < n
  <2>1. Cut(ranked, sizes[j], so) = next
    BY <1>1, <1>4 DEF Cut
  <2>2. end \in 0 .. n /\ so.offset < end
    <3> HIDE DEF n
    <3>1. end \in so.offset .. n /\ so.offset < end
      BY <1>1, <1>4, SliceEndType
    <3> QED
      BY <1>1, <3>1
  <2>3. Len(more) = m + 1 /\ OneMore(more, ends, m, end, ranked)
    <3>1. w \in V
      <4> HIDE DEF end
      <4> QED
        BY <1>1, <2>2
    <3>2. /\ w = SubSeq(ranked, ends[m] + 1, end) /\ ends[m] < end
          /\ end \in 0 .. Len(ranked) /\ Len(ranked) \in Nat
      BY <1>1, <1>2, <2>2
    <3>3. /\ Len(more) = m + 1 /\ more[m + 1] = w
          /\ \A i \in 1 .. m : more[i] = so.waves[i]
      <4> HIDE DEF w, V
      <4> QED
        BY <1>1, <3>1, Appended
    <3>4. m = Len(so.waves) /\ more[m + 1] = SubSeq(ranked, ends[m] + 1, end)
      BY <3>2, <3>3
    <3> HIDE DEF end, w, more, m, V
    <3> QED
      BY <1>1, <1>2, <3>2, <3>3, <3>4, ChainOn
  <2> HIDE DEF more
  <2>5. PICK on : /\ Chain(more, on, ranked) /\ on[m + 1] = end
                  /\ \A i \in 0 .. m : on[i] = ends[i]
    BY <2>3 DEF OneMore
  <2>4. ASSUME NEW i \in 1 .. m + 1, i <= Len(sizes)
        PROVE  on[i] = SliceEnd(on[i - 1], sizes[i], n)
    <3> HIDE DEF end, m
    <3>1. CASE i = m + 1
      <4>1. i = j /\ i - 1 = m /\ on[i - 1] = ends[m] /\ on[i] = end
        BY <1>1, <1>2, <1>4, <2>5, <3>1
      <4> QED
        BY <1>2, <4>1 DEF end, m
    <3>2. CASE i # m + 1
      <4>1. i \in 1 .. m /\ on[i - 1] = ends[i - 1] /\ on[i] = ends[i]
        BY <1>1, <2>5, <3>2
      <4> QED
        BY <1>2, <2>4, <4>1
    <3> QED
      BY <3>1, <3>2
  <2> HIDE DEF end, m
  <2>6. Cutting(next, on, ranked, sizes, j)
    BY <1>1, <1>2, <1>4, <2>3, <2>4, <2>5 DEF Cutting, BySizes
  <2> QED
    BY <2>1, <2>6
<1> QED
  BY <1>1, <1>3, <1>4

\* The waves are the ranking in pieces, none of which is empty, of the sizes
\* configured as long as there are sizes and somebody is left.
LEMMA CutInWaves ==
    ASSUME NEW S, NEW ranked \in Seq(S), NEW sizes \in Seq(Nat)
    PROVE  LET waves == SplitIntoWaves(ranked, sizes)
           IN  /\ waves \in Seq(Seq(S))
               /\ \E ends : /\ Chain(waves, ends, ranked)
                            /\ BySizes(waves, ends, ranked, sizes)
                            /\ ends[Len(waves)] = Len(ranked)
<1> DEFINE n == Len(ranked)
           l == Len(sizes)
           V == Seq(S)
           none == [waves |-> <<>>, offset |-> 0]
<1>1. n \in Nat /\ l \in Nat
  OBVIOUS
<1>2. PICK cut : /\ CutAll(ranked, sizes) = cut[l]
                 /\ cut[0] = none
                 /\ \A i \in 1 .. l : cut[i] = Cut(ranked, sizes[i], cut[i - 1])
  BY LoopOfCutAll
<1> DEFINE T == {j \in 0 .. l : /\ cut[j] \in CutType(S, n)
                               /\ \E ends : Cutting(cut[j], ends, ranked, sizes, j)}
<1>3. 0 \in T
  <2>1. none \in CutType(S, n) /\ Len(none.waves) = 0
    BY <1>1 DEF CutType
  <2>2. Cutting(none, [i \in 0 .. 0 |-> 0], ranked, sizes, 0)
    BY <1>1, <2>1 DEF Cutting, Chain, BySizes
  <2> QED
    BY <1>1, <1>2, <2>1, <2>2
<1>4. ASSUME NEW j \in 0 .. l, j # 0, j - 1 \in T PROVE j \in T
  <2>1. j \in 1 .. l /\ sizes[j] \in Nat /\ cut[j - 1] \in CutType(S, n)
    BY <1>4
  <2>2. PICK ends : Cutting(cut[j - 1], ends, ranked, sizes, j - 1)
    BY <1>4
  <2>3. cut[j] = Cut(ranked, sizes[j], cut[j - 1])
    BY <1>2, <2>1
  <2>4. cut[j] \in CutType(S, n)
    BY <2>1, <2>3, CutTypeStep
  <2>5. \E on : Cutting(cut[j], on, ranked, sizes, j)
    BY <2>1, <2>2, <2>3, CuttingStep
  <2> QED
    BY <2>4, <2>5
<1>5. l \in T
  <2> HIDE DEF T
  <2>1. 0 .. l \subseteq T
    BY <1>1, <1>3, <1>4, UpTo
  <2> QED
    BY <1>1, <2>1
<1> DEFINE so == cut[l]
           m == Len(so.waves)
<1>6. PICK ends : Cutting(so, ends, ranked, sizes, l)
  BY <1>5
<1>7. so.waves \in Seq(V) /\ so.offset \in 0 .. n /\ m \in Nat
  BY <1>5 DEF CutType
<1>8. /\ m <= l /\ Chain(so.waves, ends, ranked) /\ ends[m] = so.offset
      /\ so.offset < n => m = l
      /\ BySizes(so.waves, ends, ranked, sizes)
  BY <1>6 DEF Cutting
<1>9. CASE so.offset < n
  <2> DEFINE w == SubSeq(ranked, so.offset + 1, n)
             more == Append(so.waves, w)
  <2>1. SplitIntoWaves(ranked, sizes) = more
    BY <1>2, <1>9 DEF SplitIntoWaves
  <2>2. /\ more \in Seq(V) /\ Len(more) = m + 1
        /\ OneMore(more, ends, m, n, ranked)
    <3>1. w \in V
      BY <1>1, <1>7
    <3>2. /\ w = SubSeq(ranked, ends[m] + 1, n) /\ ends[m] < n
          /\ n \in 0 .. Len(ranked) /\ Len(ranked) \in Nat
      BY <1>1, <1>8, <1>9
    <3>3. /\ more \in Seq(V) /\ Len(more) = m + 1 /\ more[m + 1] = w
          /\ \A i \in 1 .. m : more[i] = so.waves[i]
      <4> HIDE DEF w, V
      <4> QED
        BY <1>7, <3>1, Appended
    <3>4. m = Len(so.waves) /\ more[m + 1] = SubSeq(ranked, ends[m] + 1, n)
      BY <3>2, <3>3
    <3> HIDE DEF n, w, more, m, V, so
    <3> QED
      BY <1>7, <1>8, <3>2, <3>3, <3>4, ChainOn
  <2>3. PICK on : /\ Chain(more, on, ranked) /\ on[m + 1] = n
                  /\ \A i \in 0 .. m : on[i] = ends[i]
    BY <2>2 DEF OneMore
  <2> HIDE DEF more, m
  <2>5. BySizes(more, on, ranked, sizes)
    <3> SUFFICES ASSUME NEW i \in 1 .. m + 1, i <= l
                 PROVE  on[i] = SliceEnd(on[i - 1], sizes[i], n)
      BY <2>2 DEF BySizes
    <3>1. i \in 1 .. m /\ i \in 0 .. m /\ i - 1 \in 0 .. m
      BY <1>7, <1>8, <1>9
    <3>2. ends[i] = SliceEnd(ends[i - 1], sizes[i], n)
      BY <1>8, <3>1 DEF BySizes, m
    <3> QED
      BY <2>3, <3>1, <3>2
  <2> QED
    BY <2>1, <2>2, <2>3, <2>5
<1>10. CASE ~ (so.offset < n)
  <2>1. SplitIntoWaves(ranked, sizes) = so.waves
    BY <1>2, <1>10 DEF SplitIntoWaves
  <2>2. ends[m] = n
    BY <1>7, <1>8, <1>10
  <2> QED
    BY <1>7, <1>8, <2>1, <2>2
<1> QED
  BY <1>9, <1>10

-----------------------------------------------------------------------------
(* The waves together                                                      *)

\* One after the other the waves are the ranking.
LEMMA Together ==
    ASSUME NEW S, NEW ranked \in Seq(S), NEW waves \in Seq(Seq(S)),
           NEW ends, Chain(waves, ends, ranked), ends[Len(waves)] = Len(ranked)
    PROVE  FlattenSeq(waves) = ranked
<1> DEFINE n == Len(ranked)
           m == Len(waves)
           Body(f) == [i \in 1 .. m |-> IF i = 1 THEN waves[i] ELSE f[i - 1] \o waves[i]]
           all == [i \in 1 .. m |-> SubSeq(ranked, 1, ends[i])]
<1>1. /\ n \in Nat /\ m \in Nat /\ ends \in [0 .. m -> 0 .. n] /\ ends[0] = 0
      /\ \A i \in 1 .. m : /\ ends[i - 1] < ends[i]
                           /\ waves[i] = SubSeq(ranked, ends[i - 1] + 1, ends[i])
  BY DEF Chain
<1>2. CASE m = 0
  <2>1. n = 0
    BY <1>1, <1>2
  <2>2. ranked = <<>> /\ waves = <<>>
    BY <1>2, <2>1
  <2> QED
    BY <1>2, <2>2 DEF FlattenSeq
<1>3. CASE m # 0
  <2>1. all[1] = waves[1]
    <3>1. 1 \in 1 .. m /\ 1 - 1 = 0 /\ 0 + 1 = 1
      BY <1>1, <1>3
    <3>2. waves[1] = SubSeq(ranked, 1, ends[1])
      BY <1>1, <3>1
    <3> QED
      BY <3>1, <3>2
  <2>2. ASSUME NEW i \in 2 .. m PROVE all[i] = all[i - 1] \o waves[i]
    <3>1. /\ i \in 1 .. m /\ i - 1 \in 1 .. m /\ i \in 0 .. m /\ i - 1 \in 0 .. m
      OBVIOUS
    <3>2. /\ ends[i - 1] \in 0 .. n /\ ends[i] \in 0 .. n /\ ends[i - 1] < ends[i]
          /\ waves[i] = SubSeq(ranked, ends[i - 1] + 1, ends[i])
      BY <1>1, <3>1
    <3>3. SubSeq(ranked, 1, ends[i - 1]) \o SubSeq(ranked, ends[i - 1] + 1, ends[i])
             = SubSeq(ranked, 1, ends[i])
      <4> DEFINE a == ends[i - 1]
                 b == ends[i]
      <4>1. 1 \in 1 .. Len(ranked) + 1 /\ a \in 0 .. Len(ranked) /\ b \in a .. Len(ranked)
        BY <1>1, <3>2
      <4> HIDE DEF a, b
      <4>2. SubSeq(ranked, 1, a) \o SubSeq(ranked, a + 1, b) = SubSeq(ranked, 1, b)
        BY <4>1, ConcatAdjacentSubSeq
      <4> QED
        BY <4>2 DEF a, b
    <3> QED
      BY <3>1, <3>2, <3>3
  <2>3. all = [i \in 1 .. m |-> all[i]]
    OBVIOUS
  <2> HIDE DEF all
  <2>4. ASSUME NEW i \in 1 .. m PROVE all[i] = Body(all)[i]
    <3>1. CASE i = 1
      BY <2>1, <3>1
    <3>2. CASE i # 1
      <4>1. i \in 2 .. m
        BY <3>2
      <4> QED
        BY <2>2, <3>2, <4>1
    <3> QED
      BY <3>1, <3>2
  <2>5. all = Body(all)
    BY <2>3, <2>4
  <2> DEFINE flat == CHOOSE f : f = Body(f)
  <2>6. flat = Body(flat)
    <3> HIDE DEF Body
    <3> QED
      BY <2>5
  <2>7. FlattenSeq(waves) = flat[m]
    BY <1>3 DEF FlattenSeq
  <2> HIDE DEF flat
  <2>8. \A i \in 1 .. m : flat[i] = Body(flat)[i]
    <3> HIDE DEF Body
    <3> QED
      BY <2>6
  <2> DEFINE T == {i \in 0 .. m : i # 0 => flat[i] = all[i]}
  <2>9. 0 \in T /\ \A i \in 0 .. m : i # 0 /\ i - 1 \in T => i \in T
    <3>1. ASSUME NEW i \in 0 .. m, i # 0, i - 1 \in T PROVE i \in T
      <4>1. i \in 1 .. m
        BY <3>1
      <4>2. flat[i] = (IF i = 1 THEN waves[i] ELSE flat[i - 1] \o waves[i])
        BY <2>8, <4>1
      <4>3. all[i] = (IF i = 1 THEN waves[i] ELSE all[i - 1] \o waves[i])
        BY <2>4, <4>1
      <4> QED
        BY <3>1, <4>1, <4>2, <4>3
    <3> QED
      BY <1>1, <3>1
  <2>10. m \in T
    <3> HIDE DEF T
    <3>1. 0 .. m \subseteq T
      BY <1>1, <2>9, UpTo
    <3> QED
      BY <1>1, <3>1
  <2>11. flat[m] = SubSeq(ranked, 1, n)
    <3>1. m \in 1 .. m /\ ends[m] = n
      BY <1>1, <1>3
    <3>2. flat[m] = all[m]
      BY <1>3, <2>10
    <3>3. all[m] = SubSeq(ranked, 1, ends[m])
      BY <3>1 DEF all
    <3> QED
      BY <3>1, <3>2, <3>3
  <2> QED
    BY <2>7, <2>11, SubSeqFull
<1> QED
  BY <1>2, <1>3

\* A ranking of S has everyone of S, once.
LEMMA Ranked ==
    ASSUME NEW S, IsFiniteSet(S), NEW ranked \in SetToSeqs(S)
    PROVE  /\ ranked \in Seq(S) /\ Len(ranked) = Cardinality(S)
           /\ \A i, j \in 1 .. Len(ranked) : ranked[i] = ranked[j] => i = j
           /\ \A p \in S : \E i \in 1 .. Len(ranked) : ranked[i] = p
<1> DEFINE n == Cardinality(S)
           D == 1 .. n
<1>1. n \in Nat
  BY FS_CardinalityType
<1>2. ranked \in [D -> S] /\ \A i, j \in D : i # j => ranked[i] # ranked[j]
  BY DEF SetToSeqs
<1>3. ranked \in Seq(S) /\ Len(ranked) = n
  BY <1>1, <1>2
<1>4. ranked \in Injection(D, S)
  BY <1>2 DEF Injection, IsInjective
<1>5. IsFiniteSet(D) /\ Cardinality(D) = n
  <2> HIDE DEF n
  <2>1. 1 \in Int /\ n \in Int
    BY <1>1
  <2> QED
    BY <1>1, <2>1, FS_Interval
<1>6. ranked \in Surjection(D, S)
  BY <1>4, <1>5, FS_Injection
<1> QED
  BY <1>2, <1>3, <1>6 DEF Surjection

\* So has the ranking with the cold starts moved to the front.
LEMMA ColdFirstOnce ==
    ASSUME NEW S, IsFiniteSet(S), NEW ranked \in SetToSeqs(S), NEW cold
    PROVE  LET c == ColdStartFirst(ranked, cold)
           IN  /\ c \in Seq(S) /\ Len(c) = Cardinality(S)
               /\ \A x, y \in 1 .. Len(c) : c[x] = c[y] => x = y
               /\ \A p \in S : \E x \in 1 .. Len(c) : c[x] = p
<1> DEFINE c == ColdStartFirst(ranked, cold)
           n == Len(ranked)
           m == Len(c)
<1>1. /\ ranked \in Seq(S) /\ n \in Nat
      /\ \A i, j \in 1 .. n : ranked[i] = ranked[j] => i = j
      /\ \A p \in S : \E i \in 1 .. n : ranked[i] = p
  BY Ranked
<1>2. c \in Seq(S) /\ m \in Nat
  BY <1>1, ColdFirst
<1>3. PICK at : Ordered(c, at, ranked, cold)
  BY <1>1, ColdFirst
<1> HIDE DEF c, n
<1>4. /\ at \in [1 .. m -> 1 .. n]
      /\ \A x \in 1 .. m : c[x] = ranked[at[x]]
      /\ \A j \in 1 .. n : \E x \in 1 .. m : at[x] = j
      /\ \A x, y \in 1 .. m : x < y =>
            (c[x] \in cold /\ c[y] \notin cold) \/ at[x] < at[y]
  BY <1>3 DEF Ordered, n
<1> HIDE DEF m
<1>5. ASSUME NEW x \in 1 .. m, NEW y \in 1 .. m, x < y PROVE c[x] # c[y]
  <2> SUFFICES ASSUME c[x] = c[y] PROVE FALSE
    OBVIOUS
  <2>1. at[x] < at[y]
    BY <1>4, <1>5
  <2>2. at[x] \in 1 .. n /\ at[y] \in 1 .. n /\ ranked[at[x]] = ranked[at[y]]
    BY <1>4
  <2> QED
    BY <1>1, <2>1, <2>2
<1>6. ASSUME NEW x \in 1 .. m, NEW y \in 1 .. m, c[x] = c[y] PROVE x = y
  BY <1>2, <1>5, <1>6
<1>7. ASSUME NEW p \in S PROVE \E x \in 1 .. m : c[x] = p
  <2>1. PICK i \in 1 .. n : ranked[i] = p
    BY <1>1
  <2>2. PICK x \in 1 .. m : at[x] = i
    BY <1>4
  <2> QED
    BY <1>4, <2>1, <2>2
<1>8. m = Cardinality(S)
  <2>1. c \in [1 .. m -> S]
    BY <1>2 DEF m
  <2>2. c \in Bijection(1 .. m, S)
    BY <1>6, <1>7, <2>1 DEF Bijection, Injection, IsInjective, Surjection
  <2>3. ExistsBijection(1 .. m, S)
    BY <2>2 DEF ExistsBijection
  <2> QED
    BY <1>2, <2>3, FS_CountingElements
<1> QED
  BY <1>2, <1>6, <1>7, <1>8 DEF m, c

\* Nobody is in the waves twice.
OnceEach(waves) ==
    \A i, j \in 1 .. Len(waves) :
        \A x \in 1 .. Len(waves[i]), y \in 1 .. Len(waves[j]) :
            waves[i][x] = waves[j][y] => i = j /\ x = y

\* Where the ends lie.
LEMMA ChainOrder ==
    ASSUME NEW n \in Nat, NEW m \in Nat, NEW ends \in [0 .. m -> 0 .. n],
           \A i \in 1 .. m : ends[i - 1] < ends[i]
    PROVE  \A i, j \in 0 .. m : i < j => ends[i] < ends[j]
<1> DEFINE T == {j \in 0 .. m : \A i \in 0 .. m : i < j => ends[i] < ends[j]}
<1>1. 0 \in T
  OBVIOUS
<1>2. ASSUME NEW j \in 0 .. m, j # 0, j - 1 \in T PROVE j \in T
  <2>1. j \in 1 .. m /\ ends[j - 1] < ends[j] /\ j - 1 \in 0 .. m
    BY <1>2
  <2>2. ASSUME NEW i \in 0 .. m, i < j PROVE ends[i] < ends[j]
    <3>1. CASE i = j - 1
      BY <2>1, <3>1
    <3>2. CASE i # j - 1
      <4>1. i < j - 1
        BY <2>2, <3>2
      <4>2. ends[i] < ends[j - 1]
        BY <1>2, <4>1
      <4> QED
        BY <2>1, <4>2
    <3> QED
      BY <3>1, <3>2
  <2> QED
    BY <2>2
<1> HIDE DEF T
<1>3. 0 .. m \subseteq T
  BY <1>1, <1>2, UpTo
<1> QED
  BY <1>3 DEF T

\* The members of a wave are those of the ranking between its ends.
LEMMA WaveMembers ==
    ASSUME NEW S, NEW ranked \in Seq(S), NEW waves, Len(waves) \in Nat,
           NEW ends, Chain(waves, ends, ranked), NEW i \in 1 .. Len(waves)
    PROVE  /\ ends[i - 1] \in 0 .. Len(ranked) /\ ends[i] \in 0 .. Len(ranked)
           /\ ends[i - 1] < ends[i]
           /\ Len(waves[i]) = ends[i] - ends[i - 1]
           /\ \A x \in 1 .. Len(waves[i]) : /\ ends[i - 1] + x \in 1 .. Len(ranked)
                                            /\ waves[i][x] = ranked[ends[i - 1] + x]
<1> DEFINE a == ends[i - 1]
           b == ends[i]
<1>1. i \in 0 .. Len(waves) /\ i - 1 \in 0 .. Len(waves)
  OBVIOUS
<1>2. /\ a \in 0 .. Len(ranked) /\ b \in 0 .. Len(ranked) /\ a < b
      /\ waves[i] = SubSeq(ranked, a + 1, b) /\ Len(ranked) \in Nat
  BY <1>1 DEF Chain
<1> HIDE DEF a, b
<1>3. a + 1 \in Int /\ b \in Int /\ \A x \in a + 1 .. b : ranked[x] \in S
  BY <1>2
<1>4. /\ Len(waves[i]) = b - a
      /\ \A x \in 1 .. b - (a + 1) + 1 : waves[i][x] = ranked[a + 1 + x - 1]
  BY <1>2, <1>3, SubSeqProperties
<1>5. ASSUME NEW x \in 1 .. b - a
      PROVE  a + x \in 1 .. Len(ranked) /\ waves[i][x] = ranked[a + x]
  <2>1. x \in 1 .. b - (a + 1) + 1 /\ a + 1 + x - 1 = a + x
    BY <1>2
  <2> QED
    BY <1>2, <1>4, <2>1
<1> QED
  BY <1>2, <1>4, <1>5 DEF a, b

\* A plan asks everyone of S in just one of its waves, once; and no wave is
\* empty.
LEMMA PlanOnce ==
    ASSUME NEW S, IsFiniteSet(S), NEW ranked \in SetToSeqs(S), NEW cold,
           NEW sizes \in Seq(Nat)
    PROVE  LET c == ColdStartFirst(ranked, cold)
               waves == SplitIntoWaves(c, sizes)
           IN  /\ waves \in Seq(Seq(S))
               /\ OnceEach(waves)
               /\ \A i \in 1 .. Len(waves) : waves[i] # <<>>
               /\ S # {} => waves # <<>>
               /\ FlattenSeq(waves) = c
<1> DEFINE c == ColdStartFirst(ranked, cold)
           waves == SplitIntoWaves(c, sizes)
           n == Len(c)
           m == Len(waves)
<1>1. /\ c \in Seq(S) /\ n = Cardinality(S) /\ n \in Nat
      /\ \A x, y \in 1 .. n : c[x] = c[y] => x = y
  BY ColdFirstOnce
<1>2. waves \in Seq(Seq(S)) /\ m \in Nat
  <2> HIDE DEF c
  <2> QED
    BY <1>1, CutInWaves
<1>3. PICK ends : Chain(waves, ends, c) /\ ends[m] = n
  <2> HIDE DEF c
  <2> QED
    BY <1>1, CutInWaves
<1> HIDE DEF c, waves
<1>4. FlattenSeq(waves) = c
  BY <1>1, <1>2, <1>3, Together
<1>5. \A i \in 1 .. m :
         /\ ends[i - 1] \in 0 .. n /\ ends[i] \in 0 .. n /\ ends[i - 1] < ends[i]
         /\ Len(waves[i]) = ends[i] - ends[i - 1]
         /\ \A x \in 1 .. Len(waves[i]) : /\ ends[i - 1] + x \in 1 .. n
                                          /\ waves[i][x] = c[ends[i - 1] + x]
  BY <1>1, <1>2, <1>3, WaveMembers
<1>6. \A i, j \in 0 .. m : i < j => ends[i] < ends[j]
  <2>1. ends \in [0 .. m -> 0 .. n]
    BY <1>3 DEF Chain
  <2> HIDE DEF m, n
  <2> QED
    BY <1>1, <1>2, <1>5, <2>1, ChainOrder
<1>7. ASSUME NEW i \in 1 .. m PROVE waves[i] # <<>>
  <2>1. Len(waves[i]) # 0
    BY <1>5
  <2> QED
    BY <2>1
<1>8. ASSUME S # {} PROVE waves # <<>>
  <2>1. n # 0
    BY <1>1, <1>8, FS_EmptySet
  <2>2. m # 0
    BY <1>3, <2>1 DEF Chain
  <2> QED
    BY <2>2
<1>9. OnceEach(waves)
  <2> SUFFICES ASSUME NEW i \in 1 .. m, NEW j \in 1 .. m,
                      NEW x \in 1 .. Len(waves[i]), NEW y \in 1 .. Len(waves[j]),
                      waves[i][x] = waves[j][y]
               PROVE  i = j /\ x = y
    BY DEF OnceEach
  <2> DEFINE a == ends[i - 1]
             b == ends[j - 1]
  <2>1. /\ a \in 0 .. n /\ ends[i] \in 0 .. n /\ x \in 1 .. ends[i] - a
        /\ a + x \in 1 .. n /\ waves[i][x] = c[a + x]
        /\ b \in 0 .. n /\ ends[j] \in 0 .. n /\ y \in 1 .. ends[j] - b
        /\ b + y \in 1 .. n /\ waves[j][y] = c[b + y]
    BY <1>5
  <2>2. a + x = b + y
    BY <1>1, <2>1
  <2>3. ASSUME i < j PROVE FALSE
    <3>1. ends[i] <= b
      <4>1. i \in 0 .. m /\ j - 1 \in 0 .. m /\ (i = j - 1 \/ i < j - 1)
        BY <1>2, <2>3
      <4>2. CASE i = j - 1
        BY <2>1, <4>2
      <4>3. CASE i < j - 1
        <5>1. ends[i] < b
          BY <1>6, <4>1, <4>3
        <5>2. ends[i] \in Int /\ b \in Int
          BY <2>1
        <5> QED
          BY <5>1, <5>2
      <4> QED
        BY <4>1, <4>2, <4>3
    <3> HIDE DEF a, b, m
    <3> QED
      BY <1>1, <2>1, <2>2, <3>1
  <2>4. ASSUME j < i PROVE FALSE
    <3>1. ends[j] <= a
      <4>1. j \in 0 .. m /\ i - 1 \in 0 .. m /\ (j = i - 1 \/ j < i - 1)
        BY <1>2, <2>4
      <4>2. CASE j = i - 1
        BY <2>1, <4>2
      <4>3. CASE j < i - 1
        <5>1. ends[j] < a
          BY <1>6, <4>1, <4>3
        <5>2. ends[j] \in Int /\ a \in Int
          BY <2>1
        <5> QED
          BY <5>1, <5>2
      <4> QED
        BY <4>1, <4>2, <4>3
    <3> HIDE DEF a, b, m
    <3> QED
      BY <1>1, <2>1, <2>2, <3>1
  <2>5. i = j
    <3>1. i \in Int /\ j \in Int
      OBVIOUS
    <3> QED
      BY <2>3, <2>4, <3>1
  <2> HIDE DEF a, b, m
  <2> QED
    BY <1>1, <2>1, <2>2, <2>5 DEF a, b
<1> QED
  BY <1>2, <1>4, <1>7, <1>8, <1>9 DEF waves, c

LEMMA WiderWaves ==
    ASSUME NEW S, NEW T, S \subseteq T, NEW waves \in Seq(Seq(S))
    PROVE  waves \in Seq(Seq(T))
<1>1. Seq(S) \subseteq Seq(T)
  OBVIOUS
<1> DEFINE V == Seq(S)
           W == Seq(T)
<1>2. waves \in Seq(V) /\ V \subseteq W
  BY <1>1
<1>3. waves \in Seq(W)
  <2> HIDE DEF V, W
  <2> QED
    BY <1>2
<1> QED
  BY <1>3

-----------------------------------------------------------------------------
(* What a plan is for                                                      *)

\* Everyone who is eligible is asked once, in full waves of the configured
\* sizes (FR-DSP-03), for any number of providers, whatever is known of them and
\* for any list of sizes (split_into_waves, services/dispatch.py).
THEOREM PlanAsksEveryoneOnce ==
    ASSUME NEW eligible, IsFiniteSet(eligible), NEW history \in [eligible -> History],
           NEW cold, NEW sizes \in Seq(Nat), NEW waves \in Plans(history, cold, sizes)
    PROVE  EveryoneOnceInFullWaves(waves, eligible, sizes)
<1> DEFINE m == Len(waves)
<1>1. PICK ranked \in RankProviders(eligible, history) :
         waves = SplitIntoWaves(ColdStartFirst(ranked, cold), sizes)
  BY DEF Plans
<1> DEFINE c == ColdStartFirst(ranked, cold)
           n == Len(c)
<1>2. ranked \in SetToSeqs(eligible)
  BY DEF RankProviders
<1>3. /\ c \in Seq(eligible) /\ n = Cardinality(eligible) /\ n \in Nat
      /\ \A p \in eligible : \E x \in 1 .. n : c[x] = p
  BY <1>2, ColdFirstOnce
<1>4. /\ waves \in Seq(Seq(eligible)) /\ m \in Nat
      /\ \A i \in 1 .. m : waves[i] # <<>>
      /\ FlattenSeq(waves) = c
  <2>1. /\ waves \in Seq(Seq(eligible))
        /\ \A i \in 1 .. m : waves[i] # <<>>
        /\ FlattenSeq(waves) = c
    BY <1>1, <1>2, PlanOnce
  <2> HIDE DEF c
  <2> QED
    BY <2>1
<1>5. PICK ends : Chain(waves, ends, c) /\ BySizes(waves, ends, c, sizes) /\ ends[m] = n
  <2>1. waves = SplitIntoWaves(c, sizes)
    BY <1>1
  <2> HIDE DEF c
  <2>2. LET w == SplitIntoWaves(c, sizes)
        IN  \E ends : /\ Chain(w, ends, c)
                      /\ BySizes(w, ends, c, sizes)
                      /\ ends[Len(w)] = Len(c)
    BY <1>3, CutInWaves
  <2> QED
    BY <2>1, <2>2
<1>6. ToSet(c) = eligible /\ DOMAIN c = 1 .. n
  <2> HIDE DEF c
  <2>1. DOMAIN c = 1 .. n /\ \A x \in 1 .. n : c[x] \in eligible
    BY <1>3
  <2> HIDE DEF n
  <2> QED
    BY <1>3, <2>1 DEF ToSet
<1>7. ASSUME NEW i \in 1 .. m, i <= Len(sizes), sizes[i] # 0
      PROVE  \/ Len(waves[i]) = sizes[i]
             \/ i = m /\ Len(waves[i]) < sizes[i]
  <2> HIDE DEF c
  <2> DEFINE a == ends[i - 1]
             b == ends[i]
             size == sizes[i]
  <2>1. /\ a \in 0 .. n /\ b \in 0 .. n /\ a < b /\ Len(waves[i]) = b - a
    BY <1>3, <1>4, <1>5, WaveMembers
  <2>2. b = SliceEnd(a, size, n) /\ size \in Nat
    BY <1>5, <1>7 DEF BySizes
  <2>3. b = n => i = m
    <3> SUFFICES ASSUME b = n, i # m PROVE FALSE
      OBVIOUS
    <3>1. i + 1 \in 1 .. m /\ (i + 1) - 1 = i
      BY <1>4
    <3>2. ends[(i + 1) - 1] < ends[i + 1] /\ ends[i + 1] \in 0 .. n
      BY <1>3, <1>4, <1>5, <3>1, WaveMembers
    <3> QED
      BY <3>1, <3>2
  <2> HIDE DEF a, b, m, n
  <2>4. size # 0
    BY <1>7
  <2> HIDE DEF size
  <2>5. b = a + size \/ (b = n /\ a + size > n)
    BY <1>3, <2>1, <2>2, <2>4 DEF SliceEnd
  <2>6. b - a = size \/ (i = m /\ b - a < size)
    BY <1>3, <2>1, <2>2, <2>3, <2>5
  <2> QED
    BY <2>1, <2>6 DEF size
<1>8. DOMAIN waves = 1 .. m
  BY <1>4
<1> HIDE DEF c
<1>9. ToSet(FlattenSeq(waves)) = eligible /\ Len(FlattenSeq(waves)) = Cardinality(eligible)
  BY <1>3, <1>4, <1>6
<1>10. \A i \in DOMAIN waves :
          /\ waves[i] # <<>>
          /\ i <= Len(sizes) /\ sizes[i] # 0 =>
                \/ Len(waves[i]) = sizes[i]
                \/ i = Len(waves) /\ Len(waves[i]) < sizes[i]
  BY <1>4, <1>7, <1>8
<1> QED
  BY <1>9, <1>10, Zenon DEF EveryoneOnceInFullWaves

\* Nobody is asked before a cold-start provider or before a better one of his
\* own group, whoever the cold-start providers are and however the database
\* breaks ties (FR-DSP-02, FR-DSP-04; rank_providers and the reordering in
\* dispatch_request_handler).
THEOREM PlanFollowsTheRanking ==
    ASSUME NEW eligible, IsFiniteSet(eligible), NEW history \in [eligible -> History],
           NEW cold, NEW sizes \in Seq(Nat), NEW waves \in Plans(history, cold, sizes)
    PROVE  ColdThenByRank(waves, history, cold)
<1>1. PICK ranked \in RankProviders(eligible, history) :
         waves = SplitIntoWaves(ColdStartFirst(ranked, cold), sizes)
  BY DEF Plans
<1> DEFINE c == ColdStartFirst(ranked, cold)
           n == Len(c)
           r == Len(ranked)
<1>2. /\ ranked \in SetToSeqs(eligible)
      /\ \A i, j \in DOMAIN ranked :
            i < j => ~ Precedes(history[ranked[j]], history[ranked[i]])
  BY DEF RankProviders
<1>3. FlattenSeq(waves) = c
  BY <1>1, <1>2, PlanOnce
<1>4. ranked \in Seq(eligible) /\ r \in Nat
  BY <1>2, Ranked
<1>5. c \in Seq(eligible) /\ n \in Nat
  BY <1>4, ColdFirst
<1>6. PICK at : Ordered(c, at, ranked, cold)
  BY <1>4, ColdFirst
<1> HIDE DEF c
<1>7. ASSUME NEW i \in 1 .. n, NEW j \in 1 .. n, i < j
      PROVE  \/ c[i] \in cold /\ c[j] \notin cold
             \/ /\ c[i] \in cold <=> c[j] \in cold
                /\ ~ Precedes(history[c[j]], history[c[i]])
  <2>1. /\ at[i] \in 1 .. r /\ at[j] \in 1 .. r
        /\ c[i] = ranked[at[i]] /\ c[j] = ranked[at[j]]
        /\ \/ c[i] \in cold /\ c[j] \notin cold
           \/ (c[i] \in cold <=> c[j] \in cold) /\ at[i] < at[j]
    BY <1>6, <1>7 DEF Ordered
  <2>2. at[i] < at[j] => ~ Precedes(history[c[j]], history[c[i]])
    BY <1>2, <1>4, <2>1
  <2> QED
    BY <2>1, <2>2
<1>8. DOMAIN c = 1 .. n
  BY <1>5
<1> HIDE DEF n
<1> QED
  BY <1>3, <1>7, <1>8 DEF ColdThenByRank

=============================================================================
