----------------------------- MODULE RulesProofs ------------------------------
(***************************************************************************)
(* What the run of the rules shows of a few questions, for every question: *)
(* nothing is lost in a split, no failed lookup makes a trip eligible, a   *)
(* plan keeps to the addresses a maintainer has confirmed, and a form      *)
(* accounts for each of its fields.                                        *)
(***************************************************************************)
EXTENDS Rules, FiniteSets, FiniteSetTheorems, WellFoundedInduction, TLAPS

(***************************************************************************)
(* The commission split.                                                   *)
(***************************************************************************)
\* The integer quotient is the largest number that does not exceed the share.
LEMMA CommissionBounds ==
  ASSUME NEW received \in Nat, NEW rate \in Rates
  PROVE  /\ Commission(received, rate) \in Nat
         /\ Commission(received, rate) * WholeRate <= received * rate
         /\ (Commission(received, rate) + 1) * WholeRate > received * rate
<1>1. rate \in Nat
  BY DEF Rates, WholeRate
<1> DEFINE product == received * rate
<1>2. product \in Nat
  BY <1>1
<1> HIDE DEF product
<1>3. /\ product \div 10000 \in Nat
      /\ (product \div 10000) * 10000 <= product
      /\ (product \div 10000 + 1) * 10000 > product
  BY <1>2
<1> QED
  BY <1>3 DEF product, Commission, WholeRate

\* A share of at most the whole leaves a remainder that is not negative.
LEMMA CommissionWithinAmount ==
  ASSUME NEW received \in Nat, NEW rate \in Rates
  PROVE  Commission(received, rate) <= received
<1>1. Commission(received, rate) \in Nat /\ Commission(received, rate) * 10000 <= received * rate
  BY CommissionBounds DEF WholeRate
<1>2. rate \in Nat /\ rate <= 10000
  BY DEF Rates, WholeRate
<1>3. received * rate <= received * 10000
  <2>1. received * (10000 - rate) \in Nat
    <3>1. 10000 - rate \in Nat
      BY <1>2
    <3> QED
      BY <3>1
  <2>2. received * (10000 - rate) = received * 10000 - received * rate
    BY <1>2
  <2> QED
    BY <1>2, <2>1, <2>2
<1>4. received * rate \in Int
  BY <1>2
<1> QED
  BY <1>1, <1>3, <1>4

\* Every payment that is accepted is split exactly (splitPayout's doc comment).
THEOREM SplitIsExact ==
  ASSUME NEW received, NEW rate, NEW currency,
         SplitError(received, rate, currency) = "none"
  PROVE  Exact(received, rate, SplitPayout(received, rate, currency))
<1>1. received \in Nat /\ rate \in Rates
  BY DEF SplitError
<1> DEFINE c == Commission(received, rate)
<1>2. SplitPayout(received, rate, currency)
        = [ error |-> "none", commission |-> c, payout |-> received - c ]
  BY DEF SplitPayout
<1>3. /\ c \in Nat /\ c <= received
      /\ c * WholeRate <= received * rate
      /\ (c + 1) * WholeRate > received * rate
  BY <1>1, CommissionBounds, CommissionWithinAmount
<1> HIDE DEF c
<1>4. received - c \in Nat /\ c + (received - c) = received
  BY <1>1, <1>3
<1> QED
  BY <1>2, <1>3, <1>4 DEF Exact

-----------------------------------------------------------------------------
(***************************************************************************)
(* Least elements, and induction over places.                              *)
(***************************************************************************)
\* Every set of natural numbers that is not empty has a least element.
LEMMA SetsHaveMin ==
  ASSUME NEW T \in SUBSET Nat, T # {}
  PROVE  \E x \in T : \A y \in T : x <= y
<1> DEFINE R == OpToRel(<, Nat)
<1>1. IsWellFoundedOn(R, Nat)
  BY NatLessThanWellFounded, Zenon
<1>2. ASSUME NEW x \in Nat, NEW y \in Nat
      PROVE  << x, y >> \in R <=> x < y
  BY Zenon DEF OpToRel
<1> HIDE DEF R
<1>3. PICK x \in T : \A y \in T : ~ (<< y, x >> \in R)
  BY <1>1, WFMin
<1>4. ASSUME NEW y \in T PROVE x <= y
  <2>1. x \in Nat /\ y \in Nat
    OBVIOUS
  <2>2. ~ (y < x)
    BY <1>2, <1>3, <2>1
  <2> QED
    BY <2>1, <2>2
<1> QED
  BY <1>4

\* A set that has 0, and the next place with every place, has all of them.
LEMMA PrefixInduction ==
  ASSUME NEW n \in Nat, NEW P, 0 \in P, \A i \in 1..n : i - 1 \in P => i \in P
  PROVE  0..n \subseteq P
<1> DEFINE T == (0..n) \ P
<1>1. SUFFICES ASSUME T # {} PROVE FALSE
  OBVIOUS
<1>2. PICK m \in T : \A k \in T : m <= k
  <2>1. T \in SUBSET Nat
    OBVIOUS
  <2> HIDE DEF T
  <2> QED
    BY <1>1, <2>1, SetsHaveMin
<1>3. m \in 1..n /\ m \notin P
  OBVIOUS
<1>4. m - 1 \in 0..n /\ m - 1 \notin T
  BY <1>2, <1>3
<1>5. m - 1 \in P
  BY <1>4
<1> QED
  BY <1>3, <1>5

\* What a recursion over 0..n that stays in V computes, place by place.
Recursion(n, V, base, step) ==
  { f \in [0..n -> V] : f[0] = base /\ \A i \in 1..n : f[i] = step[i][f[i - 1]] }

\* There is such a function.
LEMMA RecursionExists ==
  ASSUME NEW n \in Nat, NEW V, NEW base \in V, NEW step \in [1..n -> [V -> V]]
  PROVE  Recursion(n, V, base, step) # {}
<1> DEFINE P == { m \in 0..n : Recursion(m, V, base, step) # {} }
<1>1. 0 \in P
  <2> DEFINE f == [i \in 0..0 |-> base]
  <2>1. f \in Recursion(0, V, base, step)
    BY DEF Recursion
  <2> QED
    BY <2>1
<1>2. ASSUME NEW m \in 1..n, m - 1 \in P PROVE m \in P
  <2>1. PICK g : g \in Recursion(m - 1, V, base, step)
    BY <1>2
  <2>2. /\ g \in [0..(m - 1) -> V] /\ g[0] = base
        /\ \A i \in 1..(m - 1) : g[i] = step[i][g[i - 1]]
    BY <2>1 DEF Recursion
  <2> DEFINE f == [i \in 0..m |-> IF i = m THEN step[m][g[m - 1]] ELSE g[i]]
  <2>3. g[m - 1] \in V
    BY <2>2
  <2>4. step[m][g[m - 1]] \in V
    BY <2>3
  <2>5. f \in [0..m -> V]
    BY <2>2, <2>4
  <2>6. f[0] = base
    BY <2>2
  <2>7. ASSUME NEW i \in 1..m PROVE f[i] = step[i][f[i - 1]]
    <3>1. CASE i = m
      <4>1. m - 1 \in 0..m /\ m - 1 # m /\ m \in 0..m
        OBVIOUS
      <4>2. f[m - 1] = g[m - 1] /\ f[m] = step[m][g[m - 1]]
        BY <4>1
      <4> QED
        BY <3>1, <4>2
    <3>2. CASE i # m
      <4>1. i \in 1..(m - 1) /\ f[i] = g[i] /\ f[i - 1] = g[i - 1]
        BY <3>2
      <4> QED
        BY <2>2, <4>1
    <3> QED
      BY <3>1, <3>2
  <2>8. f \in Recursion(m, V, base, step)
    BY <2>5, <2>6, <2>7 DEF Recursion
  <2> QED
    BY <2>8
<1>3. 0..n \subseteq P
  <2> HIDE DEF P
  <2> QED
    BY <1>1, <1>2, PrefixInduction
<1> QED
  BY <1>3

\* Picked is what its recursion computes.
PickedBy(S, s, positions, f) ==
  /\ f \in [0..Len(s) -> Seq(S)]
  /\ Picked(s, positions) = f[Len(s)]
  /\ f[0] = << >>
  /\ \A i \in 1..Len(s) :
       f[i] = IF i \in positions THEN Append(f[i - 1], s[i]) ELSE f[i - 1]

\* So there is one whose last value is Picked.
LEMMA PickedIs ==
  ASSUME NEW S, NEW s \in Seq(S), NEW positions
  PROVE  \E f : PickedBy(S, s, positions, f)
<1> DEFINE n == Len(s)
           V == Seq(S)
           step == [i \in 1..n |-> [v \in V |-> IF i \in positions THEN Append(v, s[i]) ELSE v]]
           Body(f) == [i \in 0..n |-> IF i = 0 THEN << >>
                                      ELSE IF i \in positions THEN Append(f[i - 1], s[i]) ELSE f[i - 1]]
<1>1. n \in Nat /\ << >> \in V
  OBVIOUS
<1>2. step \in [1..n -> [V -> V]]
  <2>1. ASSUME NEW i \in 1..n, NEW v \in V
        PROVE  (IF i \in positions THEN Append(v, s[i]) ELSE v) \in V
    BY DEF V
  <2> HIDE DEF V
  <2> QED
    BY <2>1
<1>3. PICK g \in [0..n -> V] : g[0] = << >> /\ \A i \in 1..n : g[i] = step[i][g[i - 1]]
  <2> HIDE DEF n, V, step, Body
  <2>1. Recursion(n, V, << >>, step) # {}
    BY <1>1, <1>2, RecursionExists
  <2> QED
    BY <2>1 DEF Recursion
<1>4. \A i \in 1..n : g[i] = IF i \in positions THEN Append(g[i - 1], s[i]) ELSE g[i - 1]
  <2> SUFFICES ASSUME NEW i \in 1..n
      PROVE  g[i] = IF i \in positions THEN Append(g[i - 1], s[i]) ELSE g[i - 1]
    OBVIOUS
  <2>1. g[i - 1] \in V
    <3>1. i - 1 \in 0..n
      BY <1>1
    <3> HIDE DEF n, V
    <3> QED
      BY <1>3, <3>1
  <2> QED
    BY <1>3, <2>1
<1>5. g = Body(g)
  <2>1. g \in [0..n -> V]
    BY <1>3
  <2>2. g = [i \in 0..n |-> g[i]]
    BY <2>1, Zenon
  <2>3. \A i \in 0..n : g[i] = IF i = 0 THEN << >>
                              ELSE IF i \in positions THEN Append(g[i - 1], s[i]) ELSE g[i - 1]
    <3> SUFFICES ASSUME NEW i \in 0..n
        PROVE  g[i] = IF i = 0 THEN << >>
                      ELSE IF i \in positions THEN Append(g[i - 1], s[i]) ELSE g[i - 1]
      OBVIOUS
    <3>1. i = 0 \/ i \in 1..n
      BY <1>1
    <3> HIDE DEF n
    <3> QED
      BY <1>3, <1>4, <3>1
  <2> HIDE DEF n, V, step
  <2> QED
    BY <2>2, <2>3, Zenon
<1> DEFINE h == CHOOSE h : h = Body(h)
<1>6. Picked(s, positions) = h[n]
  BY DEF Picked
<1>7. h = Body(h)
  <2> HIDE DEF Body
  <2> QED
    BY <1>5
<1> HIDE DEF h, n
<1>8. /\ h = [i \in 0..n |-> h[i]]
      /\ \A i \in 0..n : h[i] = IF i = 0 THEN << >>
                               ELSE IF i \in positions THEN Append(h[i - 1], s[i]) ELSE h[i - 1]
  BY <1>7, Zenon
<1>9. 0 \in 0..n /\ h[0] = << >>
  <2>1. 0 \in 0..n
    BY <1>1
  <2> HIDE DEF V, step, Body
  <2> QED
    BY <1>8, <2>1, Zenon
<1>10. \A i \in 1..n : h[i] = IF i \in positions THEN Append(h[i - 1], s[i]) ELSE h[i - 1]
  <2> SUFFICES ASSUME NEW i \in 1..n
      PROVE  h[i] = IF i \in positions THEN Append(h[i - 1], s[i]) ELSE h[i - 1]
    OBVIOUS
  <2>1. i \in 0..n /\ i # 0
    BY <1>1
  <2> HIDE DEF V, step, Body
  <2> QED
    BY <1>8, <2>1, Zenon
<1>11. \A i \in 0..n : h[i] \in V
  <2> DEFINE Good == { i \in 0..n : h[i] \in V }
  <2>1. 0 \in Good
    BY <1>1, <1>9
  <2>2. ASSUME NEW i \in 1..n, i - 1 \in Good PROVE i \in Good
    <3>1. h[i - 1] \in Seq(S) /\ s[i] \in S /\ i \in 0..n
      BY <1>1, <2>2 DEF n
    <3> DEFINE v == h[i - 1]
    <3>2. v \in Seq(S) /\ h[i] = IF i \in positions THEN Append(v, s[i]) ELSE v
      BY <1>10, <3>1
    <3> HIDE DEF v, V, Body, step
    <3>3. h[i] \in Seq(S)
      BY <3>1, <3>2
    <3> USE DEF V
    <3> QED
      BY <3>1, <3>3
  <2>3. 0..n \subseteq Good
    <3> HIDE DEF Good
    <3> QED
      BY <1>1, <2>1, <2>2, PrefixInduction
  <2> QED
    BY <2>3
<1>12. h \in [0..n -> V]
  <2> HIDE DEF V
  <2> QED
    BY <1>8, <1>11
<1> QED
  <2> HIDE DEF Body, step
  <2>1. h \in [0..Len(s) -> Seq(S)] /\ Picked(s, positions) = h[Len(s)]
    BY <1>6, <1>12 DEF n
  <2>2. \A i \in 1..Len(s) : h[i] = IF i \in positions THEN Append(h[i - 1], s[i]) ELSE h[i - 1]
    BY <1>10 DEF n
  <2> QED
    BY <1>9, <2>1, <2>2 DEF PickedBy

\* What is appended is what there was and one element more.
LEMMA AppendHas ==
  ASSUME NEW S, NEW t \in Seq(S), NEW e \in S
  PROVE  /\ Append(t, e) \in Seq(S) /\ Len(Append(t, e)) = Len(t) + 1
         /\ ToSet(Append(t, e)) = ToSet(t) \cup { e }
<1>1. /\ Append(t, e) \in Seq(S) /\ Len(Append(t, e)) = Len(t) + 1 /\ Len(t) \in Nat
      /\ DOMAIN Append(t, e) = 1..(Len(t) + 1) /\ DOMAIN t = 1..Len(t)
      /\ \A i \in DOMAIN t : Append(t, e)[i] = t[i]
      /\ Append(t, e)[Len(t) + 1] = e
  OBVIOUS
<1> DEFINE u == Append(t, e)
<1> HIDE DEF u
<1>2. DOMAIN u = DOMAIN t \cup { Len(t) + 1 }
  BY <1>1 DEF u
<1>3. { u[i] : i \in DOMAIN u } = { u[i] : i \in DOMAIN t } \cup { u[Len(t) + 1] }
  BY <1>2
<1>4. { u[i] : i \in DOMAIN t } = { t[i] : i \in DOMAIN t }
  BY <1>1 DEF u
<1>5. u[Len(t) + 1] = e
  BY <1>1 DEF u
<1>6. ToSet(u) = ToSet(t) \cup { e }
  BY <1>3, <1>4, <1>5 DEF ToSet
<1> QED
  BY <1>1, <1>6 DEF u

\* A concatenation has the elements of both.
LEMMA ConcatHas ==
  ASSUME NEW S, NEW t \in Seq(S), NEW u \in Seq(S)
  PROVE  /\ t \o u \in Seq(S) /\ Len(t \o u) = Len(t) + Len(u)
         /\ ToSet(t \o u) = ToSet(t) \cup ToSet(u)
<1> DEFINE w == t \o u
<1>1. /\ w \in Seq(S) /\ Len(w) = Len(t) + Len(u) /\ Len(t) \in Nat /\ Len(u) \in Nat
      /\ DOMAIN w = 1..(Len(t) + Len(u)) /\ DOMAIN t = 1..Len(t) /\ DOMAIN u = 1..Len(u)
      /\ \A i \in DOMAIN t : w[i] = t[i]
      /\ \A i \in DOMAIN u : w[Len(t) + i] = u[i]
  OBVIOUS
<1> HIDE DEF w
<1>2. ASSUME NEW i \in DOMAIN w PROVE w[i] \in ToSet(t) \cup ToSet(u)
  <2>1. CASE i <= Len(t)
    BY <1>1, <2>1 DEF ToSet
  <2>2. CASE i > Len(t)
    <3>1. i - Len(t) \in DOMAIN u /\ i = Len(t) + (i - Len(t))
      BY <1>1, <2>2
    <3>2. w[i] = u[i - Len(t)]
      BY <1>1, <3>1
    <3> QED
      BY <3>1, <3>2 DEF ToSet
  <2> QED
    BY <1>1, <2>1, <2>2
<1>3. ASSUME NEW i \in DOMAIN t PROVE t[i] \in ToSet(w)
  <2>1. i \in DOMAIN w /\ w[i] = t[i]
    BY <1>1
  <2> QED
    BY <2>1 DEF ToSet
<1>4. ASSUME NEW i \in DOMAIN u PROVE u[i] \in ToSet(w)
  <2>1. Len(t) + i \in DOMAIN w /\ w[Len(t) + i] = u[i]
    BY <1>1
  <2> QED
    BY <2>1 DEF ToSet
<1>5. ToSet(w) = ToSet(t) \cup ToSet(u)
  BY <1>2, <1>3, <1>4 DEF ToSet
<1> QED
  BY <1>1, <1>5 DEF w

\* The elements at the positions are picked, one for each of them.
LEMMA PickedHas ==
  ASSUME NEW S, NEW s \in Seq(S), NEW positions \in SUBSET (1..Len(s))
  PROVE  /\ Picked(s, positions) \in Seq(S)
         /\ ToSet(Picked(s, positions)) = { s[i] : i \in positions }
         /\ Len(Picked(s, positions)) = Cardinality(positions)
<1>0. PICK f : PickedBy(S, s, positions, f)
  BY PickedIs
<1> DEFINE n == Len(s)
           Before(m) == positions \cap 1..m
<1>1. n \in Nat /\ \A i \in 1..n : s[i] \in S
  OBVIOUS
<1>2. /\ f \in [0..n -> Seq(S)] /\ Picked(s, positions) = f[n] /\ f[0] = << >>
      /\ \A i \in 1..n : f[i] = IF i \in positions THEN Append(f[i - 1], s[i]) ELSE f[i - 1]
  BY <1>0 DEF PickedBy
<1> HIDE DEF n
<1> DEFINE Good == { m \in 0..n : /\ IsFiniteSet(Before(m))
                                  /\ Len(f[m]) = Cardinality(Before(m))
                                  /\ ToSet(f[m]) = { s[i] : i \in Before(m) } }
<1>3. 0 \in Good
  <2>1. Before(0) = {} /\ 0 \in 0..n
    BY <1>1
  <2>2. ToSet(f[0]) = {} /\ Len(f[0]) = 0
    BY <1>2 DEF ToSet
  <2> QED
    BY <2>1, <2>2, FS_EmptySet
<1>4. ASSUME NEW m \in 1..n, m - 1 \in Good PROVE m \in Good
  <2>1. /\ m \in 0..n /\ m - 1 \in 0..n /\ f[m - 1] \in Seq(S) /\ s[m] \in S
        /\ m \notin Before(m - 1)
    BY <1>1, <1>2
  <2>2. /\ IsFiniteSet(Before(m - 1))
        /\ Len(f[m - 1]) = Cardinality(Before(m - 1))
        /\ ToSet(f[m - 1]) = { s[i] : i \in Before(m - 1) }
    BY <1>4
  <2>3. CASE m \in positions
    <3>1. Before(m) = Before(m - 1) \cup { m }
      BY <1>1, <2>3
    <3>2. f[m] = Append(f[m - 1], s[m])
      BY <1>2, <2>3
    <3>3. Len(f[m]) = Len(f[m - 1]) + 1 /\ ToSet(f[m]) = ToSet(f[m - 1]) \cup { s[m] }
      BY <2>1, <3>2, AppendHas
    <3> HIDE DEF Before
    <3>4. { s[i] : i \in Before(m) } = { s[i] : i \in Before(m - 1) } \cup { s[m] }
      BY <3>1
    <3>5. IsFiniteSet(Before(m)) /\ Cardinality(Before(m)) = Cardinality(Before(m - 1)) + 1
      <4> DEFINE B == Before(m - 1)
      <4>1. IsFiniteSet(B) /\ m \notin B /\ Before(m) = B \cup { m }
        BY <2>1, <2>2, <3>1
      <4> HIDE DEF B
      <4>2. IsFiniteSet(Before(m)) /\ Cardinality(Before(m)) = Cardinality(B) + 1
        BY <4>1, FS_AddElement
      <4> QED
        BY <4>2 DEF B
    <3> QED
      BY <2>1, <2>2, <3>3, <3>4, <3>5
  <2>4. CASE m \notin positions
    <3>1. Before(m) = Before(m - 1)
      BY <1>1, <2>4
    <3>2. f[m] = f[m - 1]
      BY <1>2, <2>4
    <3> HIDE DEF Before
    <3> QED
      BY <2>1, <2>2, <3>1, <3>2
  <2> QED
    BY <2>3, <2>4
<1>5. 0..n \subseteq Good
  <2> HIDE DEF Good
  <2> QED
    BY <1>1, <1>3, <1>4, PrefixInduction
<1>6. n \in Good
  <2> HIDE DEF Good
  <2>1. n \in 0..n
    BY <1>1
  <2> QED
    BY <1>5, <2>1
<1>7. Before(n) = positions
  BY DEF n
<1> HIDE DEF Before
<1>8. Picked(s, positions) \in Seq(S)
  BY <1>1, <1>2
<1> QED
  BY <1>2, <1>6, <1>7, <1>8

\* Flattening keeps the elements.
LEMMA FlattenHas ==
  ASSUME NEW S, NEW seqs \in Seq(Seq(S))
  PROVE  /\ FlattenSeq(seqs) \in Seq(S)
         /\ ToSet(FlattenSeq(seqs)) = UNION { ToSet(seqs[i]) : i \in DOMAIN seqs }
<1> DEFINE n == Len(seqs)
           V == Seq(S)
           Body(f) == [i \in 1..n |-> IF i = 1 THEN seqs[i] ELSE f[i - 1] \o seqs[i]]
           step == [i \in 1..n |-> [v \in V |-> IF i = 1 THEN seqs[i] ELSE v \o seqs[i]]]
           h == CHOOSE h : h = Body(h)
<1>1. n \in Nat /\ << >> \in V /\ DOMAIN seqs = 1..n /\ \A i \in 1..n : seqs[i] \in V
  OBVIOUS
<1>2. CASE n = 0
  <2>1. FlattenSeq(seqs) = seqs /\ DOMAIN seqs = {} /\ seqs = << >>
    BY <1>1, <1>2 DEF FlattenSeq
  <2> QED
    BY <2>1 DEF ToSet
<1>3. CASE n # 0
  <2>1. FlattenSeq(seqs) = h[n]
    BY <1>3 DEF FlattenSeq
  <2>2. step \in [1..n -> [V -> V]]
    <3>1. ASSUME NEW i \in 1..n, NEW v \in V
          PROVE  (IF i = 1 THEN seqs[i] ELSE v \o seqs[i]) \in V
      BY <1>1
    <3> HIDE DEF V
    <3> QED
      BY <3>1
  <2> HIDE DEF n
  <2>3. \E g : g = Body(g)
    <3>1. PICK g \in [0..n -> V] : g[0] = << >> /\ \A i \in 1..n : g[i] = step[i][g[i - 1]]
      <4> HIDE DEF V, step, Body, h
      <4>1. Recursion(n, V, << >>, step) # {}
        BY <1>1, <2>2, RecursionExists
      <4> QED
        BY <4>1 DEF Recursion
    <3>2. ASSUME NEW i \in 1..n
          PROVE  g[i] = IF i = 1 THEN seqs[i] ELSE g[i - 1] \o seqs[i]
      <4>1. i - 1 \in 0..n
        BY <1>1
      <4>2. g[i - 1] \in V
        <5> HIDE DEF V
        <5> QED
          BY <3>1, <4>1
      <4> QED
        BY <3>1, <4>2
    <3> DEFINE d == [i \in 1..n |-> g[i]]
    <3>3. d = Body(d)
      <4>1. ASSUME NEW i \in 1..n
            PROVE  d[i] = IF i = 1 THEN seqs[i] ELSE d[i - 1] \o seqs[i]
        <5>1. i # 1 => i - 1 \in 1..n
          BY <1>1
        <5> QED
          BY <3>2, <5>1
      <4>2. d = [i \in 1..n |-> d[i]]
        OBVIOUS
      <4> HIDE DEF d, V
      <4> QED
        BY <4>1, <4>2, Zenon
    <3> QED
      BY <3>3
  <2>4. h = Body(h)
    <3> HIDE DEF Body
    <3> QED
      BY <2>3
  <2> HIDE DEF h
  <2>5. \A i \in 1..n : h[i] = IF i = 1 THEN seqs[i] ELSE h[i - 1] \o seqs[i]
    BY <2>4, Zenon
  <2> HIDE DEF Body, step
  <2> DEFINE Upto(m) == UNION { ToSet(seqs[i]) : i \in 1..m }
             Good == { m \in 0..n : m # 0 => h[m] \in V /\ ToSet(h[m]) = Upto(m) }
  <2>6. 0 \in Good
    BY <1>1
  <2>7. ASSUME NEW m \in 1..n, m - 1 \in Good PROVE m \in Good
    <3>1. seqs[m] \in V /\ m \in 0..n /\ m \in 1..n
      BY <1>1
    <3>2. CASE m = 1
      <4>1. h[m] = seqs[m] /\ 1..m = { m }
        BY <2>5, <3>2
      <4> HIDE DEF V
      <4> QED
        BY <3>1, <4>1
    <3>3. CASE m # 1
      <4> DEFINE v == h[m - 1]
      <4>0. m - 1 # 0
        BY <1>1, <3>3
      <4>1. h[m] = v \o seqs[m]
        <5> HIDE DEF V
        <5> QED
          BY <2>5, <3>1, <3>3, Zenon
      <4>2. v \in V /\ ToSet(v) = Upto(m - 1)
        BY <2>7, <4>0
      <4>3. 1..m = 1..(m - 1) \cup { m }
        BY <1>1
      <4> HIDE DEF v
      <4>4. v \o seqs[m] \in V /\ ToSet(v \o seqs[m]) = ToSet(v) \cup ToSet(seqs[m])
        BY <3>1, <4>2, ConcatHas
      <4> HIDE DEF V
      <4> QED
        BY <3>1, <4>1, <4>2, <4>3, <4>4
    <3> QED
      BY <3>2, <3>3
  <2>8. 0..n \subseteq Good
    <3> HIDE DEF Good
    <3> QED
      BY <1>1, <2>6, <2>7, PrefixInduction
  <2>9. n \in Good
    BY <1>1, <2>8
  <2> QED
    BY <1>1, <1>3, <2>1, <2>9
<1> QED
  BY <1>2, <1>3

\* The places of a sequence are as many as it is long.
LEMMA PlacesAreFinite ==
  ASSUME NEW n \in Nat PROVE IsFiniteSet(1..n) /\ Cardinality(1..n) = n
<1>1. 1 \in Int /\ n \in Int
  OBVIOUS
<1>2. IsFiniteSet(1..n) /\ Cardinality(1..n) = IF 1 > n THEN 0 ELSE n - 1 + 1
  BY <1>1, FS_Interval
<1> QED
  BY <1>2

\* As many elements as there are places, where no two places have the same.
LEMMA ImageSize ==
  ASSUME NEW D, NEW s, IsFiniteSet(D), \A i, j \in D : s[i] = s[j] => i = j
  PROVE  Cardinality({ s[i] : i \in D }) = Cardinality(D)
<1> DEFINE T == { s[i] : i \in D }
           f == [i \in D |-> s[i]]
<1>1. f \in Injection(D, T)
  BY DEF Injection, IsInjective
<1>2. f \in Surjection(D, T)
  BY DEF Surjection
<1>3. ExistsBijection(D, T)
  BY <1>1, <1>2 DEF Bijection, ExistsBijection
<1> HIDE DEF T
<1>4. Cardinality(T) = Cardinality(D)
  BY <1>3, FS_Bijection
<1> QED
  BY <1>4 DEF T

\* Every element has one first place.
LEMMA FirstPlacesHave ==
  ASSUME NEW S, NEW s \in Seq(S)
  PROVE  /\ FirstPlaces(s) \in SUBSET (1..Len(s)) /\ IsFiniteSet(FirstPlaces(s))
         /\ { s[i] : i \in FirstPlaces(s) } = ToSet(s)
         /\ \A i, j \in FirstPlaces(s) : s[i] = s[j] => i = j
<1>1. Len(s) \in Nat /\ DOMAIN s = 1..Len(s)
  OBVIOUS
<1>2. FirstPlaces(s) \in SUBSET (1..Len(s))
  BY <1>1 DEF FirstPlaces
<1>3. IsFiniteSet(FirstPlaces(s))
  BY <1>1, <1>2, PlacesAreFinite, FS_Subset
<1>4. ASSUME NEW k \in DOMAIN s PROVE \E i \in FirstPlaces(s) : s[i] = s[k]
  <2> DEFINE T == { i \in DOMAIN s : s[i] = s[k] }
  <2>1. T \in SUBSET Nat /\ T # {}
    BY <1>1
  <2>2. PICK i \in T : \A j \in T : i <= j
    <3> HIDE DEF T
    <3> QED
      BY <2>1, SetsHaveMin
  <2>3. i \in FirstPlaces(s)
    BY <2>2 DEF FirstPlaces
  <2> QED
    BY <2>2, <2>3
<1>5. { s[i] : i \in FirstPlaces(s) } = ToSet(s)
  BY <1>1, <1>2, <1>4 DEF ToSet
<1>6. \A i, j \in FirstPlaces(s) : s[i] = s[j] => i = j
  BY <1>1 DEF FirstPlaces
<1> QED
  BY <1>2, <1>3, <1>5, <1>6

-----------------------------------------------------------------------------
(***************************************************************************)
(* What a form asks for.                                                   *)
(***************************************************************************)
\* Every word of the table stands for fields.
LEMMA AliasesAreKeys ==
  ASSUME NEW token \in DOMAIN RawFieldAliases
  PROVE  RawFieldAliases[token] \in Seq(AllKeys)
<1> DEFINE Bank == << "payoutAccountHolderName", "payoutIban", "payoutBic" >>
<1>1. RawFieldAliases[token] \in { << key >> : key \in AllKeys } \cup { ContactDetails, Bank }
  BY DEF RawFieldAliases, AllKeys, ProfileKeys, ClaimStateKeys, PerClaimKeys
<1>2. ContactDetails \in Seq(AllKeys) /\ Bank \in Seq(AllKeys)
  BY DEF ContactDetails, AllKeys, ProfileKeys
<1>3. \A key \in AllKeys : << key >> \in Seq(AllKeys)
  OBVIOUS
<1> QED
  BY <1>1, <1>2, <1>3

\* The fields of a form are those its words stand for, each once.
LEMMA FieldsAccounted ==
  ASSUME NEW raw \in RawRequiredFields
  PROVE  /\ ToRequiredFields(raw).known = raw.known
         /\ ToRequiredFields(raw).keys \in Seq(AllKeys)
         /\ Accounted(raw, ToRequiredFields(raw).keys)
<1>1. CASE raw.known
  <2> DEFINE tokens == raw.tokens
             lists  == [ i \in DOMAIN tokens |-> RawFieldAliases[tokens[i]] ]
             all    == FlattenSeq(lists)
             keys   == Picked(all, FirstPlaces(all))
  <2>1. tokens \in Seq(DOMAIN RawFieldAliases)
    BY <1>1 DEF RawRequiredFields
  <2>2. lists \in Seq(Seq(AllKeys)) /\ DOMAIN lists = DOMAIN tokens
    <3>1. ASSUME NEW i \in DOMAIN tokens PROVE RawFieldAliases[tokens[i]] \in Seq(AllKeys)
      BY <2>1, AliasesAreKeys
    <3>2. DOMAIN tokens = 1..Len(tokens) /\ Len(tokens) \in Nat
      BY <2>1
    <3> HIDE DEF tokens
    <3>3. lists \in [1..Len(tokens) -> Seq(AllKeys)]
      BY <3>1, <3>2
    <3> QED
      BY <3>2, <3>3
  <2>3. all \in Seq(AllKeys) /\ ToSet(all) = UNION { ToSet(lists[i]) : i \in DOMAIN lists }
    <3> HIDE DEF lists
    <3> QED
      BY <2>2, FlattenHas
  <2>4. ToSet(all) = Wanted(raw)
    <3>1. \A i \in DOMAIN tokens : lists[i] = RawFieldAliases[tokens[i]]
      OBVIOUS
    <3> HIDE DEF lists
    <3>2. UNION { ToSet(lists[i]) : i \in DOMAIN lists }
            = UNION { ToSet(RawFieldAliases[tokens[i]]) : i \in DOMAIN tokens }
      BY <2>2, <3>1
    <3> QED
      BY <2>3, <3>2 DEF Wanted
  <2> HIDE DEF lists
  <2>5. /\ FirstPlaces(all) \in SUBSET (1..Len(all)) /\ IsFiniteSet(FirstPlaces(all))
        /\ { all[i] : i \in FirstPlaces(all) } = ToSet(all)
        /\ \A i, j \in FirstPlaces(all) : all[i] = all[j] => i = j
    <3> HIDE DEF all
    <3> QED
      BY <2>3, FirstPlacesHave
  <2>6. keys \in Seq(AllKeys) /\ ToSet(keys) = ToSet(all) /\ Len(keys) = Cardinality(FirstPlaces(all))
    <3> HIDE DEF all
    <3> QED
      BY <2>3, <2>5, PickedHas
  <2>7. Cardinality(ToSet(keys)) = Len(keys)
    <3> DEFINE D == FirstPlaces(all)
    <3> HIDE DEF all, D
    <3>1. Cardinality({ all[i] : i \in D }) = Cardinality(D)
      BY <2>5, ImageSize DEF D
    <3> QED
      BY <2>5, <2>6, <3>1 DEF D
  <2>8. ToRequiredFields(raw) = [ known |-> TRUE, keys |-> keys ]
    BY <1>1 DEF ToRequiredFields, NormaliseRequiredFields, lists
  <2> HIDE DEF keys
  <2>9. raw.known = TRUE
    BY <1>1 DEF RawRequiredFields
  <2>10. Accounted(raw, keys)
    BY <2>4, <2>6, <2>7, <2>9 DEF Accounted
  <2>11. ToRequiredFields(raw).known = TRUE /\ ToRequiredFields(raw).keys = keys
    BY <2>8
  <2> QED
    BY <2>6, <2>9, <2>10, <2>11
<1>2. CASE ~raw.known
  <2>1. ToRequiredFields(raw) = [ known |-> FALSE, keys |-> << >> ] /\ raw.known = FALSE
    BY <1>2 DEF ToRequiredFields, RawRequiredFields
  <2>2. ToSet(<< >>) = {}
    BY DEF ToSet
  <2>3. Len(<< >>) = 0 /\ << >> \in Seq(AllKeys)
    OBVIOUS
  <2> QED
    <3>1. ToRequiredFields(raw).known = FALSE /\ ToRequiredFields(raw).keys = << >>
      BY <2>1
    <3>2. Accounted(raw, << >>)
      BY <2>1, <2>2, <2>3, FS_EmptySet DEF Accounted
    <3> QED
      BY <2>1, <2>3, <3>1, <3>2
<1> QED
  BY <1>1, <1>2

\* A list that is split by its places into three keeps its elements and its length.
LEMMA ThreeLists ==
  ASSUME NEW S, NEW keys \in Seq(S),
         NEW known \in SUBSET DOMAIN keys, NEW stored \in SUBSET (DOMAIN keys \ known)
  PROVE  LET a == Picked(keys, known)
             b == Picked(keys, stored)
             c == Picked(keys, DOMAIN keys \ (known \cup stored))
         IN  /\ a \in Seq(S) /\ b \in Seq(S) /\ c \in Seq(S)
             /\ ToSet(a) \cup ToSet(b) \cup ToSet(c) = ToSet(keys)
             /\ Len(a) + Len(b) + Len(c) = Len(keys)
<1> DEFINE others == DOMAIN keys \ (known \cup stored)
           a == Picked(keys, known)
           b == Picked(keys, stored)
           c == Picked(keys, others)
<1>1. DOMAIN keys = 1..Len(keys) /\ Len(keys) \in Nat
  OBVIOUS
<1>2. /\ known \in SUBSET (1..Len(keys)) /\ stored \in SUBSET (1..Len(keys))
      /\ others \in SUBSET (1..Len(keys))
      /\ known \cup (stored \cup others) = 1..Len(keys)
      /\ known \cap (stored \cup others) = {} /\ stored \cap others = {}
  BY <1>1
<1> HIDE DEF others
<1>3. a \in Seq(S) /\ ToSet(a) = { keys[i] : i \in known } /\ Len(a) = Cardinality(known)
  BY <1>2, PickedHas
<1>4. b \in Seq(S) /\ ToSet(b) = { keys[i] : i \in stored } /\ Len(b) = Cardinality(stored)
  BY <1>2, PickedHas
<1>5. c \in Seq(S) /\ ToSet(c) = { keys[i] : i \in others } /\ Len(c) = Cardinality(others)
  BY <1>2, PickedHas
<1> HIDE DEF a, b, c
<1>6. ToSet(a) \cup ToSet(b) \cup ToSet(c) = ToSet(keys)
  BY <1>1, <1>2, <1>3, <1>4, <1>5 DEF ToSet
<1>7. /\ IsFiniteSet(1..Len(keys)) /\ Cardinality(1..Len(keys)) = Len(keys)
      /\ IsFiniteSet(known) /\ IsFiniteSet(stored) /\ IsFiniteSet(others)
  <2>1. IsFiniteSet(1..Len(keys)) /\ Cardinality(1..Len(keys)) = Len(keys)
    BY <1>1, PlacesAreFinite
  <2> QED
    BY <1>2, <2>1, FS_Subset
<1>8. /\ IsFiniteSet(stored \cup others)
      /\ Cardinality(stored \cup others) = Cardinality(stored) + Cardinality(others) - Cardinality({})
  BY <1>2, <1>7, FS_Union
<1>9. Cardinality(known \cup (stored \cup others))
        = Cardinality(known) + Cardinality(stored \cup others) - Cardinality({})
  BY <1>2, <1>7, <1>8, FS_Union
<1>10. Cardinality({}) = 0
  BY FS_EmptySet
<1>11. Len(a) + Len(b) + Len(c) = Len(keys)
  <2>1. Len(a) \in Nat /\ Len(b) \in Nat /\ Len(c) \in Nat
    BY <1>3, <1>4, <1>5
  <2>2. Cardinality(known) + (Cardinality(stored) + Cardinality(others) - 0) - 0 = Len(keys)
    BY <1>2, <1>7, <1>8, <1>9, <1>10
  <2> QED
    BY <1>3, <1>4, <1>5, <2>1, <2>2
<1> QED
  BY <1>3, <1>4, <1>5, <1>6, <1>11 DEF a, b, c, others

\* A prefill accounts for every field once, and is complete only if it has them all.
LEMMA PrefillAccounts ==
  ASSUME NEW raw \in RawRequiredFields, NEW facts, NEW profile, NEW form,
         form = ResolvePrefill(ToRequiredFields(raw), facts, profile)
  PROVE  /\ Accounted(raw, Lists(form))
         /\ Accounted(raw, form.resolved \o (form.missingFromProfile \o form.missingPerClaim))
         /\ form.complete => raw.known /\ ToSet(form.resolved) = Wanted(raw)
<1> DEFINE keys   == ToRequiredFields(raw).keys
           values == Available(facts, profile)
           known  == { i \in DOMAIN keys : Filled(values[keys[i]]) }
           stored == { i \in DOMAIN keys \ known : ProvenanceOf(keys[i]) = "passenger_profile" }
           others  == DOMAIN keys \ (known \cup stored)
           a == form.resolved
           b == form.missingFromProfile
           c == form.missingPerClaim
<1>1. /\ a = Picked(keys, known) /\ b = Picked(keys, stored) /\ c = Picked(keys, others)
      /\ form.complete <=> ToRequiredFields(raw).known /\ known = DOMAIN keys
  BY DEF ResolvePrefill
<1>2. /\ ToRequiredFields(raw).known = raw.known /\ keys \in Seq(AllKeys)
      /\ Accounted(raw, keys)
  BY FieldsAccounted
<1>3. known \in SUBSET DOMAIN keys /\ stored \in SUBSET (DOMAIN keys \ known)
  OBVIOUS
<1> HIDE DEF keys, known, stored
<1>4. /\ a \in Seq(AllKeys) /\ b \in Seq(AllKeys) /\ c \in Seq(AllKeys)
      /\ ToSet(a) \cup ToSet(b) \cup ToSet(c) = ToSet(keys)
      /\ Len(a) + Len(b) + Len(c) = Len(keys)
  BY <1>1, <1>2, <1>3, ThreeLists
<1>5. ASSUME form.complete PROVE raw.known /\ ToSet(a) = Wanted(raw)
  <2>1. raw.known /\ known = DOMAIN keys
    BY <1>1, <1>2, <1>5
  <2>2. DOMAIN keys \in SUBSET (1..Len(keys))
    BY <1>2
  <2>3. ToSet(a) = { keys[i] : i \in DOMAIN keys }
    BY <1>1, <1>2, <2>1, <2>2, PickedHas
  <2> QED
    BY <1>2, <2>1, <2>3 DEF Accounted, ToSet
<1> HIDE DEF a, b, c
<1>6. Len(a) \in Nat /\ Len(b) \in Nat /\ Len(c) \in Nat
  BY <1>4
<1>7. /\ a \o b \in Seq(AllKeys) /\ Len(a \o b) = Len(a) + Len(b)
      /\ ToSet(a \o b) = ToSet(a) \cup ToSet(b)
      /\ b \o c \in Seq(AllKeys) /\ Len(b \o c) = Len(b) + Len(c)
      /\ ToSet(b \o c) = ToSet(b) \cup ToSet(c)
  BY <1>4, ConcatHas
<1>8. /\ Len((a \o b) \o c) = Len(a \o b) + Len(c)
      /\ ToSet((a \o b) \o c) = ToSet(a \o b) \cup ToSet(c)
      /\ Len(a \o (b \o c)) = Len(a) + Len(b \o c)
      /\ ToSet(a \o (b \o c)) = ToSet(a) \cup ToSet(b \o c)
  <2> DEFINE ab == a \o b
             bc == b \o c
  <2>1. ab \in Seq(AllKeys) /\ bc \in Seq(AllKeys)
    BY <1>7
  <2> HIDE DEF ab, bc
  <2>2. Len(ab \o c) = Len(ab) + Len(c) /\ ToSet(ab \o c) = ToSet(ab) \cup ToSet(c)
    BY <1>4, <2>1, ConcatHas
  <2>3. Len(a \o bc) = Len(a) + Len(bc) /\ ToSet(a \o bc) = ToSet(a) \cup ToSet(bc)
    BY <1>4, <2>1, ConcatHas
  <2> QED
    BY <2>2, <2>3 DEF ab, bc
<1>9. Accounted(raw, (a \o b) \o c)
  <2>1. ToSet((a \o b) \o c) = ToSet(keys) /\ Len((a \o b) \o c) = Len(keys)
    BY <1>4, <1>6, <1>7, <1>8
  <2> QED
    BY <1>2, <2>1 DEF Accounted
<1>10. Accounted(raw, a \o (b \o c))
  <2>1. ToSet(a \o (b \o c)) = ToSet(keys) /\ Len(a \o (b \o c)) = Len(keys)
    BY <1>4, <1>6, <1>7, <1>8
  <2> QED
    BY <1>2, <2>1 DEF Accounted
<1> QED
  BY <1>5, <1>9, <1>10 DEF a, b, c, Lists

\* Nothing of a profile that has everything is missing.
LEMMA NothingToStore ==
  ASSUME NEW raw \in RawRequiredFields, NEW facts, NEW profile,
         \A key \in ProfileKeys : profile[key] = "text"
  PROVE  ResolvePrefill(ToRequiredFields(raw), facts, profile).missingFromProfile = << >>
<1> DEFINE keys   == ToRequiredFields(raw).keys
           values == Available(facts, profile)
           known  == { i \in DOMAIN keys : Filled(values[keys[i]]) }
           stored == { i \in DOMAIN keys \ known : ProvenanceOf(keys[i]) = "passenger_profile" }
<1>1. ResolvePrefill(ToRequiredFields(raw), facts, profile).missingFromProfile = Picked(keys, stored)
  BY DEF ResolvePrefill
<1>2. keys \in Seq(AllKeys)
  BY FieldsAccounted
<1>3. ASSUME NEW i \in DOMAIN keys, ProvenanceOf(keys[i]) = "passenger_profile"
      PROVE  i \in known
  <2>1. keys[i] \in AllKeys
    BY <1>2
  <2> HIDE DEF keys
  <2>2. keys[i] \in ProfileKeys
    BY <1>3 DEF ProvenanceOf
  <2>3. values[keys[i]] = "text"
    BY <2>1, <2>2 DEF Available
  <2> QED
    BY <2>3 DEF Filled
<1>4. stored = {}
  BY <1>3
<1> HIDE DEF keys, stored
<1>5. Picked(keys, stored) \in Seq(AllKeys) /\ Len(Picked(keys, stored)) = Cardinality({})
  BY <1>2, <1>4, PickedHas
<1>6. Picked(keys, stored) = << >>
  BY <1>5, FS_EmptySet
<1> QED
  BY <1>1, <1>6

\* A complete profile has a text for every field of a profile.
LEMMA CompleteIsComplete ==
  \A key \in ProfileKeys : ToClaimantFacts(Complete)[key] = "text"
<1>1. \A key \in ProfileKeys :
        /\ key \in AllKeys
        /\ key \in { "claimantFullName", "claimantEmail", "claimantPhone", "claimantPostalAddress",
                     "payoutAccountHolderName", "payoutIban", "payoutBic" }
  BY DEF ProfileKeys, AllKeys
<1>2. /\ Complete.fullName = "text" /\ Complete.contactEmail = "text" /\ Complete.phone = "text"
      /\ Complete.address = "text" /\ Complete.iban = "text" /\ Complete.bic = "text"
  BY DEF Complete
<1> QED
  BY <1>1, <1>2 DEF ToClaimantFacts

\* Every form is covered, whether its letter is drafted with it or not.
LEMMA FormsCovered ==
  ASSUME NEW q \in FormQuestions
  PROVE  /\ Accounted(q.raw, Lists(Form(q)))
         /\ Form(q).complete => q.raw.known /\ ToSet(Form(q).resolved) = Wanted(q.raw)
         /\ Form([ q EXCEPT !.hasProfile = TRUE, !.profile = Complete ]).missingFromProfile = << >>
<1>1. q.raw \in RawRequiredFields
  BY DEF FormQuestions
<1>2. PICK facts, profile : Form(q) = ResolvePrefill(ToRequiredFields(q.raw), facts, profile)
  BY DEF Form, DraftPrefill
<1> DEFINE r == [ q EXCEPT !.hasProfile = TRUE, !.profile = Complete ]
<1>3. r.raw = q.raw /\ r.profile = Complete /\ r.hasProfile
  BY DEF FormQuestions
<1>4. Form(r).missingFromProfile = << >>
  <2> DEFINE claimant == ToClaimantFacts(Complete)
             named(any) == [ claimant EXCEPT !["claimantFullName"] =
                               IF @ = "absent" THEN (IF any THEN "text" ELSE "absent") ELSE @ ]
  <2>1. \A key \in ProfileKeys : claimant[key] = "text"
    BY CompleteIsComplete
  <2>2. \A any : \A key \in ProfileKeys : named(any)[key] = "text"
    <3>1. "claimantFullName" \in ProfileKeys
      BY DEF ProfileKeys
    <3>2. \A key \in ProfileKeys : key \in DOMAIN claimant
      BY DEF ToClaimantFacts, AllKeys
    <3> HIDE DEF claimant
    <3> QED
      BY <2>1, <3>1, <3>2
  <2>3. Form(r) = IF r.drafting
                    THEN ResolvePrefill(ToRequiredFields(q.raw), ToKnownClaimFacts(r.anyName), named(r.anyName))
                    ELSE ResolvePrefill(ToRequiredFields(q.raw), ToKnownClaimFacts(r.anyName), claimant)
    BY <1>3 DEF Form, DraftPrefill
  <2> HIDE DEF r, claimant, named
  <2> QED
    BY <1>1, <2>1, <2>2, <2>3, NothingToStore
<1> HIDE DEF r
<1>5. /\ Accounted(q.raw, Lists(Form(q)))
      /\ Form(q).complete => q.raw.known /\ ToSet(Form(q).resolved) = Wanted(q.raw)
  BY <1>1, <1>2, PrefillAccounts
<1> QED
  BY <1>4, <1>5 DEF r

\* The form to print has what the prefill has.
LEMMA PacksCovered ==
  ASSUME NEW claim, NEW chatFails, NEW mailFails, claim.raw \in RawRequiredFields,
         NEW pack, pack = SendPostalPack(claim, chatFails, mailFails), pack.error = "none"
  PROVE  Accounted(claim.raw, pack.onForm \o pack.outstanding)
<1> DEFINE facts == IF claim.hasProfile THEN ToClaimantFacts(claim.profile) ELSE Nothing
           form  == ResolvePrefill(ToRequiredFields(claim.raw), ToKnownClaimFacts(claim.anyName), facts)
<1>1. PackError(claim) = "none"
  BY DEF SendPostalPack
<1>2. /\ pack.onForm = form.resolved
      /\ pack.outstanding = form.missingFromProfile \o form.missingPerClaim
  BY <1>1 DEF SendPostalPack
<1> HIDE DEF facts
<1>3. Accounted(claim.raw, form.resolved \o (form.missingFromProfile \o form.missingPerClaim))
  BY PrefillAccounts
<1> QED
  BY <1>2, <1>3

-----------------------------------------------------------------------------
(***************************************************************************)
(* Where a claim goes.                                                     *)
(***************************************************************************)
\* A channel that is usable has one address.
LEMMA ChosenIsOne ==
  ASSUME NEW channel \in RawChannelRecords, Chosen(channel) # {}
  PROVE  \E field : Chosen(channel) = { field }
<1>1. CASE channel.kind = "web_form"
  BY <1>1 DEF Chosen
<1>2. CASE channel.kind # "web_form"
  <2>1. channel.given \in SUBSET { "address" }
    BY <1>2 DEF RawChannelRecords
  <2>2. Chosen(channel) = channel.given
    BY <1>2 DEF Chosen
  <2>3. channel.given = { "address" }
    BY <2>1, <2>2
  <2> QED
    BY <2>2, <2>3
<1> QED
  BY <1>1, <1>2

OneAddress(addresses, i) == \E field : addresses = { << i, field >> }

\* What becomes of channel i of a carrier: it is confirmed exactly when a maintainer
\* has confirmed it and it has an address, and only then does it keep that one.
LEMMA ChannelIsLoaded ==
  ASSUME NEW raw \in RawCarriers, NEW i \in DOMAIN raw.channels,
         NEW loaded, loaded = ToPresentableChannel(LoadChannel(raw, i))
  PROVE  /\ loaded.kind = raw.channels[i].kind
         /\ LoadChannel(raw, i).kind = raw.channels[i].kind
         /\ LoadChannel(raw, i).mailbox = raw.channels[i].mailbox
         /\ IsConfirmed(LoadChannel(raw, i)) <=> Usable(raw.channels[i])
         /\ IsConfirmed(LoadChannel(raw, i)) =>
              /\ raw.channels[i].status # "unverified"
              /\ OneAddress(loaded.addresses, i)
         /\ ~ IsConfirmed(LoadChannel(raw, i)) => loaded.addresses = {}
<1> DEFINE channel == raw.channels[i]
           load    == LoadChannel(raw, i)
<1>1. channel \in RawChannelRecords
  BY DEF RawCarriers
<1>2. /\ load.kind = channel.kind /\ load.mailbox = channel.mailbox
      /\ load.verification = IF Usable(channel) THEN channel.status ELSE "unverified"
      /\ load.addresses = IF Usable(channel) THEN { << i, field >> : field \in Chosen(channel) } ELSE {}
  BY DEF LoadChannel
<1>3. /\ loaded.kind = load.kind
      /\ loaded.addresses = IF IsConfirmed(load) THEN load.addresses ELSE {}
  BY DEF ToPresentableChannel
<1> HIDE DEF channel, load
<1>4. IsConfirmed(load) <=> Usable(channel)
  BY <1>2 DEF IsConfirmed, Usable
<1>5. ASSUME Usable(channel)
      PROVE  channel.status # "unverified" /\ OneAddress(loaded.addresses, i)
  <2>1. Chosen(channel) # {} /\ channel.status # "unverified"
    BY <1>5 DEF Usable
  <2>2. PICK field : Chosen(channel) = { field }
    BY <1>1, <2>1, ChosenIsOne
  <2>3. loaded.addresses = { << i, field >> }
    BY <1>2, <1>3, <1>4, <1>5, <2>2
  <2> QED
    BY <2>1, <2>3 DEF OneAddress
<1> QED
  BY <1>2, <1>3, <1>4, <1>5 DEF channel, load

\* A carrier's code leads to its entry: it is given once.
LEMMA CodesAreUnique ==
  ASSUME NEW raws, ValidDirectory(raws), NEW n \in DOMAIN raws
  PROVE  RawChannels(raws, raws[n].code) = raws[n].channels
<1> DEFINE m == CHOOSE m \in DOMAIN raws : raws[m].code = raws[n].code
<1>1. m \in DOMAIN raws /\ raws[m].code = raws[n].code
  OBVIOUS
<1>2. m = n
  BY <1>1 DEF ValidDirectory
<1>3. RawChannels(raws, raws[n].code) = raws[m].channels
  BY DEF RawChannels
<1> QED
  BY <1>2, <1>3

\* The channels of a loaded carrier, as the plan and the list of airlines show them.
Shown(contact) == [ i \in DOMAIN contact.channels |-> ToPresentableChannel(contact.channels[i]) ]

\* No address of a loaded carrier was left unconfirmed.
LEMMA ShownAreVouched ==
  ASSUME NEW raws \in Seq(RawCarriers), ValidDirectory(raws), NEW n \in DOMAIN raws,
         NEW contact, contact = ToLoadedCarrier(raws[n])
  PROVE  \A a \in Addresses(Shown(contact)) : Vouched(raws, contact.code, a)
<1>1. raws[n] \in RawCarriers
  OBVIOUS
<1>2. /\ contact.code = raws[n].code
      /\ contact.channels = [ i \in DOMAIN raws[n].channels |-> LoadChannel(raws[n], i) ]
  BY DEF ToLoadedCarrier
<1>3. ASSUME NEW a \in Addresses(Shown(contact)) PROVE Vouched(raws, contact.code, a)
  <2> DEFINE channels == raws[n].channels
             shown    == [ i \in DOMAIN channels |-> ToPresentableChannel(LoadChannel(raws[n], i)) ]
  <2>0. Shown(contact) = shown
    BY <1>2 DEF Shown
  <2>1. PICK i \in DOMAIN raws[n].channels :
          a \in ToPresentableChannel(LoadChannel(raws[n], i)).addresses
    <3>1. a \in UNION { shown[i].addresses : i \in DOMAIN shown }
      BY <2>0 DEF Addresses
    <3>2. DOMAIN shown = DOMAIN channels
      OBVIOUS
    <3>3. PICK i \in DOMAIN channels : a \in shown[i].addresses
      BY <3>1, <3>2
    <3> QED
      BY <3>3
  <2> HIDE DEF channels, shown
  <2>2. IsConfirmed(LoadChannel(raws[n], i))
    BY <1>1, <2>1, ChannelIsLoaded
  <2>3. /\ raws[n].channels[i].status # "unverified"
        /\ OneAddress(ToPresentableChannel(LoadChannel(raws[n], i)).addresses, i)
    BY <1>1, <2>2, ChannelIsLoaded
  <2>4. a[1] = i
    BY <2>1, <2>3 DEF OneAddress
  <2>5. RawChannels(raws, contact.code) = raws[n].channels
    BY <1>2, CodesAreUnique
  <2> QED
    BY <2>3, <2>4, <2>5 DEF Vouched
<1> QED
  BY <1>3

\* The routes of a carrier: one for each channel that is confirmed.
Routes(contact) == { DescribeChannel(ToPresentableChannel(contact.channels[i])) : i \in Confirmed(contact) }

\* What a passenger may choose from are the confirmed channels of the carrier.
LEMMA SelectionIsConfirmed ==
  ASSUME NEW contact
  PROVE  /\ SelectChannel(contact).options = Confirmed(contact)
         /\ SelectChannel(contact).type = "none_available" <=> Confirmed(contact) = {}
<1>1. contact.channels = << >> => Confirmed(contact) = {}
  BY DEF Confirmed
<1>2. CASE contact.channels = << >>
  BY <1>1, <1>2 DEF SelectChannel, NoneAvailable
<1>3. CASE contact.channels # << >> /\ Confirmed(contact) = {}
  BY <1>3 DEF SelectChannel, NoneAvailable
<1>4. CASE contact.channels # << >> /\ Confirmed(contact) # {}
  BY <1>4 DEF SelectChannel
<1> QED
  BY <1>2, <1>3, <1>4

\* The message names one route for each confirmed channel, or none when there is none.
LEMMA MessageHasRoutes ==
  ASSUME NEW contact
  PROVE  /\ RenderMessage(contact, SelectChannel(contact)).routes = Routes(contact)
         /\ Routes(contact) = {} <=> Confirmed(contact) = {}
<1>1. Routes(contact) = {} <=> Confirmed(contact) = {}
  BY DEF Routes
<1> DEFINE selection == SelectChannel(contact)
<1>2. selection.options = Confirmed(contact) /\ (selection.type = "none_available" <=> Confirmed(contact) = {})
  BY SelectionIsConfirmed
<1> HIDE DEF selection
<1>3. CASE selection.type = "none_available"
  <2>1. RenderMessage(contact, selection).routes = {}
    BY <1>3 DEF RenderMessage
  <2> QED
    BY <1>1, <1>2, <1>3, <2>1 DEF selection
<1>4. CASE selection.type # "none_available"
  <2>1. RenderMessage(contact, selection).routes
          = { DescribeChannel(ToPresentableChannel(contact.channels[i])) : i \in selection.options }
    BY <1>4 DEF RenderMessage
  <2> QED
    BY <1>1, <1>2, <2>1 DEF selection, Routes
<1> QED
  BY <1>3, <1>4

\* Only the channels that are confirmed have an address, and one each.
LEMMA ShownAddresses ==
  ASSUME NEW raw \in RawCarriers, NEW contact, contact = ToLoadedCarrier(raw),
         NEW i \in DOMAIN contact.channels
  PROVE  /\ i \in DOMAIN raw.channels /\ i \in Nat
         /\ contact.channels[i] = LoadChannel(raw, i)
         /\ contact.channels[i].mailbox = raw.channels[i].mailbox
         /\ Shown(contact)[i].kind = contact.channels[i].kind
         /\ i \in Confirmed(contact) => OneAddress(Shown(contact)[i].addresses, i)
         /\ i \notin Confirmed(contact) => Shown(contact)[i].addresses = {}
<1>1. contact.channels = [ j \in DOMAIN raw.channels |-> LoadChannel(raw, j) ]
  BY DEF ToLoadedCarrier
<1>2. i \in DOMAIN raw.channels /\ contact.channels[i] = LoadChannel(raw, i) /\ i \in Nat
  BY <1>1 DEF RawCarriers
<1>3. Shown(contact)[i] = ToPresentableChannel(LoadChannel(raw, i))
  BY <1>2 DEF Shown
<1>4. i \in Confirmed(contact) <=> IsConfirmed(LoadChannel(raw, i))
  BY <1>2 DEF Confirmed
<1>5. ToPresentableChannel(LoadChannel(raw, i)).kind = LoadChannel(raw, i).kind
  BY DEF ToPresentableChannel
<1> QED
  BY <1>2, <1>3, <1>4, <1>5, ChannelIsLoaded

\* What the message tells are the addresses of the channels that are shown.
LEMMA ToldIsShown ==
  ASSUME NEW raw \in RawCarriers, NEW contact, contact = ToLoadedCarrier(raw)
  PROVE  /\ UNION { route.addresses : route \in Routes(contact) } = Addresses(Shown(contact))
         /\ \A route \in Routes(contact) : Cardinality(route.addresses) = 1
<1>1. DOMAIN Shown(contact) = DOMAIN contact.channels
      /\ \A i \in DOMAIN contact.channels : Shown(contact)[i] = ToPresentableChannel(contact.channels[i])
  BY DEF Shown
<1>2. Confirmed(contact) \subseteq DOMAIN contact.channels
  BY DEF Confirmed
<1>3. \A i \in Confirmed(contact) :
        DescribeChannel(ToPresentableChannel(contact.channels[i])).addresses = Shown(contact)[i].addresses
  BY <1>1, <1>2 DEF DescribeChannel
<1>4. ASSUME NEW a \in Addresses(Shown(contact))
      PROVE  a \in UNION { route.addresses : route \in Routes(contact) }
  <2>1. PICK i \in DOMAIN contact.channels : a \in Shown(contact)[i].addresses
    BY <1>1 DEF Addresses
  <2>2. i \in Confirmed(contact)
    BY <2>1, ShownAddresses
  <2>3. DescribeChannel(ToPresentableChannel(contact.channels[i])) \in Routes(contact)
    BY <2>2 DEF Routes
  <2> QED
    BY <1>3, <2>1, <2>2, <2>3
<1>5. ASSUME NEW route \in Routes(contact)
      PROVE  route.addresses \subseteq Addresses(Shown(contact)) /\ Cardinality(route.addresses) = 1
  <2>1. PICK i \in Confirmed(contact) : route = DescribeChannel(ToPresentableChannel(contact.channels[i]))
    BY DEF Routes
  <2>2. route.addresses = Shown(contact)[i].addresses /\ i \in DOMAIN contact.channels
    BY <1>2, <1>3, <2>1
  <2>3. PICK field : Shown(contact)[i].addresses = { << i, field >> }
    BY <2>2, ShownAddresses DEF OneAddress
  <2>4. route.addresses \subseteq Addresses(Shown(contact))
    BY <1>1, <2>2 DEF Addresses
  <2> QED
    BY <2>2, <2>3, <2>4, FS_Singleton
<1> QED
  BY <1>4, <1>5

\* What the system would send to itself is an ordinary mailbox it also names.
Sends(contact, channels, sent) ==
  /\ contact.policy # "restricted"
  /\ Shown(contact)[sent].kind = "email"
  /\ channels[sent].mailbox = "standard"
  /\ Shown(contact)[sent].addresses \subseteq Addresses(Shown(contact))
  /\ Shown(contact)[sent].addresses # {}

\* A channel that the program writes to by itself is one that it shows.
LEMMA SentIsShown ==
  ASSUME NEW raw \in RawCarriers, NEW contact, contact = ToLoadedCarrier(raw),
         FindAutoSendChannel(contact) # 0
  PROVE  Sends(contact, raw.channels, FindAutoSendChannel(contact))
<1> DEFINE sent == FindAutoSendChannel(contact)
<1> DEFINE able == { i \in DOMAIN contact.channels : CanAutoSendTo(contact, i) }
<1>1. /\ able # {} /\ contact.policy # "restricted"
      /\ sent = CHOOSE i \in able : \A j \in able : i <= j
  BY Zenon DEF FindAutoSendChannel
<1> HIDE DEF sent
<1>2. able \in SUBSET Nat
  <2>1. \A i \in DOMAIN contact.channels : i \in Nat
    BY ShownAddresses
  <2> QED
    BY <2>1
<1>3. sent \in able
  <2> HIDE DEF able
  <2>1. \E k \in able : \A j \in able : k <= j
    BY <1>1, <1>2, SetsHaveMin
  <2> QED
    BY <1>1, <2>1
<1>4. /\ sent \in DOMAIN contact.channels /\ sent \in Confirmed(contact)
      /\ contact.channels[sent].kind = "email" /\ contact.channels[sent].mailbox = "standard"
  BY <1>3 DEF CanAutoSendTo, Confirmed
<1>5. Shown(contact)[sent].addresses \subseteq Addresses(Shown(contact))
  BY <1>4 DEF Addresses, Shown
<1>6. /\ contact.channels[sent].mailbox = raw.channels[sent].mailbox
      /\ Shown(contact)[sent].kind = contact.channels[sent].kind
      /\ OneAddress(Shown(contact)[sent].addresses, sent)
  <2> HIDE DEF able
  <2>1. sent \in DOMAIN contact.channels /\ sent \in Confirmed(contact)
    BY <1>4
  <2> QED
    BY <2>1, ShownAddresses
<1> QED
  BY <1>1, <1>4, <1>5, <1>6 DEF sent, Sends, OneAddress

\* What a plan owes to the channels of the dataset, whichever they are.
KeepsTo(plan, channels) ==
  /\ Told(plan) = Addresses(plan.channels)
  /\ \A route \in plan.message.routes : Cardinality(route.addresses) = 1
  /\ plan.message.routes = {} <=> plan.selection.type = "none_available"
  /\ plan.autoSend # 0 =>
       /\ plan.policy # "restricted"
       /\ plan.channels[plan.autoSend].kind = "email"
       /\ channels[plan.autoSend].mailbox = "standard"
       /\ plan.channels[plan.autoSend].addresses \subseteq Told(plan)
       /\ plan.channels[plan.autoSend].addresses # {}

\* The plan of a carrier: its message and its dispatch keep to its channels.
LEMMA PlanOfCarrier ==
  ASSUME NEW raw \in RawCarriers, NEW contact, contact = ToLoadedCarrier(raw),
         NEW plan, plan = BuildSubmissionPlan([ ok |-> TRUE, value |-> contact ])
  PROVE  plan.channels = Shown(contact) /\ KeepsTo(plan, raw.channels)
<1>1. /\ plan.selection = SelectChannel(contact)
      /\ plan.channels = Shown(contact)
      /\ plan.autoSend = FindAutoSendChannel(contact)
      /\ plan.policy = contact.policy
      /\ plan.message.routes = RenderMessage(contact, SelectChannel(contact)).routes
  BY DEF BuildSubmissionPlan, Shown
<1>2. plan.message.routes = Routes(contact)
  BY <1>1, MessageHasRoutes
<1>3. Told(plan) = Addresses(plan.channels)
  BY <1>1, <1>2, ToldIsShown DEF Told
<1>4. \A route \in plan.message.routes : Cardinality(route.addresses) = 1
  BY <1>2, ToldIsShown
<1>5. plan.message.routes = {} <=> plan.selection.type = "none_available"
  BY <1>1, <1>2, MessageHasRoutes, SelectionIsConfirmed
<1>6. ASSUME plan.autoSend # 0
      PROVE  Sends(contact, raw.channels, plan.autoSend)
  BY <1>1, <1>6, SentIsShown
<1> QED
  BY <1>1, <1>3, <1>4, <1>5, <1>6 DEF KeepsTo, Sends

\* A carrier that is not in the directory has nothing to file with.
LEMMA NoPlan ==
  ASSUME NEW lookup, ~ lookup.ok, NEW plan, plan = BuildSubmissionPlan(lookup)
  PROVE  /\ plan.selection.type = "none_available" /\ plan.channels = << >>
         /\ plan.autoSend = 0 /\ plan.message.routes = {}
<1>1. plan = [ selection |-> NoneAvailable("carrier_not_in_directory"), channels |-> << >>,
               autoSend |-> 0, policy |-> "null",
               message |-> [ says |-> "carrier_not_in_directory", routes |-> {}, note |-> "none" ] ]
  BY Zenon DEF BuildSubmissionPlan
<1>2. plan.selection = NoneAvailable("carrier_not_in_directory")
  BY <1>1
<1>3. plan.channels = << >> /\ plan.autoSend = 0
  BY <1>1
<1>4. plan.message.routes = {}
  BY <1>1
<1> QED
  BY <1>2, <1>3, <1>4 DEF NoneAvailable

\* A plan keeps to any directory that is loaded.
LEMMA PlansKeep ==
  ASSUME NEW raws \in Seq(RawCarriers), NEW code, ValidDirectory(raws),
         NEW carriers, carriers = { ToLoadedCarrier(raws[n]) : n \in DOMAIN raws },
         NEW plan, plan = BuildSubmissionPlan(GetAirline(carriers, code))
  PROVE  /\ \A a \in Addresses(plan.channels) : Vouched(raws, code, a)
         /\ KeepsTo(plan, RawChannels(raws, code))
<1>1. CASE \E c \in carriers : c.code = code
  <2> DEFINE contact == CHOOSE c \in carriers : c.code = code
  <2>1. contact \in carriers /\ contact.code = code
    BY <1>1
  <2>2. GetAirline(carriers, code) = [ ok |-> TRUE, value |-> contact ]
    BY <1>1 DEF GetAirline
  <2> HIDE DEF contact
  <2>3. PICK n \in DOMAIN raws : contact = ToLoadedCarrier(raws[n])
    BY <2>1
  <2>4. contact.code = raws[n].code /\ raws[n] \in RawCarriers
    BY <2>3 DEF ToLoadedCarrier
  <2>5. RawChannels(raws, code) = raws[n].channels
    BY <2>1, <2>4, CodesAreUnique
  <2>6. \A a \in Addresses(Shown(contact)) : Vouched(raws, code, a)
    BY <2>1, <2>3, ShownAreVouched
  <2>7. plan = BuildSubmissionPlan([ ok |-> TRUE, value |-> contact ])
    BY <2>2
  <2>8. plan.channels = Shown(contact) /\ KeepsTo(plan, raws[n].channels)
    BY <2>3, <2>4, <2>7, PlanOfCarrier
  <2> QED
    BY <2>5, <2>6, <2>8
<1>2. CASE ~ \E c \in carriers : c.code = code
  <2> DEFINE lookup == GetAirline(carriers, code)
  <2>1. ~ lookup.ok
    BY <1>2 DEF GetAirline
  <2> HIDE DEF lookup
  <2>3. /\ plan.selection.type = "none_available" /\ plan.channels = << >>
        /\ plan.autoSend = 0 /\ plan.message.routes = {}
    BY <2>1, NoPlan DEF lookup
  <2>5. Told(plan) = {} /\ Addresses(plan.channels) = {}
    BY <2>3 DEF Told, Addresses
  <2> QED
    BY <2>3, <2>5 DEF KeepsTo
<1> QED
  BY <1>1, <1>2

-----------------------------------------------------------------------------
(***************************************************************************)
(* Whether a trip is owed.                                                 *)
(***************************************************************************)
\* The first cancelled segment is one, and no other is before it.
LEMMA FirstCancelled ==
  ASSUME NEW S, NEW statuses \in Seq(S), Cancelled(statuses) # 0
  PROVE  /\ Cancelled(statuses) \in DOMAIN statuses
         /\ statuses[Cancelled(statuses)].value.status = "cancelled"
<1> DEFINE all == { i \in DOMAIN statuses : statuses[i].value.status = "cancelled" }
<1>1. all # {}
  BY DEF Cancelled
<1>2. all \in SUBSET Nat
  OBVIOUS
<1>3. \E i \in all : \A j \in all : i <= j
  BY <1>1, <1>2, SetsHaveMin
<1>4. Cancelled(statuses) = CHOOSE i \in all : \A j \in all : i <= j
  BY <1>1 DEF Cancelled
<1> HIDE DEF all
<1>5. Cancelled(statuses) \in all
  BY <1>3, <1>4
<1> QED
  BY <1>5 DEF all

\* An eligible trip is one whose lookups all succeeded but perhaps the airline's.
LEMMA EligibleMeansKnown ==
  ASSUME NEW statuses, NEW airline, NEW departure, NEW arrival, NEW km,
         CheckEligibilityNode(statuses, airline, departure, arrival, km).eligible
  PROVE  /\ statuses # << >>
         /\ \A i \in DOMAIN statuses : statuses[i].ok
         /\ Disruption(statuses).ok
         /\ CheckEligibility(Trip(statuses, airline, departure, arrival))
         /\ departure.ok /\ arrival.ok
         /\ GetCompensationCents(km).ok
         /\ CheckEligibilityNode(statuses, airline, departure, arrival, km).amount
              = GetCompensationCents(km).value
BY DEF CheckEligibilityNode, Throws, Denied, Decided

\* And the other way round.
LEMMA KnownMeansEligible ==
  ASSUME NEW statuses, NEW airline, NEW departure, NEW arrival, NEW km,
         statuses # << >>,
         \A i \in DOMAIN statuses : statuses[i].ok,
         Disruption(statuses).ok,
         CheckEligibility(Trip(statuses, airline, departure, arrival)),
         departure.ok /\ arrival.ok,
         GetCompensationCents(km).ok
  PROVE  /\ CheckEligibilityNode(statuses, airline, departure, arrival, km).eligible
         /\ CheckEligibilityNode(statuses, airline, departure, arrival, km).amount
              = GetCompensationCents(km).value
BY DEF CheckEligibilityNode, Throws, Denied, Decided

StatusValues == [ status : STRING, delay : Int, notice : Int ]

\* What is known of a segment stays as it is, and what becomes known is its notice.
LEMMA KnownStatusKeeps ==
  ASSUME NEW s \in Results(StatusValues), s.ok, NEW t \in KnownStatus(s)
  PROVE  /\ t \in Results(StatusValues) /\ t.ok
         /\ t.value.status = s.value.status
         /\ t.value.delay = s.value.delay
         /\ t.value.status # "cancelled" \/ s.value.notice # NoNumber => t = s
<1>1. s.value \in StatusValues
  BY DEF Results
<1>2. CASE t = s
  BY <1>2
<1>3. CASE t # s
  <2>1. /\ s.value.status = "cancelled" /\ s.value.notice = NoNumber
        /\ \E n \in Notices : t = Ok([ s.value EXCEPT !.notice = n ])
    BY <1>3 DEF KnownStatus
  <2>2. PICK n \in Notices : t = Ok([ s.value EXCEPT !.notice = n ])
    BY <2>1
  <2>3. n \in Int
    BY DEF Notices, NoticeThreshold
  <2>4. [ s.value EXCEPT !.notice = n ] \in StatusValues
    BY <1>1, <2>3 DEF StatusValues
  <2>5. /\ [ s.value EXCEPT !.notice = n ].status = s.value.status
        /\ [ s.value EXCEPT !.notice = n ].delay = s.value.delay
    BY <1>1 DEF StatusValues
  <2> QED
    BY <2>1, <2>2, <2>4, <2>5 DEF Ok, Results
<1> QED
  BY <1>2, <1>3

\* Learning what is unknown of the segments leaves a disruption that could be judged.
LEMMA DisruptionKeeps ==
  ASSUME NEW s \in Seq(Results(StatusValues)), s # << >>,
         \A i \in DOMAIN s : s[i].ok,
         Disruption(s).ok,
         NEW t \in Seq(Results(StatusValues)), DOMAIN t = DOMAIN s,
         \A i \in DOMAIN s : t[i] \in KnownStatus(s[i])
  PROVE  Disruption(t) = Disruption(s)
<1>1. ASSUME NEW i \in DOMAIN s
      PROVE  /\ t[i].value.status = s[i].value.status
             /\ t[i].value.delay = s[i].value.delay
             /\ t[i].value.status # "cancelled" \/ s[i].value.notice # NoNumber => t[i] = s[i]
  <2>1. s[i] \in Results(StatusValues) /\ s[i].ok /\ t[i] \in KnownStatus(s[i])
    OBVIOUS
  <2> QED
    BY <2>1, KnownStatusKeeps
<1>2. { i \in DOMAIN t : t[i].value.status = "cancelled" } = { i \in DOMAIN s : s[i].value.status = "cancelled" }
  BY <1>1
<1>3. Cancelled(t) = Cancelled(s)
  <2> DEFINE A == { i \in DOMAIN t : t[i].value.status = "cancelled" }
             B == { i \in DOMAIN s : s[i].value.status = "cancelled" }
  <2>1. /\ Cancelled(t) = IF A = {} THEN 0 ELSE CHOOSE i \in A : \A j \in A : i <= j
        /\ Cancelled(s) = IF B = {} THEN 0 ELSE CHOOSE i \in B : \A j \in B : i <= j
    BY DEF Cancelled
  <2>2. A = B
    BY <1>2
  <2> HIDE DEF A, B
  <2> QED
    BY <2>1, <2>2
<1>4. CASE Cancelled(s) # 0
  <2>1. Cancelled(s) \in DOMAIN s
    BY <1>4, FirstCancelled
  <2>2. s[Cancelled(s)].value.notice # NoNumber
    BY <1>4 DEF Disruption, Err
  <2>3. t[Cancelled(s)] = s[Cancelled(s)]
    BY <1>1, <2>1, <2>2
  <2> QED
    BY <1>3, <1>4, <2>3 DEF Disruption
<1>5. CASE Cancelled(s) = 0
  <2>1. Len(t) = Len(s) /\ Len(s) \in DOMAIN s
    OBVIOUS
  <2> QED
    BY <1>1, <1>3, <1>5, <2>1 DEF Disruption
<1> QED
  BY <1>4, <1>5

\* What an eligible trip is judged by, it is judged by with everything known.
LEMMA ClarifiedStaysEligible ==
  ASSUME NEW q \in TripQuestions, Eligible(q).eligible, NEW r \in Clarified(q)
  PROVE  Eligible(r).eligible /\ Eligible(r).amount = Eligible(q).amount
<1>1. /\ q.statuses \in Seq(Results(StatusValues))
      /\ q.airline \in Results([ isEuCarrier : BOOLEAN ])
      /\ q.km \in Int
  BY DEF TripQuestions, StatusValues
<1>2. /\ q.statuses # << >> /\ \A i \in DOMAIN q.statuses : q.statuses[i].ok
      /\ Disruption(q.statuses).ok
      /\ CheckEligibility(Trip(q.statuses, q.airline, q.departure, q.arrival))
      /\ q.departure.ok /\ q.arrival.ok
      /\ GetCompensationCents(q.km).ok
      /\ Eligible(q).amount = GetCompensationCents(q.km).value
  BY EligibleMeansKnown DEF Eligible
<1>3. PICK a \in Known(q.airline, { [ isEuCarrier |-> b ] : b \in BOOLEAN }),
           d \in Known(q.departure, Countries), e \in Known(q.arrival, Countries),
           s \in ClarifiedStatuses(q.statuses) :
        r = [ statuses |-> s, airline |-> a, departure |-> d, arrival |-> e, km |-> q.km ]
  BY DEF Clarified
<1>4. /\ r.statuses = s /\ r.airline = a /\ r.departure = d /\ r.arrival = e /\ r.km = q.km
  BY <1>3
<1>5. d = q.departure /\ e = q.arrival
  BY <1>2 DEF Known
<1>6. /\ s \in Seq(Results(StatusValues)) /\ DOMAIN s = DOMAIN q.statuses
      /\ \A i \in DOMAIN s : s[i] \in KnownStatus(q.statuses[i])
  <2>1. DOMAIN q.statuses = 1..Len(q.statuses) /\ Len(q.statuses) \in Nat
    BY <1>1
  <2>2. /\ DOMAIN s = DOMAIN q.statuses /\ s = [ i \in DOMAIN s |-> s[i] ]
        /\ \A i \in DOMAIN s : s[i] \in KnownStatus(q.statuses[i])
    BY DEF ClarifiedStatuses
  <2>3. ASSUME NEW i \in DOMAIN q.statuses PROVE s[i] \in Results(StatusValues)
    <3>1. q.statuses[i] \in Results(StatusValues) /\ q.statuses[i].ok
      BY <1>1, <1>2
    <3> QED
      BY <2>2, <3>1, KnownStatusKeeps
  <2>4. s \in [ 1..Len(q.statuses) -> Results(StatusValues) ]
    BY <2>1, <2>2, <2>3
  <2>5. s \in Seq(Results(StatusValues))
    BY <2>1, <2>4
  <2> QED
    BY <2>2, <2>5
<1>7. \A i \in DOMAIN s : s[i].ok
  <2> SUFFICES ASSUME NEW i \in DOMAIN s PROVE s[i].ok
    OBVIOUS
  <2>1. q.statuses[i] \in Results(StatusValues) /\ q.statuses[i].ok
    BY <1>1, <1>2, <1>6
  <2> QED
    BY <1>6, <2>1, KnownStatusKeeps
<1>8. s # << >>
  BY <1>1, <1>2, <1>6
<1>9. Disruption(s) = Disruption(q.statuses)
  BY <1>1, <1>2, <1>6, DisruptionKeeps
<1>10. CarrierIsEu(q.airline) => CarrierIsEu(a)
  BY DEF CarrierIsEu, Known
<1>11. CheckEligibility(Trip(s, a, d, e))
  BY <1>2, <1>5, <1>9, <1>10 DEF CheckEligibility, Trip, IsRouteCovered
<1> QED
  BY <1>2, <1>4, <1>5, <1>7, <1>8, <1>9, <1>11, KnownMeansEligible DEF Eligible

-----------------------------------------------------------------------------
(***************************************************************************)
(* The theorems of the questions.                                          *)
(***************************************************************************)
\* What a question may be, and that an answer is the one the code gives to the
\* question that was asked.
InScope ==
  /\ asked.kind = "trip" => asked.q \in Trips
  /\ asked.kind = "plan" => asked.q \in Directories
  /\ asked.kind = "form" => asked.q \in Forms
  /\ asked.kind = "pack" => asked.q \in Packs

Faithful ==
  /\ answer.kind # "none" => answer.kind = asked.kind
  /\ Answered("split") => answer.value = Split(asked.q)
  /\ Answered("trip")  => answer.value = Eligible(asked.q)
  /\ Answered("cause") => answer.value = AssessExtraordinaryCircumstance(asked.q)
  /\ Answered("plan")  => answer.value = Plan(asked.q)
  /\ Answered("form")  => answer.value = Form(asked.q)
  /\ Answered("pack")  =>
       answer.value = SendPostalPack(asked.q.claim, asked.q.chatFails, asked.q.mailFails)

RulesInv == InScope /\ Faithful

\* Questions do not change, and one answer answers one kind.
LEMMA AnswersAreFaithful == Spec => []RulesInv
<1>1. Init => RulesInv
  <2> SUFFICES ASSUME Init PROVE RulesInv
    OBVIOUS
  <2>1. answer.kind = "none"
    BY DEF Init, NoAnswer
  <2>2. InScope
    BY DEF Init, Question, InScope
  <2> QED
    BY <2>1, <2>2 DEF RulesInv, Faithful, Answered
<1>2. RulesInv /\ [Next]_vars => RulesInv'
  <2> SUFFICES ASSUME RulesInv, [Next]_vars PROVE RulesInv'
    OBVIOUS
  <2>1. asked' = asked
    BY DEF Next, AnswerSplit, AnswerTrip, AnswerCause, AnswerPlan, AnswerForm, AnswerPack, Answer, vars
  <2>2. InScope'
    BY <2>1 DEF RulesInv, InScope
  <2>3. ASSUME NEW kind \in {"split", "trip", "cause", "plan", "form", "pack"}, NEW value, Answer(kind, value)
        PROVE  asked.kind = kind /\ answer' = [ kind |-> kind, value |-> value ]
    BY <2>3 DEF Answer
  <2> USE DEF Faithful, Answered
  <2>4. ASSUME AnswerSplit PROVE Faithful'
    BY <2>1, <2>3, <2>4 DEF AnswerSplit, Split
  <2>5. ASSUME AnswerTrip PROVE Faithful'
    BY <2>1, <2>3, <2>5 DEF AnswerTrip, Eligible
  <2>6. ASSUME AnswerCause PROVE Faithful'
    BY <2>1, <2>3, <2>6 DEF AnswerCause
  <2>7. ASSUME AnswerPlan PROVE Faithful'
    BY <2>1, <2>3, <2>7 DEF AnswerPlan
  <2>8. ASSUME AnswerForm PROVE Faithful'
    BY <2>1, <2>3, <2>8 DEF AnswerForm
  <2>9. ASSUME AnswerPack PROVE Faithful'
    BY <2>1, <2>3, <2>9 DEF AnswerPack
  <2>10. ASSUME UNCHANGED vars PROVE Faithful'
    BY <2>10 DEF vars, RulesInv, Split, Eligible, Plan, Form
  <2>11. Faithful'
    BY <2>4, <2>5, <2>6, <2>7, <2>8, <2>9, <2>10 DEF Next
  <2> QED
    BY <2>2, <2>11 DEF RulesInv
<1> QED
  BY <1>1, <1>2, PTL DEF Spec

\* No cent is lost or invented, for every payment (SplitIsExact).
THEOREM SplitsAreExact == Spec => []SplitExact
<1>1. RulesInv => SplitExact
  <2> SUFFICES ASSUME RulesInv, Answered("split"), answer.value.error = "none"
      PROVE Exact(asked.q.received, asked.q.rate, answer.value)
    BY DEF SplitExact
  <2>1. answer.value = SplitPayout(asked.q.received, asked.q.rate, asked.q.currency)
    BY DEF RulesInv, Faithful, Split
  <2>2. SplitError(asked.q.received, asked.q.rate, asked.q.currency) = "none"
    BY <2>1 DEF SplitPayout
  <2> QED
    BY <2>1, <2>2, SplitIsExact
<1> QED
  BY <1>1, AnswersAreFaithful, PTL

\* No lookup that failed makes a trip eligible or changes its amount, and a cause
\* nobody knows is no defence, for every trip (check-eligibility.node.ts).
THEOREM DoubtNeverDecides == Spec => []DoubtDecidesNothing
<1>1. RulesInv => DoubtDecidesNothing
  <2> SUFFICES ASSUME RulesInv PROVE DoubtDecidesNothing
    OBVIOUS
  <2>1. ASSUME Answered("trip"), answer.value.eligible
        PROVE  /\ answer.value.amount = GetCompensationCents(asked.q.km).value
               /\ \A q \in Clarified(asked.q) :
                    Eligible(q).eligible /\ Eligible(q).amount = answer.value.amount
    <3>1. answer.value = Eligible(asked.q) /\ asked.kind = "trip"
      BY <2>1 DEF RulesInv, Faithful, Answered
    <3>2. asked.q \in TripQuestions
      BY <3>1, TripsAssumption DEF RulesInv, InScope
    <3>3. Eligible(asked.q).amount = GetCompensationCents(asked.q.km).value
      BY <2>1, <3>1, EligibleMeansKnown DEF Eligible
    <3>4. \A q \in Clarified(asked.q) :
            Eligible(q).eligible /\ Eligible(q).amount = Eligible(asked.q).amount
      BY <2>1, <3>1, <3>2, ClarifiedStaysEligible
    <3> QED
      BY <3>1, <3>3, <3>4
  <2>2. ASSUME Answered("cause"), answer.value = "valid_defence"
        PROVE  asked.q \in ValidDefences
    BY <2>2 DEF RulesInv, Faithful, AssessExtraordinaryCircumstance
  <2> QED
    BY <2>1, <2>2 DEF DoubtDecidesNothing
<1> QED
  BY <1>1, AnswersAreFaithful, PTL

\* For every dataset and every carrier, no address that no maintainer confirmed is
\* shown, told or written to, and the plan and its message say the same
\* (static.adapter.ts, submission-plan.ts).
THEOREM PlansKeepToDirectory == Spec => []PlanKeepsToDirectory
<1>1. RulesInv => PlanKeepsToDirectory
  <2> SUFFICES ASSUME RulesInv, Answered("plan"), answer.value.loaded PROVE PlanKeepsToDirectory
    BY DEF PlanKeepsToDirectory
  <2> DEFINE raws == asked.q.raws
             code == asked.q.code
             plan == answer.value.plan
             carriers == { ToLoadedCarrier(raws[n]) : n \in DOMAIN raws }
  <2>1. answer.value = Plan(asked.q) /\ asked.kind = "plan"
    BY DEF RulesInv, Faithful, Answered
  <2>2. raws \in Seq(RawCarriers)
    BY <2>1, DirectoriesAssumption DEF RulesInv, InScope
  <2>3. LoadDirectory(raws).ok
    BY <2>1 DEF Plan
  <2>4. ValidDirectory(raws) /\ LoadDirectory(raws).carriers = carriers
    BY <2>3 DEF LoadDirectory
  <2>5. plan = BuildSubmissionPlan(GetAirline(carriers, code))
        /\ answer.value.views = ListSupportedAirlines(carriers)
    <3>1. answer.value = [ loaded |-> TRUE,
                           plan   |-> BuildSubmissionPlan(GetAirline(LoadDirectory(raws).carriers, code)),
                           views  |-> ListSupportedAirlines(LoadDirectory(raws).carriers) ]
      BY <2>1, <2>3, Zenon DEF Plan
    <3> QED
      BY <2>4, <3>1
  <2> HIDE DEF plan
  <2>6. (\A a \in Addresses(plan.channels) : Vouched(raws, code, a)) /\ KeepsTo(plan, RawChannels(raws, code))
    BY <2>2, <2>4, <2>5, PlansKeep
  <2>7. ASSUME NEW view \in answer.value.views, NEW a \in Addresses(view.channels)
        PROVE  Vouched(raws, view.code, a)
    <3>1. PICK n \in DOMAIN raws : view = ToOperatorAirlineView(ToLoadedCarrier(raws[n]))
      BY <2>5 DEF ListSupportedAirlines
    <3> DEFINE contact == ToLoadedCarrier(raws[n])
    <3>2. view.code = contact.code /\ view.channels = Shown(contact)
      BY <3>1 DEF ToOperatorAirlineView, Shown
    <3> HIDE DEF raws
    <3> QED
      BY <2>2, <2>4, <2>7, <3>2, ShownAreVouched
  <2> QED
    BY <2>6, <2>7 DEF PlanKeepsToDirectory, KeepsTo, plan
<1> QED
  BY <1>1, AnswersAreFaithful, PTL

\* For every form, whatever its words, and every profile, no field is dropped, asked
\* for twice or taken for complete (prefill.ts, field-vocabulary.ts).
THEOREM FormsCover == Spec => []FormCovers
<1>1. RulesInv => FormCovers
  <2> SUFFICES ASSUME RulesInv PROVE FormCovers
    OBVIOUS
  <2>1. ASSUME Answered("form")
        PROVE  /\ Accounted(asked.q.raw, Lists(answer.value))
               /\ answer.value.complete => asked.q.raw.known /\ ToSet(answer.value.resolved) = Wanted(asked.q.raw)
               /\ Form([ asked.q EXCEPT !.hasProfile = TRUE, !.profile = Complete ]).missingFromProfile = << >>
    <3>1. answer.value = Form(asked.q) /\ asked.kind = "form"
      BY <2>1 DEF RulesInv, Faithful, Answered
    <3>2. asked.q \in FormQuestions
      BY <3>1, FormsAssumption DEF RulesInv, InScope
    <3> QED
      BY <3>1, <3>2, FormsCovered
  <2>2. ASSUME Answered("pack"), answer.value.error = "none"
        PROVE  Accounted(asked.q.claim.raw, answer.value.onForm \o answer.value.outstanding)
    <3>1. answer.value = SendPostalPack(asked.q.claim, asked.q.chatFails, asked.q.mailFails) /\ asked.kind = "pack"
      BY <2>2 DEF RulesInv, Faithful, Answered
    <3>2. asked.q.claim.raw \in RawRequiredFields
      BY <3>1, PacksAssumption DEF RulesInv, InScope
    <3> QED
      BY <2>2, <3>1, <3>2, PacksCovered
  <2> QED
    BY <2>1, <2>2 DEF FormCovers
<1> QED
  BY <1>1, AnswersAreFaithful, PTL
=============================================================================
