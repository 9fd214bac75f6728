------------------------------- MODULE Facts --------------------------------
(***************************************************************************)
(* Facts about numbers, sets and sequences that the proofs of several      *)
(* components need.                                                        *)
(***************************************************************************)
EXTENDS Integers, Sequences, FiniteSets, FiniteSetsExt, SequencesExt, FiniteSetTheorems,
        WellFoundedInduction, TLAPS

\* Min of a set of naturals that is not empty is its least element.
LEMMA LeastOfNaturals ==
  ASSUME NEW S, S \subseteq Nat, S # {}
  PROVE  Min(S) \in S /\ \A y \in S : Min(S) <= y
<1> DEFINE Before == {ss \in Nat \X Nat : ss[1] < ss[2]}
<1>1. Before = OpToRel(<, Nat)
  BY Zenon DEF OpToRel
<1>2. IsWellFoundedOn(Before, Nat)
  BY Zenon, <1>1, NatLessThanWellFounded
<1>3. PICK x \in S : \A y \in S : ~(<<y, x>> \in Before)
  <2> HIDE DEF Before
  <2> QED BY <1>2, WFMin
<1>4. \A y \in S : x <= y
  <2> SUFFICES ASSUME NEW y \in S
               PROVE  x <= y
    OBVIOUS
  <2>1. ~(<<y, x>> \in Before) /\ x \in Nat /\ y \in Nat
    BY <1>3
  <2> QED BY <2>1
<1> QED BY <1>4 DEF Min

\* Max of a bounded set of naturals that is not empty is its greatest element.
LEMMA GreatestOfNaturals ==
  ASSUME NEW n \in Nat, NEW S, S \subseteq 0 .. n, S # {}
  PROVE  Max(S) \in S /\ \A y \in S : y <= Max(S)
<1> DEFINE T == {n - x : x \in S}
<1>1. T \subseteq Nat /\ T # {}
  <2>1. \A x \in S : n - x \in Nat
    OBVIOUS
  <2>2. \E x \in S : TRUE
    OBVIOUS
  <2> QED BY <2>1, <2>2
<1>2. PICK m \in T : \A y \in T : m <= y
  <2> HIDE DEF T
  <2> QED BY <1>1, LeastOfNaturals
<1>3. PICK x \in S : m = n - x
  BY <1>2
<1>4. \A y \in S : x >= y /\ y <= x
  <2> SUFFICES ASSUME NEW y \in S
               PROVE  x >= y /\ y <= x
    OBVIOUS
  <2>1. m <= n - y
    BY <1>2
  <2> QED BY <1>3, <2>1
<1>5. Max(S) \in S /\ \A y \in S : Max(S) >= y
  BY <1>4 DEF Max
<1> QED BY <1>5

\* What is left of a sequence without its first element.
LEMMA TailFacts ==
  ASSUME NEW S, NEW s \in Seq(S), s # <<>>
  PROVE  /\ Len(s) \in Nat /\ Len(s) >= 1 /\ 1 \in DOMAIN s
         /\ Head(s) = s[1] /\ Head(s) \in S
         /\ Tail(s) \in Seq(S) /\ Len(Tail(s)) = Len(s) - 1
         /\ \A i \in DOMAIN Tail(s) : i + 1 \in DOMAIN s /\ i + 1 # 1 /\ Tail(s)[i] = s[i + 1]
         /\ \A i \in DOMAIN s : i = 1 \/ (i - 1 \in DOMAIN Tail(s) /\ Tail(s)[i - 1] = s[i])
OBVIOUS

\* A sequence with one more element.
LEMMA AppendFacts ==
  ASSUME NEW S, NEW s \in Seq(S), NEW e \in S
  PROVE  /\ Append(s, e) \in Seq(S) /\ Len(s) \in Nat
         /\ Len(Append(s, e)) = Len(s) + 1
         /\ DOMAIN Append(s, e) = DOMAIN s \union {Len(s) + 1}
         /\ \A i \in DOMAIN s : i # Len(s) + 1 /\ i \in Nat /\ i < Len(s) + 1
         /\ \A i \in DOMAIN s : Append(s, e)[i] = s[i]
         /\ Append(s, e)[Len(s) + 1] = e
OBVIOUS

\* One sequence after another.
LEMMA ConcatFacts ==
  ASSUME NEW S, NEW s \in Seq(S), NEW t \in Seq(S), NEW u, u = s \o t
  PROVE  /\ u \in Seq(S) /\ Len(s) \in Nat /\ Len(t) \in Nat
         /\ DOMAIN s = 1 .. Len(s) /\ DOMAIN t = 1 .. Len(t)
         /\ Len(u) = Len(s) + Len(t) /\ DOMAIN u = 1 .. Len(s) + Len(t)
         /\ \A i \in DOMAIN s : u[i] = s[i]
         /\ \A i \in DOMAIN u : i \in DOMAIN s \/ (i - Len(s) \in DOMAIN t /\ u[i] = t[i - Len(s)])
OBVIOUS

\* A sequence has no more elements than places.
LEMMA RangeFacts ==
  ASSUME NEW S, NEW s \in Seq(S)
  PROVE  IsFiniteSet(Range(s)) /\ Cardinality(Range(s)) <= Len(s)
<1>1. PICK n \in Nat : n = Len(s) /\ DOMAIN s = 1 .. n
  OBVIOUS
<1>2. IsFiniteSet(1 .. n) /\ Cardinality(1 .. n) = n
  BY FS_Interval
<1>3. s \in Surjection(1 .. n, Range(s))
  BY <1>1 DEF Surjection, Range
<1>4. IsFiniteSet(Range(s)) /\ Cardinality(Range(s)) <= Cardinality(1 .. n)
  BY <1>2, <1>3, FS_Surjection
<1> QED BY <1>1, <1>2, <1>4

-----------------------------------------------------------------------------
(* What FlattenSeq computes.                                               *)

Glued(s, n, f) == f = [i \in 1 .. n |-> IF i = 1 THEN s[i] ELSE f[i - 1] \o s[i]]

\* The function that FlattenSeq defines by recursion exists.
LEMMA GluedExists ==
  ASSUME NEW T, NEW s \in Seq(Seq(T)), NEW n \in 0 .. Len(s)
  PROVE  \E f : Glued(s, n, f)
<1> DEFINE Bad == {m \in 0 .. Len(s) : ~\E f : Glued(s, m, f)}
<1> SUFFICES ASSUME Bad # {} PROVE FALSE
  OBVIOUS
<1>1. PICK m \in Bad : \A y \in Bad : m <= y
  <2>1. Bad \subseteq Nat
    OBVIOUS
  <2> HIDE DEF Bad
  <2> QED BY <2>1, LeastOfNaturals
<1>2. m \in 0 .. Len(s) /\ Len(s) \in Nat
  BY <1>1
<1>3. CASE m = 0
  <2>1. Glued(s, 0, [i \in 1 .. 0 |-> s[1]])
    BY DEF Glued
  <2> QED BY <1>1, <1>3, <2>1
<1>4. CASE m # 0
  <2>1. m - 1 \in 0 .. Len(s) /\ ~(m <= m - 1)
    BY <1>2, <1>4
  <2>2. PICK g : Glued(s, m - 1, g)
    BY <1>1, <2>1
  <2> DEFINE h == [i \in 1 .. m |-> IF i = m THEN (IF i = 1 THEN s[i] ELSE g[i - 1] \o s[i]) ELSE g[i]]
  <2>3. \A i \in 1 .. m - 1 : g[i] = IF i = 1 THEN s[i] ELSE g[i - 1] \o s[i]
    BY <2>2 DEF Glued
  <2>4. \A i \in 1 .. m : h[i] = IF i = 1 THEN s[i] ELSE h[i - 1] \o s[i]
    <3> SUFFICES ASSUME NEW i \in 1 .. m PROVE h[i] = IF i = 1 THEN s[i] ELSE h[i - 1] \o s[i]
      OBVIOUS
    <3>1. i # 1 => i - 1 \in 1 .. m /\ i - 1 # m
      BY <1>2
    <3>2. i # 1 => h[i - 1] = g[i - 1]
      BY <3>1
    <3>3. CASE i = m
      BY <3>2, <3>3
    <3>4. CASE i # m
      <4>1. i \in 1 .. m - 1 /\ h[i] = g[i]
        BY <1>2, <3>4
      <4> HIDE DEF h
      <4> QED BY <2>3, <3>2, <4>1
    <3> QED BY <3>3, <3>4
  <2>5. h = [i \in 1 .. m |-> h[i]]
    OBVIOUS
  <2> HIDE DEF h
  <2>6. Glued(s, m, h)
    BY <2>4, <2>5 DEF Glued
  <2> QED BY <1>1, <2>6
<1> QED BY <1>3, <1>4

\* There is only one.
LEMMA GluedOnce ==
  ASSUME NEW s, NEW n \in Nat, NEW f, NEW g, Glued(s, n, f), Glued(s, n, g)
  PROVE  f = g
<1> DEFINE Bad == {i \in 1 .. n : f[i] # g[i]}
<1>1. f = [i \in 1 .. n |-> f[i]] /\ g = [i \in 1 .. n |-> g[i]]
  BY DEF Glued
<1>2. /\ \A i \in 1 .. n : f[i] = IF i = 1 THEN s[i] ELSE f[i - 1] \o s[i]
      /\ \A i \in 1 .. n : g[i] = IF i = 1 THEN s[i] ELSE g[i - 1] \o s[i]
  BY DEF Glued
<1>3. Bad = {}
  <2> SUFFICES ASSUME Bad # {} PROVE FALSE
    OBVIOUS
  <2>1. PICK m \in Bad : \A y \in Bad : m <= y
    <3>1. Bad \subseteq Nat
      OBVIOUS
    <3> HIDE DEF Bad
    <3> QED BY <3>1, LeastOfNaturals
  <2>2. CASE m = 1
    BY <1>2, <2>1, <2>2
  <2>3. CASE m # 1
    <3>1. m - 1 \in 1 .. n /\ ~(m <= m - 1) /\ m \in 1 .. n
      BY <2>1, <2>3
    <3>2. f[m - 1] = g[m - 1]
      BY <2>1, <3>1
    <3> QED BY <1>2, <2>1, <2>3, <3>1, <3>2
  <2> QED BY <2>2, <2>3
<1> QED BY <1>1, <1>3

\* Nothing to put together.
LEMMA FlattenEmpty == FlattenSeq(<<>>) = <<>>
  BY DEF FlattenSeq

\* FlattenSeq is the last value of that function.
LEMMA FlattenIs ==
  ASSUME NEW T, NEW s \in Seq(Seq(T)), s # <<>>
  PROVE  \E f : Glued(s, Len(s), f) /\ FlattenSeq(s) = f[Len(s)]
<1>1. Len(s) \in Nat /\ Len(s) # 0 /\ Len(s) \in 0 .. Len(s)
  OBVIOUS
<1>2. PICK f : Glued(s, Len(s), f)
  BY <1>1, GluedExists
<1>3. \A g : Glued(s, Len(s), g) => g = f
  BY <1>1, <1>2, GluedOnce
<1>4. FlattenSeq(s) = f[Len(s)]
  BY <1>1, <1>2, <1>3 DEF FlattenSeq, Glued
<1> QED BY <1>2, <1>4

\* One sequence more is put at the end.
LEMMA FlattenAppend ==
  ASSUME NEW T, NEW s \in Seq(Seq(T)), NEW t \in Seq(T), FlattenSeq(s) \in Seq(T)
  PROVE  FlattenSeq(Append(s, t)) = FlattenSeq(s) \o t
<1> DEFINE u == Append(s, t)
<1>1. u \in Seq(Seq(T)) /\ u # <<>> /\ Len(u) = Len(s) + 1 /\ Len(s) \in Nat /\ u[Len(s) + 1] = t
      /\ \A i \in 1 .. Len(s) : u[i] = s[i]
  <2>1. DOMAIN s = 1 .. Len(s)
    OBVIOUS
  <2>2. Len(u) # 0
    BY AppendFacts
  <2> QED BY <2>1, <2>2, AppendFacts
<1> HIDE DEF u
<1>2. PICK f : Glued(u, Len(u), f) /\ FlattenSeq(u) = f[Len(u)]
  BY <1>1, FlattenIs
<1>3. \A i \in 1 .. Len(u) : f[i] = IF i = 1 THEN u[i] ELSE f[i - 1] \o u[i]
  BY <1>2 DEF Glued
<1>4. CASE s = <<>>
  <2>1. Len(s) = 0 /\ FlattenSeq(s) = <<>>
    BY <1>4, FlattenEmpty
  <2>2. FlattenSeq(u) = t
    BY <1>1, <1>2, <1>3, <2>1
  <2> QED BY <2>1, <2>2 DEF u
<1>5. CASE s # <<>>
  <2>1. Len(s) # 0
    BY <1>5
  <2>2. PICK g : Glued(s, Len(s), g) /\ FlattenSeq(s) = g[Len(s)]
    BY <1>5, FlattenIs
  <2> DEFINE h == [i \in 1 .. Len(s) |-> f[i]]
  <2>3. Glued(s, Len(s), h)
    <3>1. \A i \in 1 .. Len(s) : h[i] = IF i = 1 THEN s[i] ELSE h[i - 1] \o s[i]
      <4> SUFFICES ASSUME NEW i \in 1 .. Len(s) PROVE h[i] = IF i = 1 THEN s[i] ELSE h[i - 1] \o s[i]
        OBVIOUS
      <4>1. i \in 1 .. Len(u) /\ u[i] = s[i] /\ h[i] = f[i]
        BY <1>1
      <4>2. i # 1 => i - 1 \in 1 .. Len(s)
        BY <1>1
      <4>3. i # 1 => h[i - 1] = f[i - 1]
        BY <4>2
      <4> HIDE DEF h
      <4> QED BY <1>3, <4>1, <4>3
    <3>2. h = [i \in 1 .. Len(s) |-> h[i]]
      OBVIOUS
    <3> HIDE DEF h
    <3> QED BY <3>1, <3>2 DEF Glued
  <2>4. h[Len(s)] = f[Len(s)]
    BY <1>1, <2>1
  <2> HIDE DEF h
  <2>5. h = g
    BY <1>1, <2>2, <2>3, GluedOnce
  <2>6. Len(s) + 1 \in 1 .. Len(u) /\ Len(s) + 1 # 1 /\ (Len(s) + 1) - 1 = Len(s)
    BY <1>1, <2>1
  <2>7. f[Len(s) + 1] = f[Len(s)] \o t
    BY <1>1, <1>3, <2>6
  <2> QED BY <1>1, <1>2, <2>2, <2>4, <2>5, <2>7 DEF u
<1> QED BY <1>4, <1>5

\* The values of the function.
LEMMA GluedValues ==
  ASSUME NEW T, NEW s \in Seq(Seq(T)), NEW f, Glued(s, Len(s), f), NEW i \in 1 .. Len(s)
  PROVE  s[i] \in Seq(T) /\ f[i] = IF i = 1 THEN s[i] ELSE f[i - 1] \o s[i]
<1>1. s[i] \in Seq(T)
  OBVIOUS
<1>2. f[i] = IF i = 1 THEN s[i] ELSE f[i - 1] \o s[i]
  BY DEF Glued
<1> QED BY <1>1, <1>2

\* u is g followed by t.
Joined(g, t, u) ==
    /\ Len(g) \in Nat /\ Len(t) \in Nat /\ DOMAIN u = 1 .. Len(g) + Len(t)
    /\ DOMAIN g = 1 .. Len(g) /\ DOMAIN t = 1 .. Len(t)
    /\ \A i \in DOMAIN g : i \in DOMAIN u /\ u[i] = g[i]
    /\ \A i \in DOMAIN t : i + Len(g) \in DOMAIN u /\ u[i + Len(g)] = t[i]
    /\ \A i \in DOMAIN u : i \in DOMAIN g \/ (i - Len(g) \in DOMAIN t /\ u[i] = t[i - Len(g)])

LEMMA JoinFacts ==
  ASSUME NEW T, NEW g \in Seq(T), NEW t \in Seq(T)
  PROVE  g \o t \in Seq(T) /\ Joined(g, t, g \o t)
BY DEF Joined

\* The elements of u are those of the first n sequences.
Gathers(u, s, n) ==
    /\ \A x \in DOMAIN u : \E k \in 1 .. n : \E y \in DOMAIN s[k] : u[x] = s[k][y]
    /\ \A k \in 1 .. n : \A y \in DOMAIN s[k] : \E x \in DOMAIN u : u[x] = s[k][y]

\* One sequence more.
LEMMA GathersMore ==
  ASSUME NEW s, NEW m \in Nat, m >= 1, NEW g, Gathers(g, s, m - 1), NEW u, Joined(g, s[m], u)
  PROVE  Gathers(u, s, m)
<1>1. \A x \in DOMAIN u : \E k \in 1 .. m : \E y \in DOMAIN s[k] : u[x] = s[k][y]
  <2> SUFFICES ASSUME NEW x \in DOMAIN u PROVE \E k \in 1 .. m : \E y \in DOMAIN s[k] : u[x] = s[k][y]
    OBVIOUS
  <2>1. CASE x \in DOMAIN g
    <3>1. PICK k \in 1 .. m - 1 : \E y \in DOMAIN s[k] : g[x] = s[k][y]
      BY <2>1 DEF Gathers
    <3>2. k \in 1 .. m /\ u[x] = g[x]
      BY <2>1 DEF Joined
    <3> QED BY <3>1, <3>2
  <2>2. CASE x - Len(g) \in DOMAIN s[m] /\ u[x] = s[m][x - Len(g)]
    BY <2>2
  <2> QED BY <2>1, <2>2 DEF Joined
<1>2. \A k \in 1 .. m : \A y \in DOMAIN s[k] : \E x \in DOMAIN u : u[x] = s[k][y]
  <2> SUFFICES ASSUME NEW k \in 1 .. m, NEW y \in DOMAIN s[k] PROVE \E x \in DOMAIN u : u[x] = s[k][y]
    OBVIOUS
  <2>1. CASE k = m
    BY <2>1 DEF Joined
  <2>2. CASE k # m
    <3>1. k \in 1 .. m - 1
      BY <2>2
    <3>2. PICK x \in DOMAIN g : g[x] = s[k][y]
      BY <3>1 DEF Gathers
    <3> QED BY <3>2 DEF Joined
  <2> QED BY <2>1, <2>2
<1> QED BY <1>1, <1>2 DEF Gathers

\* What is true of the partial results.
LEMMA GluedFacts ==
  ASSUME NEW T, NEW s \in Seq(Seq(T)), NEW f, Glued(s, Len(s), f), NEW n \in 1 .. Len(s)
  PROVE  f[n] \in Seq(T) /\ Gathers(f[n], s, n)
<1> DEFINE Bad == {m \in 1 .. Len(s) : ~(f[m] \in Seq(T) /\ Gathers(f[m], s, m))}
<1>1. \A i \in 1 .. Len(s) : s[i] \in Seq(T) /\ f[i] = IF i = 1 THEN s[i] ELSE f[i - 1] \o s[i]
  BY GluedValues
<1> SUFFICES ASSUME Bad # {} PROVE FALSE
  OBVIOUS
<1>2. PICK m \in Bad : \A y \in Bad : m <= y
  <2>1. Bad \subseteq Nat
    OBVIOUS
  <2> HIDE DEF Bad
  <2> QED BY <2>1, LeastOfNaturals
<1>3. m \in 1 .. Len(s) /\ ~(f[m] \in Seq(T) /\ Gathers(f[m], s, m)) /\ Len(s) \in Nat
  BY <1>2
<1>4. CASE m = 1
  <2>1. f[m] = s[m] /\ s[m] \in Seq(T) /\ \A k \in 1 .. m : k = m
    BY <1>1, <1>3, <1>4
  <2>2. Gathers(f[m], s, m)
    BY <1>4, <2>1 DEF Gathers
  <2> QED BY <1>3, <2>1, <2>2
<1>5. CASE m # 1
  <2>1. m - 1 \in 1 .. Len(s) /\ ~(m <= m - 1) /\ m \in Nat /\ m >= 1
    BY <1>3, <1>5
  <2>2. f[m - 1] \in Seq(T) /\ Gathers(f[m - 1], s, m - 1)
    BY <1>2, <2>1
  <2>3. f[m] = f[m - 1] \o s[m] /\ s[m] \in Seq(T)
    BY <1>1, <1>3, <1>5
  <2>4. f[m] \in Seq(T) /\ Joined(f[m - 1], s[m], f[m])
    BY <2>2, <2>3, JoinFacts
  <2>5. Gathers(f[m], s, m)
    BY <2>1, <2>2, <2>4, GathersMore
  <2> QED BY <1>3, <2>4, <2>5
<1> QED BY <1>4, <1>5

\* The elements of the result are those of the sequences.
LEMMA FlattenFacts ==
  ASSUME NEW T, NEW s \in Seq(Seq(T))
  PROVE  FlattenSeq(s) \in Seq(T) /\ Gathers(FlattenSeq(s), s, Len(s))
<1>1. CASE s = <<>>
  <2>1. FlattenSeq(s) = <<>> /\ Len(s) = 0 /\ DOMAIN FlattenSeq(s) = {}
    BY <1>1, FlattenEmpty
  <2> QED BY <2>1 DEF Gathers
<1>2. CASE s # <<>>
  <2>1. PICK f : Glued(s, Len(s), f) /\ FlattenSeq(s) = f[Len(s)]
    BY <1>2, FlattenIs
  <2>2. Len(s) \in 1 .. Len(s)
    BY <1>2
  <2>3. f[Len(s)] \in Seq(T) /\ Gathers(f[Len(s)], s, Len(s))
    BY <2>1, <2>2, GluedFacts
  <2> QED BY <2>1, <2>3
<1> QED BY <1>1, <1>2

OrderedBy(R, u) == \A x, y \in DOMAIN u : x < y => <<u[x], u[y]>> \in R

\* Each of the sequences is ordered by R, and so are any two of them.
AllOrderedBy(R, s) ==
    /\ \A k \in DOMAIN s : OrderedBy(R, s[k])
    /\ \A k, l \in DOMAIN s : k < l =>
         \A x \in DOMAIN s[k] : \A y \in DOMAIN s[l] : <<s[k][x], s[l][y]>> \in R

LEMMA OrderedMore ==
  ASSUME NEW R, NEW s, AllOrderedBy(R, s), NEW m \in Nat, m >= 1, DOMAIN s = 1 .. Len(s), m \in DOMAIN s,
         NEW g, Gathers(g, s, m - 1), OrderedBy(R, g), NEW u, Joined(g, s[m], u)
  PROVE  OrderedBy(R, u)
<1> SUFFICES ASSUME NEW x \in DOMAIN u, NEW y \in DOMAIN u, x < y PROVE <<u[x], u[y]>> \in R
  BY DEF OrderedBy
<1>1. CASE x \in DOMAIN g /\ y \in DOMAIN g
  BY <1>1 DEF OrderedBy, Joined
<1>2. CASE x \in DOMAIN g /\ y \notin DOMAIN g
  <2>1. PICK k \in 1 .. m - 1 : \E z \in DOMAIN s[k] : g[x] = s[k][z]
    BY <1>2 DEF Gathers
  <2>2. k < m /\ k \in 1 .. m
    OBVIOUS
  <2>3. k \in DOMAIN s
    <3>1. Len(s) \in Nat \/ DOMAIN s = {}
      OBVIOUS
    <3> QED BY <2>2, <3>1
  <2>4. u[x] = g[x] /\ y - Len(g) \in DOMAIN s[m] /\ u[y] = s[m][y - Len(g)]
    BY <1>2 DEF Joined
  <2> QED BY <2>1, <2>2, <2>3, <2>4 DEF AllOrderedBy
<1>3. CASE x \notin DOMAIN g /\ y \notin DOMAIN g
  <2>1. x - Len(g) \in DOMAIN s[m] /\ y - Len(g) \in DOMAIN s[m] /\ x - Len(g) < y - Len(g)
        /\ u[x] = s[m][x - Len(g)] /\ u[y] = s[m][y - Len(g)]
    BY <1>3 DEF Joined
  <2>2. OrderedBy(R, s[m])
    BY DEF AllOrderedBy
  <2> QED BY <2>1, <2>2 DEF OrderedBy
<1>4. ~(x \notin DOMAIN g /\ y \in DOMAIN g)
  BY DEF Joined
<1> QED BY <1>1, <1>2, <1>3, <1>4

\* Then the result is.
LEMMA FlattenOrdered ==
  ASSUME NEW T, NEW s \in Seq(Seq(T)), NEW R, AllOrderedBy(R, s)
  PROVE  OrderedBy(R, FlattenSeq(s))
<1>1. CASE s = <<>>
  <2>1. FlattenSeq(s) = <<>> /\ DOMAIN FlattenSeq(s) = {}
    BY <1>1, FlattenEmpty
  <2> QED BY <2>1 DEF OrderedBy
<1>2. CASE s # <<>>
  <2>1. PICK f : Glued(s, Len(s), f) /\ FlattenSeq(s) = f[Len(s)]
    BY <1>2, FlattenIs
  <2>2. Len(s) \in 1 .. Len(s) /\ DOMAIN s = 1 .. Len(s) /\ Len(s) \in Nat
    BY <1>2
  <2>3. \A i \in 1 .. Len(s) : s[i] \in Seq(T) /\ f[i] = IF i = 1 THEN s[i] ELSE f[i - 1] \o s[i]
    BY <2>1, GluedValues
  <2> DEFINE Bad == {m \in 1 .. Len(s) : ~OrderedBy(R, f[m])}
  <2>4. ASSUME Bad # {} PROVE FALSE
    <3>1. PICK m \in Bad : \A y \in Bad : m <= y
      <4>1. Bad \subseteq Nat
        OBVIOUS
      <4> HIDE DEF Bad
      <4> QED BY <2>4, <4>1, LeastOfNaturals
    <3>2. m \in 1 .. Len(s) /\ ~OrderedBy(R, f[m])
      BY <3>1
    <3>3. CASE m = 1
      <4>1. f[m] = s[m] /\ m \in DOMAIN s
        BY <2>2, <2>3, <3>2, <3>3
      <4>2. OrderedBy(R, s[m])
        BY <4>1 DEF AllOrderedBy
      <4> QED BY <3>2, <4>1, <4>2
    <3>4. CASE m # 1
      <4>1. m - 1 \in 1 .. Len(s) /\ ~(m <= m - 1) /\ m \in Nat /\ m >= 1 /\ m \in DOMAIN s
        BY <2>2, <3>2, <3>4
      <4>2. OrderedBy(R, f[m - 1])
        BY <3>1, <4>1
      <4>3. f[m - 1] \in Seq(T) /\ Gathers(f[m - 1], s, m - 1)
        BY <2>1, <4>1, GluedFacts
      <4>4. f[m] = f[m - 1] \o s[m] /\ s[m] \in Seq(T)
        BY <2>3, <3>2, <3>4
      <4>5. Joined(f[m - 1], s[m], f[m])
        BY <4>3, <4>4, JoinFacts
      <4>6. OrderedBy(R, f[m])
        BY <2>2, <4>1, <4>2, <4>3, <4>5, OrderedMore
      <4> QED BY <3>2, <4>6
    <3> QED BY <3>3, <3>4
  <2>5. OrderedBy(R, f[Len(s)])
    BY <2>2, <2>4
  <2> QED BY <2>1, <2>5
<1> QED BY <1>1, <1>2

-----------------------------------------------------------------------------
(* Sequences put together, and functions defined by recursion.             *)

\* Putting sequences together.
LEMMA ConcatAssoc ==
  ASSUME NEW T, NEW a \in Seq(T), NEW b \in Seq(T), NEW c \in Seq(T)
  PROVE  a \o b \in Seq(T) /\ b \o c \in Seq(T) /\ (a \o b) \o c = a \o (b \o c)
<1>1. a \o b \in Seq(T) /\ b \o c \in Seq(T)
  OBVIOUS
<1> DEFINE u == (a \o b) \o c
           v == a \o (b \o c)
<1>2. u \in Seq(T) /\ v \in Seq(T) /\ Len(u) = Len(v) /\ Len(u) \in Nat
  BY <1>1
<1>3. \A i \in 1 .. Len(u) : u[i] = v[i]
  <2> SUFFICES ASSUME NEW i \in 1 .. Len(u) PROVE u[i] = v[i]
    OBVIOUS
  <2>1. Len(a) \in Nat /\ Len(b) \in Nat /\ Len(c) \in Nat /\ Len(a \o b) = Len(a) + Len(b)
        /\ Len(b \o c) = Len(b) + Len(c) /\ i \in Int /\ Len(u) = Len(a) + Len(b) + Len(c)
    BY <1>1
  <2>2. CASE i <= Len(a)
    BY <1>1, <2>1, <2>2
  <2>3. CASE i > Len(a) /\ i <= Len(a) + Len(b)
    BY <1>1, <2>1, <2>3
  <2>4. CASE i > Len(a) + Len(b)
    BY <1>1, <2>1, <2>4
  <2> QED BY <2>1, <2>2, <2>3, <2>4
<1> HIDE DEF u, v
<1>4. u = v
  BY <1>2, <1>3
<1> QED BY <1>1, <1>4 DEF u, v

Associates(a, b, c) == (a \o b) \o c = a \o (b \o c)

LEMMA ConcatAssociates ==
  ASSUME NEW T, NEW a \in Seq(T), NEW b \in Seq(T), NEW c \in Seq(T)
  PROVE  Associates(a, b, c)
BY ConcatAssoc DEF Associates

\* What is passed from one place to the next, and on.
Rejoins(o, p, c, a, x, y) == (o \o p) \o c = a \o (x \o y)

LEMMA Rejoined ==
  ASSUME NEW T, NEW o \in Seq(T), NEW p \in Seq(T), NEW a \in Seq(T), NEW b \in Seq(T), NEW c \in Seq(T),
         NEW x \in Seq(T), NEW y \in Seq(T), o \o b = a \o x, p \o c = b \o y
  PROVE  Rejoins(o, p, c, a, x, y)
<1>1. Associates(o, p, c) /\ Associates(o, b, y) /\ Associates(a, x, y)
  BY ConcatAssociates
<1> QED BY <1>1 DEF Associates, Rejoins

\* Sequences with the same elements at the same places.
LEMMA SameSequence ==
  ASSUME NEW T, NEW a \in Seq(T), NEW b \in Seq(T), Len(a) = Len(b), \A k \in DOMAIN a : a[k] = b[k]
  PROVE  a = b
OBVIOUS

\* A sequence over fewer elements.
LEMMA SequenceOver ==
  ASSUME NEW S, NEW T, S \subseteq T, NEW a \in Seq(S)
  PROVE  a \in Seq(T)
<1>1. Len(a) \in Nat /\ DOMAIN a = 1 .. Len(a) /\ \A k \in 1 .. Len(a) : a[k] \in T
  OBVIOUS
<1>2. a = [k \in 1 .. Len(a) |-> a[k]]
  OBVIOUS
<1>3. a \in [1 .. Len(a) -> T]
  BY <1>1, <1>2
<1> QED BY <1>1, <1>3

LEMMA ConcatIn ==
  ASSUME NEW T, NEW a \in Seq(T), NEW b \in Seq(T)
  PROVE  a \o b \in Seq(T)
OBVIOUS

\* Nothing before, nothing after.
LEMMA ConcatEmpty ==
  ASSUME NEW T, NEW a \in Seq(T)
  PROVE  a \o <<>> = a /\ <<>> \o a = a
OBVIOUS

\* What holds at lo and is kept by every step holds up to hi.
LEMMA Inductive ==
  ASSUME NEW lo \in Int, NEW hi \in Int, NEW A, NEW f, lo <= hi,
         f[lo] \in A[lo], \A i \in lo + 1 .. hi : f[i - 1] \in A[i - 1] => f[i] \in A[i]
  PROVE  \A i \in lo .. hi : f[i] \in A[i]
<1> DEFINE Bad == {k \in 0 .. hi - lo : f[lo + k] \notin A[lo + k]}
<1>1. ASSUME Bad # {} PROVE FALSE
  <2>1. PICK k \in Bad : \A y \in Bad : k <= y
    <3>1. Bad \subseteq Nat
      OBVIOUS
    <3> HIDE DEF Bad
    <3> QED BY <1>1, <3>1, LeastOfNaturals
  <2>2. k \in 0 .. hi - lo /\ f[lo + k] \notin A[lo + k]
    BY <2>1
  <2>3. k # 0
    BY <2>2
  <2>4. k - 1 \in 0 .. hi - lo /\ ~(k <= k - 1) /\ lo + k \in lo + 1 .. hi
    BY <2>2, <2>3
  <2>5. f[lo + (k - 1)] \in A[lo + (k - 1)] /\ lo + (k - 1) = (lo + k) - 1
    BY <2>1, <2>2, <2>4
  <2> QED BY <2>2, <2>4, <2>5
<1> SUFFICES ASSUME NEW i \in lo .. hi PROVE f[i] \in A[i]
  OBVIOUS
<1>2. i - lo \in 0 .. hi - lo /\ lo + (i - lo) = i
  OBVIOUS
<1> QED BY <1>1, <1>2

\* A function defined by recursion over an interval, each value by a step from
\* the one before it.
Iterates(f, lo, hi, a, F) == f = [i \in lo .. hi |-> IF i = lo THEN a ELSE F[i][f[i - 1]]]

LEMMA IteratesUpTo ==
  ASSUME NEW lo \in Int, NEW k \in Nat, NEW hi \in Int, lo + k <= hi, NEW A, NEW a \in A,
         NEW F \in [lo + 1 .. hi -> [A -> A]]
  PROVE  \E f \in [lo .. lo + k -> A] : Iterates(f, lo, lo + k, a, F)
<1> DEFINE Bad == {m \in 0 .. hi - lo : ~\E f \in [lo .. lo + m -> A] : Iterates(f, lo, lo + m, a, F)}
<1>1. ASSUME Bad # {} PROVE FALSE
  <2>1. PICK m \in Bad : \A y \in Bad : m <= y
    <3>1. Bad \subseteq Nat
      OBVIOUS
    <3> HIDE DEF Bad
    <3> QED BY <1>1, <3>1, LeastOfNaturals
  <2>2. m \in 0 .. hi - lo /\ m \in Nat
    BY <2>1
  <2>3. ~\E f \in [lo .. lo + m -> A] : Iterates(f, lo, lo + m, a, F)
    BY <2>1
  <2>4. CASE m = 0
    <3> DEFINE f == [i \in lo .. lo + m |-> a]
    <3>1. f \in [lo .. lo + m -> A] /\ \A i \in lo .. lo + m : i = lo
      BY <2>4
    <3>2. Iterates(f, lo, lo + m, a, F)
      BY <3>1 DEF Iterates
    <3> QED BY <2>3, <3>1, <3>2
  <2>5. CASE m # 0
    <3>1. m - 1 \in 0 .. hi - lo /\ ~(m <= m - 1)
      BY <2>2, <2>5
    <3>2. PICK g \in [lo .. lo + (m - 1) -> A] : Iterates(g, lo, lo + (m - 1), a, F)
      BY <2>1, <3>1
    <3>3. PICK n : n = lo + m /\ n \in Int /\ n - 1 = lo + (m - 1) /\ n > lo /\ n \in lo + 1 .. hi
      BY <2>2, <2>5
    <3>4. g \in [lo .. n - 1 -> A] /\ g = [i \in lo .. n - 1 |-> IF i = lo THEN a ELSE F[i][g[i - 1]]]
      BY <3>2, <3>3 DEF Iterates
    <3>5. g[n - 1] \in A /\ F[n][g[n - 1]] \in A
      <4>1. n - 1 \in lo .. n - 1 /\ F[n] \in [A -> A]
        BY <3>3
      <4> QED BY <3>4, <4>1
    <3> DEFINE h == [i \in lo .. n |-> IF i = n THEN F[n][g[n - 1]] ELSE g[i]]
    <3>6. h \in [lo .. n -> A]
      <4>1. \A i \in lo .. n : i = n \/ i \in lo .. n - 1
        BY <3>3
      <4> QED BY <3>4, <3>5, <4>1
    <3>7. \A i \in lo .. n : h[i] = IF i = lo THEN a ELSE F[i][h[i - 1]]
      <4> SUFFICES ASSUME NEW i \in lo .. n PROVE h[i] = IF i = lo THEN a ELSE F[i][h[i - 1]]
        OBVIOUS
      <4>1. i # lo => i - 1 \in lo .. n /\ i - 1 # n
        BY <3>3
      <4>2. i # lo => h[i - 1] = g[i - 1]
        BY <4>1
      <4>3. CASE i = n
        BY <3>3, <4>2, <4>3
      <4>4. CASE i # n
        <5>1. i \in lo .. n - 1 /\ h[i] = g[i]
          BY <3>3, <4>4
        <5>2. g[i] = IF i = lo THEN a ELSE F[i][g[i - 1]]
          BY <3>4, <5>1
        <5> HIDE DEF h
        <5> QED BY <4>2, <5>1, <5>2
      <4> QED BY <4>3, <4>4
    <3>8. h = [i \in lo .. n |-> h[i]]
      OBVIOUS
    <3> HIDE DEF h
    <3>9. Iterates(h, lo, n, a, F)
      BY <3>7, <3>8 DEF Iterates
    <3> QED BY <2>3, <3>3, <3>6, <3>9
  <2> QED BY <2>4, <2>5
<1>2. k \in 0 .. hi - lo
  OBVIOUS
<1> QED BY <1>1, <1>2

\* Such a function exists.
LEMMA IteratesExists ==
  ASSUME NEW lo \in Int, NEW hi \in Int, lo <= hi, NEW A, NEW a \in A,
         NEW F \in [lo + 1 .. hi -> [A -> A]]
  PROVE  \E f \in [lo .. hi -> A] : Iterates(f, lo, hi, a, F)
<1>1. PICK k \in Nat : lo + k = hi
  <2>1. hi - lo \in Nat /\ lo + (hi - lo) = hi
    OBVIOUS
  <2> QED BY <2>1
<1>2. lo + k <= hi
  BY <1>1
<1>3. \E f \in [lo .. lo + k -> A] : Iterates(f, lo, lo + k, a, F)
  BY <1>2, IteratesUpTo
<1> QED BY <1>1, <1>3

FlattensApart(s, v) == FlattenSeq(s \o v) = FlattenSeq(s) \o FlattenSeq(v)

LEMMA ConcatAppend ==
  ASSUME NEW T, NEW s \in Seq(T), NEW v \in Seq(T), NEW t \in T
  PROVE  s \o v \in Seq(T) /\ Append(v, t) \in Seq(T) /\ s \o Append(v, t) = Append(s \o v, t)
<1>1. <<t>> \in Seq(T) /\ s \o v \in Seq(T) /\ Append(v, t) \in Seq(T)
  OBVIOUS
<1>2. Append(v, t) = v \o <<t>> /\ Append(s \o v, t) = (s \o v) \o <<t>>
  BY <1>1
<1> QED BY <1>1, <1>2, ConcatAssoc

LEMMA ApartMore ==
  ASSUME NEW T, NEW s \in Seq(Seq(T)), NEW v \in Seq(Seq(T)), NEW t \in Seq(T), FlattensApart(s, v)
  PROVE  FlattensApart(s, Append(v, t))
<1>1. s \o v \in Seq(Seq(T)) /\ Append(v, t) \in Seq(Seq(T)) /\ s \o Append(v, t) = Append(s \o v, t)
  BY ConcatAppend
<1>2. FlattenSeq(s) \in Seq(T) /\ FlattenSeq(v) \in Seq(T) /\ FlattenSeq(s \o v) \in Seq(T)
  BY <1>1, FlattenFacts
<1>3. FlattenSeq(Append(s \o v, t)) = FlattenSeq(s \o v) \o t
  BY <1>1, <1>2, FlattenAppend
<1>4. FlattenSeq(Append(v, t)) = FlattenSeq(v) \o t
  BY <1>2, FlattenAppend
<1>5. (FlattenSeq(s) \o FlattenSeq(v)) \o t = FlattenSeq(s) \o (FlattenSeq(v) \o t)
  <2>1. Associates(FlattenSeq(s), FlattenSeq(v), t)
    BY <1>2, ConcatAssociates
  <2> QED BY <2>1 DEF Associates
<1> QED BY Zenon, <1>1, <1>3, <1>4, <1>5 DEF FlattensApart

\* FlattenSeq of one sequence of sequences after another.
LEMMA FlattenConcat ==
  ASSUME NEW T, NEW s \in Seq(Seq(T)), NEW u \in Seq(Seq(T))
  PROVE  FlattenSeq(s \o u) = FlattenSeq(s) \o FlattenSeq(u)
<1> DEFINE f == [k \in 0 .. Len(u) |-> SubSeq(u, 1, k)]
           A == [k \in 0 .. Len(u) |-> {v \in Seq(Seq(T)) : FlattensApart(s, v)}]
<1>1. FlattenSeq(s) \in Seq(T)
  BY FlattenFacts
<1>2. Len(u) \in Nat /\ f[0] = <<>> /\ 0 \in 0 .. Len(u) /\ 0 \in Int /\ Len(u) \in Int /\ 0 <= Len(u)
  OBVIOUS
<1>3. f[0] \in A[0]
  <2>1. s \o <<>> = s /\ FlattenSeq(s) \o <<>> = FlattenSeq(s)
    BY <1>1, ConcatEmpty
  <2>2. FlattensApart(s, <<>>)
    BY <2>1, FlattenEmpty DEF FlattensApart
  <2>3. <<>> \in Seq(Seq(T))
    OBVIOUS
  <2> QED BY <1>2, <2>2, <2>3
<1>4. ASSUME NEW i \in 0 + 1 .. Len(u), f[i - 1] \in A[i - 1] PROVE f[i] \in A[i]
  <2>1. i - 1 \in 0 .. Len(u) /\ i \in 0 .. Len(u)
    BY <1>2
  <2>2. PICK v \in Seq(Seq(T)) : v = f[i - 1] /\ FlattensApart(s, v)
    BY <1>4, <2>1
  <2>3. u[i] \in Seq(T)
    BY <1>2
  <2>4. f[i] = Append(v, u[i])
    <3>1. f[i] = SubSeq(u, 1, i) /\ v = SubSeq(u, 1, i - 1)
      BY <2>1, <2>2
    <3>2. SubSeq(u, 1, i) = Append(SubSeq(u, 1, i - 1), u[i])
      BY <1>2
    <3> QED BY <3>1, <3>2
  <2>5. Append(v, u[i]) \in Seq(Seq(T))
    BY <2>2, <2>3
  <2>6. FlattensApart(s, Append(v, u[i]))
    BY Zenon, <2>2, <2>3, ApartMore
  <2> HIDE DEF f
  <2> QED BY <2>1, <2>4, <2>5, <2>6
<1>5. f[Len(u)] = u
  <2>1. SubSeq(u, 1, Len(u)) = u
    OBVIOUS
  <2> QED BY <1>2, <2>1
<1> HIDE DEF f, A
<1>6. \A i \in 0 + 1 .. Len(u) : f[i - 1] \in A[i - 1] => f[i] \in A[i]
  BY <1>4
<1>7. \A i \in 0 .. Len(u) : f[i] \in A[i]
  BY <1>2, <1>3, <1>6, Inductive
<1>8. Len(u) \in 0 .. Len(u)
  BY <1>2
<1>9. u \in A[Len(u)]
  BY Zenon, <1>5, <1>7, <1>8
<1> QED BY <1>8, <1>9 DEF A, FlattensApart

\* Nothing but empty sequences.
LEMMA FlattenBlank ==
  ASSUME NEW T, NEW s \in Seq(Seq(T)), \A k \in DOMAIN s : s[k] = <<>>
  PROVE  FlattenSeq(s) = <<>>
<1>1. FlattenSeq(s) \in Seq(T) /\ Gathers(FlattenSeq(s), s, Len(s)) /\ DOMAIN s = 1 .. Len(s)
  BY FlattenFacts
<1>2. DOMAIN FlattenSeq(s) = {}
  <2> SUFFICES ASSUME NEW x \in DOMAIN FlattenSeq(s) PROVE FALSE
    OBVIOUS
  <2>1. PICK k \in 1 .. Len(s) : \E y \in DOMAIN s[k] : TRUE
    BY <1>1 DEF Gathers
  <2> QED BY <1>1, <2>1
<1> QED BY <1>1, <1>2
=============================================================================
