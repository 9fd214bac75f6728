-------------------------- MODULE ExecGraphProofs ---------------------------
(***************************************************************************)
(* Proofs about the executable graph (module ExecGraph), for any number of *)
(* operators, any wires, any emissions and any number of calls and errors. *)
(***************************************************************************)
EXTENDS ExecGraph, Facts

(* The inductive invariant.                                                *)

Deliveries == [node : Nodes, ev : Seq(Nat), sig : BOOLEAN]

GraphTypes ==
    /\ wires \in Graphs /\ running \in BOOLEAN
    /\ stack \in Seq(Deliveries) /\ returns \in Seq(Deliveries) /\ handled \in Seq(Deliveries)
    /\ delivered \in Seq(Seq(Deliveries))
    /\ insights \in Seq(ContraHandlers)
    /\ lastMetrics \in Ingests \union {0} /\ flushes \in Seq(Ingests)
    /\ calls \in 0 .. MaxCalls /\ errors \in 0 .. MaxErrors /\ budget \in 0 .. MaxEmit

\* A path starts with the number of its call.
OfCall(e, c) == Len(e) >= 1 /\ e[1] <= c

\* p is q, or an event q stems from.
Within(p, q) == Len(p) <= Len(q) /\ \A k \in 1 .. Len(p) : p[k] = q[k]

Sorted(s) == \A i, j \in DOMAIN s : i < j => Earlier(s[i].ev, s[j].ev)

\* The stack is always in the order of the emissions, also when a failing call
\* left something on it, and nothing on it was handled, nor led to what was.
StackInv ==
    /\ \A i \in DOMAIN stack : OfCall(stack[i].ev, calls)
    /\ \A i \in DOMAIN handled : OfCall(handled[i].ev, calls)
    /\ Sorted(stack)
    /\ \A i \in DOMAIN stack : \A h \in DOMAIN handled : ~Within(stack[i].ev, handled[h].ev)
    /\ \A i, j \in DOMAIN handled : i # j => handled[i].ev # handled[j].ev

\* As long as no call fails, a call starts and ends with nothing left.
CompleteInv ==
    errors = 0 => /\ pushed = Paths(handled) \union Paths(stack)
                  /\ ~running => stack = <<>>

\* Outputs are collected last first: those still to come are earlier.
LastFirst(st, rets) ==
    /\ \A i, j \in DOMAIN rets : i < j => Earlier(rets[j].ev, rets[i].ev)
    /\ \A i \in DOMAIN st : \A r \in DOMAIN rets : Earlier(st[i].ev, rets[r].ev)

ReturnsInv ==
    errors = 0 =>
        /\ LastFirst(stack, returns)
        /\ ~running => returns = <<>>
        /\ \A c \in DOMAIN delivered : Sorted(delivered[c])

Distinct(s) == \A i, j \in DOMAIN s : i # j => s[i] # s[j]

\* What was handed over, all, or waits to be, rets, is what of hs was handled at
\* an output node.
OutputsAre(all, rets, hs) ==
    /\ Range(all) \union Range(rets) = Outputs(hs)
    /\ Range(all) \intersect Range(rets) = {}
    /\ Distinct(all) /\ Distinct(rets)

OutputsInv == OutputsAre(FlattenSeq(delivered), returns, handled)

\* last_metrics is the time of the last flush.
MetricsInv ==
    /\ flushes # <<>> => lastMetrics = flushes[Len(flushes)]
    /\ MetricsPaced

GraphInv == GraphTypes /\ StackInv /\ CompleteInv /\ ReturnsInv /\ OutputsInv /\ MetricsInv

-----------------------------------------------------------------------------
(* The lists of handlers.                                                  *)

IsAscending(s, S) ==
    s \in [1 .. Cardinality(S) -> S] /\ \A i, j \in DOMAIN s : i < j => s[i] < s[j]

\* A finite set of numbers can be listed in ascending order.
LEMMA AscendingExists ==
  ASSUME NEW S \in SUBSET Nat, IsFiniteSet(S)
  PROVE  \E s : IsAscending(s, S)
<1> DEFINE Bad == {n \in Nat : \E Q \in SUBSET Nat : /\ IsFiniteSet(Q) /\ Cardinality(Q) = n
                                                     /\ ~\E s : IsAscending(s, Q)}
<1> SUFFICES ASSUME Bad # {} PROVE FALSE
  <2>1. Cardinality(S) \in Nat
    BY FS_CardinalityType
  <2> QED BY <2>1
<1>1. PICK n \in Bad : \A y \in Bad : n <= y
  <2>1. Bad \subseteq Nat
    OBVIOUS
  <2> HIDE DEF Bad
  <2> QED BY <2>1, LeastOfNaturals
<1>2. PICK Q \in SUBSET Nat : IsFiniteSet(Q) /\ Cardinality(Q) = n /\ ~\E s : IsAscending(s, Q)
  BY <1>1
<1>3. n \in Nat
  BY <1>1
<1>4. CASE Q = {}
  <2>1. n = 0
    BY <1>2, <1>4, FS_EmptySet
  <2>2. IsAscending([i \in 1 .. 0 |-> 0], Q)
    BY <1>2, <1>4, <2>1 DEF IsAscending
  <2> QED BY <1>2, <2>2
<1>5. CASE Q # {}
  <2>1. PICK a \in Q : \A y \in Q : a <= y
    BY <1>2, <1>5, LeastOfNaturals
  <2> DEFINE P == Q \ {a}
  <2>2. IsFiniteSet(P) /\ Cardinality(P) = n - 1 /\ P \in SUBSET Nat
    BY <1>2, <2>1, FS_RemoveElement
  <2>3. n - 1 \in Nat /\ ~(n <= n - 1)
    <3>1. Cardinality(P) \in Nat
      BY <2>2, FS_CardinalityType
    <3> QED BY <1>3, <2>2, <3>1
  <2>4. PICK g : IsAscending(g, P)
    BY <1>1, <2>2, <2>3
  <2>5. /\ g \in [1 .. n - 1 -> P] /\ \A i, j \in 1 .. n - 1 : i < j => g[i] < g[j]
    BY <2>2, <2>4 DEF IsAscending
  <2>6. \A y \in P : a < y /\ y \in Q /\ y \in Nat
    BY <2>1, <1>2
  <2> HIDE DEF P
  <2> DEFINE h == [i \in 1 .. n |-> IF i = 1 THEN a ELSE g[i - 1]]
  <2>7. \A i \in 1 .. n : i = 1 \/ (i - 1 \in 1 .. n - 1 /\ g[i - 1] \in P)
    BY <1>3, <2>5
  <2>8. h \in [1 .. n -> Q]
    BY <2>1, <2>6, <2>7
  <2>9. ASSUME NEW i \in 1 .. n, NEW j \in 1 .. n, i < j PROVE h[i] < h[j]
    <3>1. j # 1 /\ j - 1 \in 1 .. n - 1 /\ h[j] = g[j - 1] /\ g[j - 1] \in P
      BY <2>7, <2>9
    <3>2. CASE i = 1
      BY <2>6, <3>1, <3>2
    <3>3. CASE i # 1
      <4>1. i - 1 \in 1 .. n - 1 /\ h[i] = g[i - 1] /\ i - 1 < j - 1
        BY <2>7, <2>9, <3>3
      <4> QED BY <2>5, <3>1, <4>1
    <3> QED BY <3>2, <3>3
  <2>10. IsAscending(h, Q)
    <3>1. DOMAIN h = 1 .. n
      OBVIOUS
    <3> HIDE DEF h
    <3> QED BY <1>2, <2>8, <2>9, <3>1 DEF IsAscending
  <2> QED BY <1>2, <2>10
<1> QED BY <1>4, <1>5

\* What the list of a set of operators is.
LEMMA AscendingFacts ==
  ASSUME NEW S \in SUBSET Ops, NEW a, a = Ascending(S)
  PROVE  /\ a \in Seq(S) /\ Len(a) \in Nat /\ DOMAIN a = 1 .. Len(a)
         /\ \A i, j \in DOMAIN a : i < j => a[i] < a[j]
         /\ \A x \in S : \E i \in DOMAIN a : a[i] = x
<1>1. S \in SUBSET Nat /\ IsFiniteSet(S)
  BY ExecGraphAssumption, FS_Subset DEF ExecGraphAssumption
<1>2. Cardinality(S) \in Nat
  BY <1>1, FS_CardinalityType
<1>3. PICK s : IsAscending(s, S)
  BY <1>1, AscendingExists
<1>4. a \in [1 .. Cardinality(S) -> S] /\ \A i, j \in DOMAIN a : i < j => a[i] < a[j]
  BY <1>3 DEF Ascending, IsAscending
<1>5. a \in Seq(S) /\ Len(a) = Cardinality(S) /\ DOMAIN a = 1 .. Cardinality(S)
  BY <1>2, <1>4
<1>6. a \in Injection(1 .. Cardinality(S), S)
  <2>1. \A i, j \in 1 .. Cardinality(S) : i # j => a[i] # a[j]
    <3> SUFFICES ASSUME NEW i \in 1 .. Cardinality(S), NEW j \in 1 .. Cardinality(S), i # j
                 PROVE  a[i] # a[j]
      OBVIOUS
    <3>1. a[i] \in Nat /\ a[j] \in Nat
      BY <1>1, <1>4
    <3>2. i < j \/ j < i
      OBVIOUS
    <3> QED BY <1>4, <1>5, <3>1, <3>2
  <2> QED BY <1>4, <2>1 DEF Injection, IsInjective
<1>7. a \in Surjection(1 .. Cardinality(S), S)
  <2>1. Cardinality(1 .. Cardinality(S)) = Cardinality(S)
    BY <1>2, FS_Interval
  <2> QED BY <1>1, <1>6, <2>1, FS_Injection
<1>8. \A x \in S : \E i \in DOMAIN a : a[i] = x
  BY <1>5, <1>7 DEF Surjection
<1> QED BY <1>2, <1>4, <1>5, <1>8

-----------------------------------------------------------------------------
(* Paths.                                                                  *)

\* A path with one more step, or two.
LEMMA StepFacts ==
  ASSUME NEW e \in Seq(Nat), NEW k \in Nat, NEW d \in Nat
  PROVE  /\ e \o <<k>> \in Seq(Nat) /\ Len(e \o <<k>>) = Len(e) + 1
         /\ \A i \in 1 .. Len(e) : (e \o <<k>>)[i] = e[i]
         /\ (e \o <<k>>)[Len(e) + 1] = k
         /\ e \o <<k, d>> \in Seq(Nat) /\ Len(e \o <<k, d>>) = Len(e) + 2
         /\ \A i \in 1 .. Len(e) : (e \o <<k, d>>)[i] = e[i]
         /\ (e \o <<k, d>>)[Len(e) + 1] = k /\ (e \o <<k, d>>)[Len(e) + 2] = d
OBVIOUS

\* p and q agree up to place k, where p comes first.
DiffersAt(p, q, k) ==
    k \in 1 .. Len(p) /\ k \in 1 .. Len(q) /\ p[k] < q[k] /\ \A m \in 1 .. k - 1 : p[m] = q[m]

LEMMA EarlierIs ==
  ASSUME NEW p \in Seq(Nat), NEW q \in Seq(Nat)
  PROVE  Earlier(p, q) <=> \E k \in Nat : DiffersAt(p, q, k)
<1>1. DOMAIN p = 1 .. Len(p) /\ DOMAIN q = 1 .. Len(q) /\ Len(p) \in Nat /\ Len(q) \in Nat
  OBVIOUS
<1>2. ASSUME NEW k \in 1 .. Len(p), k \in 1 .. Len(q)
      PROVE  SubSeq(p, 1, k - 1) = SubSeq(q, 1, k - 1) <=> \A m \in 1 .. k - 1 : p[m] = q[m]
  <2>1. SubSeq(p, 1, k - 1) = [i \in 1 .. k - 1 |-> p[i]]
    BY <1>1, <1>2
  <2>2. SubSeq(q, 1, k - 1) = [i \in 1 .. k - 1 |-> q[i]]
    BY <1>1, <1>2
  <2> QED BY <2>1, <2>2
<1>3. ASSUME Earlier(p, q) PROVE \E k \in Nat : DiffersAt(p, q, k)
  <2>1. PICK k \in 1 .. Len(p) : /\ k \in 1 .. Len(q) /\ p[k] < q[k]
                                /\ SubSeq(p, 1, k - 1) = SubSeq(q, 1, k - 1)
    BY <1>1, <1>3 DEF Earlier
  <2>2. DiffersAt(p, q, k) /\ k \in Nat
    BY <1>1, <1>2, <2>1 DEF DiffersAt
  <2> QED BY <2>2
<1>4. ASSUME NEW k \in Nat, DiffersAt(p, q, k) PROVE Earlier(p, q)
  <2>1. /\ k \in 1 .. Len(p) /\ k \in 1 .. Len(q) /\ p[k] < q[k]
        /\ SubSeq(p, 1, k - 1) = SubSeq(q, 1, k - 1)
    BY <1>2, <1>4 DEF DiffersAt
  <2> QED BY <1>1, <2>1 DEF Earlier
<1> QED BY <1>3, <1>4

\* An emission comes before another one of the same event.
LEMMA SiblingsEarlier ==
  ASSUME NEW e \in Seq(Nat), NEW k \in Nat, NEW d \in Nat, NEW l \in Nat, NEW c \in Nat,
         k < l \/ (k = l /\ d < c)
  PROVE  Earlier(e \o <<k, d>>, e \o <<l, c>>)
<1> DEFINE p == e \o <<k, d>>
           q == e \o <<l, c>>
<1>1. /\ p \in Seq(Nat) /\ Len(p) = Len(e) + 2 /\ \A i \in 1 .. Len(e) : p[i] = e[i]
      /\ p[Len(e) + 1] = k /\ p[Len(e) + 2] = d
  BY StepFacts
<1>2. /\ q \in Seq(Nat) /\ Len(q) = Len(e) + 2 /\ \A i \in 1 .. Len(e) : q[i] = e[i]
      /\ q[Len(e) + 1] = l /\ q[Len(e) + 2] = c
  BY StepFacts
<1>3. Len(e) \in Nat
  OBVIOUS
<1> SUFFICES Earlier(p, q)
  OBVIOUS
<1> HIDE DEF p, q
<1>4. CASE k < l
  <2>1. \A m \in 1 .. (Len(e) + 1) - 1 : m \in 1 .. Len(e)
    BY <1>3
  <2>2. DiffersAt(p, q, Len(e) + 1)
    BY <1>1, <1>2, <1>3, <1>4, <2>1 DEF DiffersAt
  <2>3. Len(e) + 1 \in Nat
    BY <1>3
  <2> QED BY <1>1, <1>2, <2>2, <2>3, EarlierIs
<1>5. CASE k = l /\ d < c
  <2>1. PICK n \in Nat : n = Len(e) + 2
    BY <1>3
  <2>2. \A m \in 1 .. n - 1 : p[m] = q[m]
    <3>1. \A m \in 1 .. n - 1 : m \in 1 .. Len(e) \/ m = Len(e) + 1
      BY <1>3, <2>1
    <3> QED BY <1>1, <1>2, <1>5, <3>1
  <2>3. n \in 1 .. Len(p) /\ n \in 1 .. Len(q) /\ p[n] < q[n]
    BY <1>1, <1>2, <1>3, <1>5, <2>1
  <2>4. DiffersAt(p, q, n)
    BY <2>2, <2>3 DEF DiffersAt
  <2> QED BY <1>1, <1>2, <2>1, <2>4, EarlierIs
<1> QED BY <1>4, <1>5

\* x stems from e.
Stems(e, x) == Len(e) < Len(x) /\ \A k \in 1 .. Len(e) : x[k] = e[k]

LEMMA StemsStart ==
  ASSUME NEW e \in Seq(Nat), NEW x \in Seq(Nat), Stems(e, x), 1 \in 1 .. Len(e)
  PROVE  x[1] = e[1] /\ Len(x) >= 1
<1>1. Len(e) \in Nat /\ Len(x) \in Nat
  OBVIOUS
<1> QED BY <1>1 DEF Stems

\* What stems from an event comes before what the event comes before.
LEMMA StemsBefore ==
  ASSUME NEW e \in Seq(Nat), NEW x \in Seq(Nat), NEW q \in Seq(Nat), Stems(e, x)
  PROVE  (Earlier(e, q) => Earlier(x, q)) /\ (Earlier(q, e) => Earlier(q, x))
<1>0. Len(e) \in Nat /\ Len(x) \in Nat
  OBVIOUS
<1>1. ASSUME Earlier(e, q) PROVE Earlier(x, q)
  <2>1. PICK k \in Nat : DiffersAt(e, q, k)
    BY <1>1, EarlierIs
  <2>2. DiffersAt(x, q, k)
    BY <1>0, <2>1, SMTT(60) DEF DiffersAt, Stems
  <2> QED BY <2>2, EarlierIs
<1>2. ASSUME Earlier(q, e) PROVE Earlier(q, x)
  <2>1. PICK k \in Nat : DiffersAt(q, e, k)
    BY <1>2, EarlierIs
  <2>2. DiffersAt(q, x, k)
    BY <1>0, <2>1, SMTT(60) DEF DiffersAt, Stems
  <2> QED BY <2>2, EarlierIs
<1> QED BY <1>1, <1>2

\* What stems from one event comes before what stems from a later one.
LEMMA StemsApart ==
  ASSUME NEW e \in Seq(Nat), NEW x \in Seq(Nat), Stems(e, x),
         NEW f \in Seq(Nat), NEW y \in Seq(Nat), Stems(f, y), Earlier(e, f)
  PROVE  Earlier(x, y)
<1>1. Earlier(x, f)
  BY StemsBefore
<1> QED BY <1>1, StemsBefore

\* An earlier event is not the event, nor did it lead to it.
LEMMA EarlierNotWithin ==
  ASSUME NEW p \in Seq(Nat), NEW q \in Seq(Nat), Earlier(p, q)
  PROVE  ~Within(p, q) /\ ~Within(q, p) /\ p # q
<1>1. PICK k \in Nat : DiffersAt(p, q, k)
  BY EarlierIs
<1>2. p[k] \in Nat /\ q[k] \in Nat /\ p[k] # q[k] /\ k \in 1 .. Len(p) /\ k \in 1 .. Len(q)
  BY <1>1 DEF DiffersAt
<1> QED BY <1>2 DEF Within

-----------------------------------------------------------------------------
(* What is pushed.                                                         *)

EmittedEarlier == {ds \in Deliveries \X Deliveries : Earlier(ds[1].ev, ds[2].ev)}

\* Deliveries that stem from e, in the order of the emissions.
Grown(ds, e) == ds \in Seq(Deliveries) /\ Sorted(ds) /\ \A i \in DOMAIN ds : Stems(e, ds[i].ev)

LEMMA OrderedIsSorted ==
  ASSUME NEW ds \in Seq(Deliveries)
  PROVE  OrderedBy(EmittedEarlier, ds) <=> Sorted(ds)
<1>1. \A i \in DOMAIN ds : ds[i] \in Deliveries
  OBVIOUS
<1> QED BY <1>1 DEF OrderedBy, EmittedEarlier, Sorted

LEMMA DeliveryFacts ==
  ASSUME NEW n \in Nodes, NEW e \in Seq(Nat), NEW b \in BOOLEAN
  PROVE  /\ Delivery(n, e, b) \in Deliveries
         /\ Delivery(n, e, b).node = n /\ Delivery(n, e, b).ev = e /\ Delivery(n, e, b).sig = b
BY DEF Delivery, Deliveries

LEMMA EventDelivery ==
  ASSUME NEW n \in Nodes, NEW e \in Seq(Nat)
  PROVE  \E d \in Deliveries : d = Delivery(n, e, FALSE) /\ d.ev = e
<1>1. FALSE \in BOOLEAN
  OBVIOUS
<1> QED BY <1>1, DeliveryFacts, ZenonT(60)

\* enqueue_events pushes one delivery for each emission and target.
LEMMA PushedFacts ==
  ASSUME wires \in Graphs, NEW i \in Ops, NEW e \in Seq(Nat), NEW ems \in Seq(Emissions)
  PROVE  Grown(Pushed(i, e, ems), e) /\ (ems = <<>> => Pushed(i, e, ems) = <<>>)
<1> DEFINE One(k) == [d \in DOMAIN wires[i] |-> Delivery(wires[i][d], e \o <<k, d>>, ems[k] = "signal")]
           s == [k \in DOMAIN ems |-> One(k)]
<1>1. wires[i] \in Seq(Nodes)
  BY ExecGraphAssumption DEF ExecGraphAssumption, Nodes
<1>2. PICK n \in Nat : n = Len(wires[i]) /\ DOMAIN wires[i] = 1 .. n
  BY <1>1
<1>3. \A k \in DOMAIN ems : \A d \in 1 .. n : 
         /\ One(k)[d] = Delivery(wires[i][d], e \o <<k, d>>, ems[k] = "signal")
         /\ One(k)[d] \in Deliveries /\ One(k)[d].ev = e \o <<k, d>> /\ Stems(e, e \o <<k, d>>)
  <2> SUFFICES ASSUME NEW k \in DOMAIN ems, NEW d \in 1 .. n
               PROVE  /\ One(k)[d] = Delivery(wires[i][d], e \o <<k, d>>, ems[k] = "signal")
                      /\ One(k)[d] \in Deliveries /\ One(k)[d].ev = e \o <<k, d>> /\ Stems(e, e \o <<k, d>>)
    OBVIOUS
  <2>1. k \in Nat /\ d \in Nat /\ wires[i][d] \in Nodes
    BY <1>1, <1>2
  <2>2. e \o <<k, d>> \in Seq(Nat) /\ Stems(e, e \o <<k, d>>)
    BY <2>1, StepFacts DEF Stems
  <2>3. One(k)[d] = Delivery(wires[i][d], e \o <<k, d>>, ems[k] = "signal")
    BY <1>2
  <2>4. (ems[k] = "signal") \in BOOLEAN
    OBVIOUS
  <2>5. /\ Delivery(wires[i][d], e \o <<k, d>>, ems[k] = "signal") \in Deliveries
        /\ Delivery(wires[i][d], e \o <<k, d>>, ems[k] = "signal").ev = e \o <<k, d>>
    BY <2>1, <2>2, <2>4, DeliveryFacts, Zenon
  <2> HIDE DEF One
  <2> QED BY <2>2, <2>3, <2>5, Zenon
<1>4. \A k \in DOMAIN ems : One(k) \in Seq(Deliveries) /\ DOMAIN One(k) = 1 .. n
  <2> SUFFICES ASSUME NEW k \in DOMAIN ems PROVE One(k) \in Seq(Deliveries) /\ DOMAIN One(k) = 1 .. n
    OBVIOUS
  <2>1. One(k) = [d \in 1 .. n |-> One(k)[d]]
    BY <1>2
  <2>2. \A d \in 1 .. n : One(k)[d] \in Deliveries
    BY <1>3
  <2> HIDE DEF One
  <2>3. One(k) \in [1 .. n -> Deliveries]
    BY <2>1, <2>2, SMTT(60)
  <2> QED BY <2>3, SMTT(60)
<1>5. s \in Seq(Seq(Deliveries)) /\ DOMAIN s = DOMAIN ems /\ (ems = <<>> => s = <<>>)
      /\ \A k \in DOMAIN s : k \in Nat
  <2> HIDE DEF One
  <2> QED BY <1>4
<1>6. \A k \in DOMAIN s : DOMAIN s[k] = 1 .. n /\ \A d \in 1 .. n :
         s[k][d] \in Deliveries /\ s[k][d].ev = e \o <<k, d>> /\ Stems(e, s[k][d].ev)
  <2> SUFFICES ASSUME NEW k \in DOMAIN s
               PROVE  DOMAIN s[k] = 1 .. n /\ \A d \in 1 .. n :
                        s[k][d] \in Deliveries /\ s[k][d].ev = e \o <<k, d>> /\ Stems(e, s[k][d].ev)
    OBVIOUS
  <2>1. s[k] = One(k) /\ k \in DOMAIN ems
    OBVIOUS
  <2>2. \A d \in 1 .. n : One(k)[d] \in Deliveries /\ One(k)[d].ev = e \o <<k, d>> /\ Stems(e, e \o <<k, d>>)
    BY <1>3, <2>1
  <2>3. DOMAIN One(k) = 1 .. n
    BY <1>4, <2>1
  <2> HIDE DEF One, s
  <2> QED BY <2>1, <2>2, <2>3
<1>7. Pushed(i, e, ems) = FlattenSeq(s)
  BY DEF Pushed
<1> HIDE DEF s, One
<1>8. AllOrderedBy(EmittedEarlier, s)
  <2>1. ASSUME NEW k \in DOMAIN s, NEW l \in DOMAIN s, NEW x \in DOMAIN s[k], NEW y \in DOMAIN s[l],
               k < l \/ (k = l /\ x < y)
        PROVE  <<s[k][x], s[l][y]>> \in EmittedEarlier
    <3>1. k \in Nat /\ l \in Nat /\ x \in Nat /\ y \in Nat /\ x \in 1 .. n /\ y \in 1 .. n
      BY <1>5, <1>6
    <3>2. Earlier(e \o <<k, x>>, e \o <<l, y>>)
      BY <2>1, <3>1, SiblingsEarlier
    <3>3. s[k][x].ev = e \o <<k, x>> /\ s[l][y].ev = e \o <<l, y>> /\ s[k][x] \in Deliveries /\ s[l][y] \in Deliveries
      BY <1>6, <3>1
    <3> QED BY <3>2, <3>3 DEF EmittedEarlier
  <2>2. \A k \in DOMAIN s : OrderedBy(EmittedEarlier, s[k])
    BY <2>1 DEF OrderedBy
  <2> QED BY <2>1, <2>2 DEF AllOrderedBy
<1> DEFINE flat == FlattenSeq(s)
<1>9. flat \in Seq(Deliveries) /\ Gathers(flat, s, Len(s)) /\ OrderedBy(EmittedEarlier, flat)
  BY <1>5, <1>8, FlattenFacts, FlattenOrdered
<1>10. ems = <<>> => flat = <<>>
  BY <1>5, FlattenEmpty
<1> HIDE DEF flat
<1>11. \A x \in DOMAIN flat : Stems(e, flat[x].ev)
  <2> SUFFICES ASSUME NEW x \in DOMAIN flat PROVE Stems(e, flat[x].ev)
    OBVIOUS
  <2>1. PICK k \in 1 .. Len(s) : \E y \in DOMAIN s[k] : flat[x] = s[k][y]
    BY <1>9 DEF Gathers
  <2>2. k \in DOMAIN s
    BY <1>5
  <2> QED BY <1>6, <2>1, <2>2
<1>12. Sorted(flat)
  BY <1>9, OrderedIsSorted
<1> QED BY <1>7, <1>9, <1>10, <1>11, <1>12 DEF Grown, flat

\* signalflow pushes what the handlers emit one after the other.
LEMMA SignalPushedFacts ==
  ASSUME wires \in Graphs, NEW e \in Seq(Nat), NEW n \in 0 .. Len(SignalflowList),
         NEW ems \in [DOMAIN SignalflowList -> EmissionSeqs]
  PROVE  /\ Grown(SignalPushed(e, ems, n), e)
         /\ (\A h \in DOMAIN ems : ems[h] = <<>>) => SignalPushed(e, ems, n) = <<>>
<1> DEFINE One(h) == Pushed(SignalflowList[h], e \o <<h>>, ems[h])
           s == [h \in 1 .. n |-> One(h)]
           flat == FlattenSeq(s)
<1>1. /\ SignalflowList \in Seq(SignalHandlers) /\ Len(SignalflowList) \in Nat
      /\ DOMAIN SignalflowList = 1 .. Len(SignalflowList)
  BY ExecGraphAssumption, AscendingFacts DEF SignalflowList, ExecGraphAssumption
<1>2. \A h \in 1 .. n : h \in Nat /\ h \in DOMAIN SignalflowList /\ SignalflowList[h] \in Ops /\ ems[h] \in Seq(Emissions)
  <2> SUFFICES ASSUME NEW h \in 1 .. n
               PROVE  h \in Nat /\ h \in DOMAIN SignalflowList /\ SignalflowList[h] \in Ops /\ ems[h] \in Seq(Emissions)
    OBVIOUS
  <2>1. h \in Nat /\ h \in DOMAIN SignalflowList
    BY <1>1
  <2>2. SignalHandlers \subseteq Ops /\ EmissionSeqs \subseteq Seq(Emissions)
    BY ExecGraphAssumption DEF ExecGraphAssumption
  <2>3. SignalflowList[h] \in SignalHandlers
    BY <1>1, <2>1
  <2> QED BY <2>1, <2>2, <2>3
<1>3. \A h \in 1 .. n : e \o <<h>> \in Seq(Nat) /\ Grown(One(h), e \o <<h>>) /\ (ems[h] = <<>> => One(h) = <<>>)
  <2> SUFFICES ASSUME NEW h \in 1 .. n
               PROVE e \o <<h>> \in Seq(Nat) /\ Grown(One(h), e \o <<h>>) /\ (ems[h] = <<>> => One(h) = <<>>)
    OBVIOUS
  <2>1. e \o <<h>> \in Seq(Nat)
    BY <1>2, StepFacts
  <2> QED BY <1>2, <2>1, PushedFacts
<1> HIDE DEF One
<1>4. s \in Seq(Seq(Deliveries)) /\ DOMAIN s = 1 .. n /\ Len(s) = n /\ \A h \in 1 .. n : s[h] = One(h)
  <2>1. \A h \in 1 .. n : One(h) \in Seq(Deliveries)
    BY <1>3 DEF Grown
  <2>2. n \in Nat
    BY <1>1
  <2> QED BY <2>1, <2>2
<1>5. \A h \in 1 .. n : \A x \in DOMAIN s[h] :
         s[h][x] \in Deliveries /\ s[h][x].ev \in Seq(Nat) /\ Stems(e \o <<h>>, s[h][x].ev)
  <2> HIDE DEF s
  <2> SUFFICES ASSUME NEW h \in 1 .. n, NEW x \in DOMAIN s[h]
               PROVE  s[h][x] \in Deliveries /\ s[h][x].ev \in Seq(Nat) /\ Stems(e \o <<h>>, s[h][x].ev)
    OBVIOUS
  <2>1. PICK t \in Seq(Deliveries) : t = s[h] /\ Grown(t, e \o <<h>>)
    BY <1>3, <1>4 DEF Grown
  <2>2. x \in DOMAIN t /\ t[x] \in Deliveries
    BY <2>1
  <2>3. Stems(e \o <<h>>, t[x].ev)
    BY <2>1, <2>2 DEF Grown
  <2>4. t[x].ev \in Seq(Nat)
    BY <2>2 DEF Deliveries
  <2> QED BY <2>1, <2>2, <2>3, <2>4
<1>6. SignalPushed(e, ems, n) = flat
  BY DEF SignalPushed, One
<1> HIDE DEF s
<1>7. ASSUME NEW k \in DOMAIN s, NEW l \in DOMAIN s, k < l, NEW x \in DOMAIN s[k], NEW y \in DOMAIN s[l]
      PROVE  <<s[k][x], s[l][y]>> \in EmittedEarlier
  <2>1. k \in 1 .. n /\ l \in 1 .. n
    BY <1>4
  <2> DEFINE p == e \o <<k>>
             q == e \o <<l>>
  <2>2. /\ p \in Seq(Nat) /\ Len(p) = Len(e) + 1 /\ p[Len(e) + 1] = k /\ \A i \in 1 .. Len(e) : p[i] = e[i]
    BY <2>1, StepFacts
  <2>3. /\ q \in Seq(Nat) /\ Len(q) = Len(e) + 1 /\ q[Len(e) + 1] = l /\ \A i \in 1 .. Len(e) : q[i] = e[i]
    BY <2>1, StepFacts
  <2>4. Len(e) \in Nat
    OBVIOUS
  <2>5. Stems(p, s[k][x].ev) /\ Stems(q, s[l][y].ev)
    BY <1>5, <2>1
  <2> HIDE DEF p, q
  <2>6. DiffersAt(p, q, Len(e) + 1)
    <3>1. \A m \in 1 .. (Len(e) + 1) - 1 : m \in 1 .. Len(e)
      BY <2>4
    <3> QED BY <1>7, <2>2, <2>3, <2>4, <3>1 DEF DiffersAt
  <2>7. Earlier(p, q)
    BY <2>2, <2>3, <2>4, <2>6, EarlierIs
  <2>8. Earlier(s[k][x].ev, s[l][y].ev)
    <3>1. s[k][x].ev \in Seq(Nat) /\ s[l][y].ev \in Seq(Nat)
      BY <1>5, <2>1
    <3> QED BY <2>2, <2>3, <2>5, <2>7, <3>1, StemsApart
  <2>9. s[k][x] \in Deliveries /\ s[l][y] \in Deliveries
    BY <1>5, <2>1
  <2> QED BY <2>8, <2>9 DEF EmittedEarlier
<1>8. AllOrderedBy(EmittedEarlier, s)
  <2>1. \A h \in DOMAIN s : OrderedBy(EmittedEarlier, s[h])
    BY <1>3, <1>4, OrderedIsSorted DEF Grown
  <2> QED BY <1>7, <2>1 DEF AllOrderedBy
<1>9. flat \in Seq(Deliveries) /\ Gathers(flat, s, n) /\ OrderedBy(EmittedEarlier, flat)
  BY <1>4, <1>8, FlattenFacts, FlattenOrdered
<1> HIDE DEF flat
<1>10. ASSUME NEW x \in DOMAIN flat
       PROVE  \E h \in 1 .. n : One(h) # <<>> /\ Stems(e \o <<h>>, flat[x].ev)
  <2>1. PICK h \in 1 .. n : \E y \in DOMAIN s[h] : flat[x] = s[h][y]
    BY <1>9 DEF Gathers
  <2>2. Stems(e \o <<h>>, flat[x].ev)
    BY <1>5, <2>1
  <2>3. s[h] # <<>>
    BY <2>1
  <2> QED BY <1>4, <2>2, <2>3
<1>11. \A x \in DOMAIN flat : Stems(e, flat[x].ev)
  <2> SUFFICES ASSUME NEW x \in DOMAIN flat PROVE Stems(e, flat[x].ev)
    OBVIOUS
  <2>1. PICK h \in 1 .. n : Stems(e \o <<h>>, flat[x].ev)
    BY <1>10
  <2>2. Len(e \o <<h>>) = Len(e) + 1 /\ \A i \in 1 .. Len(e) : (e \o <<h>>)[i] = e[i]
    BY StepFacts
  <2>3. Len(e) \in Nat /\ Len(flat[x].ev) \in Nat
    BY <1>9 DEF Deliveries
  <2> QED BY <2>1, <2>2, <2>3 DEF Stems
<1>12. ASSUME \A h \in DOMAIN ems : ems[h] = <<>> PROVE flat = <<>>
  <2>1. DOMAIN flat = {}
    BY <1>2, <1>3, <1>10, <1>12
  <2> QED BY <1>9, <2>1
<1>13. Sorted(flat)
  BY <1>9, OrderedIsSorted
<1> QED BY <1>6, <1>9, <1>11, <1>12, <1>13 DEF Grown

-----------------------------------------------------------------------------
(* The stack.                                                              *)

\* The deliveries below the one on top.
LEMMA PopFacts ==
  ASSUME NEW st \in Seq(Deliveries), st # <<>>
  PROVE  /\ Len(st) \in DOMAIN st /\ Last(st) = st[Len(st)] /\ Last(st) \in Deliveries /\ Last(st).ev \in Seq(Nat)
         /\ Front(st) \in Seq(Deliveries)
         /\ \A i \in DOMAIN Front(st) : i \in DOMAIN st /\ i < Len(st) /\ Front(st)[i] = st[i]
         /\ \A i \in DOMAIN st : i = Len(st) \/ (i \in DOMAIN Front(st) /\ Front(st)[i] = st[i])
<1>1. PICK n \in Nat : n = Len(st) /\ DOMAIN st = 1 .. n /\ n >= 1
  OBVIOUS
<1>2. \A i \in 1 .. n : st[i] \in Deliveries
  BY <1>1
<1>3. Front(st) = [i \in 1 .. n - 1 |-> st[i]]
  BY <1>1 DEF Front
<1>4. Front(st) \in Seq(Deliveries) /\ DOMAIN Front(st) = 1 .. n - 1
  BY <1>1, <1>2, <1>3
<1>5. Last(st) = st[n] /\ Last(st) \in Deliveries
  BY <1>1, <1>2 DEF Last
<1>6. Last(st).ev \in Seq(Nat)
  BY <1>5 DEF Deliveries
<1>7. \A i \in 1 .. n - 1 : i \in 1 .. n /\ i < n /\ Front(st)[i] = st[i]
  BY <1>1, <1>3
<1>8. \A i \in 1 .. n : i = n \/ (i \in 1 .. n - 1 /\ Front(st)[i] = st[i])
  BY <1>1, <1>3
<1> QED BY <1>1, <1>4, <1>5, <1>6, <1>7, <1>8

\* What comes on top of a sorted stack is later than what is below.
LEMMA SortedJoin ==
  ASSUME NEW s \in Seq(Deliveries), NEW t \in Seq(Deliveries), Sorted(s), Sorted(t),
         \A i \in DOMAIN s : \A j \in DOMAIN t : Earlier(s[i].ev, t[j].ev)
  PROVE  s \o t \in Seq(Deliveries) /\ Sorted(s \o t)
<1> DEFINE u == s \o t
<1>1. u \in Seq(Deliveries) /\ Joined(s, t, u)
  BY JoinFacts
<1> HIDE DEF u
<1>2. ASSUME NEW x \in DOMAIN u, NEW y \in DOMAIN u, x < y PROVE Earlier(u[x].ev, u[y].ev)
  <2>1. CASE x \in DOMAIN s /\ y \in DOMAIN s
    BY <1>1, <1>2, <2>1 DEF Joined, Sorted
  <2>2. CASE x \in DOMAIN s /\ y \notin DOMAIN s
    BY <1>1, <2>2 DEF Joined
  <2>3. CASE x \notin DOMAIN s /\ y \notin DOMAIN s
    <3>1. x - Len(s) \in DOMAIN t /\ y - Len(s) \in DOMAIN t /\ x - Len(s) < y - Len(s)
          /\ u[x] = t[x - Len(s)] /\ u[y] = t[y - Len(s)]
      BY <1>1, <1>2, <2>3 DEF Joined
    <3> QED BY <3>1 DEF Sorted
  <2>4. ~(x \notin DOMAIN s /\ y \in DOMAIN s)
    BY <1>1, <1>2 DEF Joined
  <2> QED BY <2>1, <2>2, <2>3, <2>4
<1> QED BY <1>1, <1>2 DEF Sorted, u

\* The elements of two sequences, one after the other.
LEMMA JoinedElements ==
  ASSUME NEW s \in Seq(Deliveries), NEW t \in Seq(Deliveries)
  PROVE  /\ \A i \in DOMAIN (s \o t) : \/ \E j \in DOMAIN s : (s \o t)[i] = s[j]
                                       \/ \E j \in DOMAIN t : (s \o t)[i] = t[j]
         /\ Paths(s \o t) = Paths(s) \union Paths(t)
<1> DEFINE u == s \o t
<1>1. Joined(s, t, u)
  BY JoinFacts
<1> SUFFICES /\ \A i \in DOMAIN u : (\E j \in DOMAIN s : u[i] = s[j]) \/ (\E j \in DOMAIN t : u[i] = t[j])
             /\ Paths(u) = Paths(s) \union Paths(t)
  OBVIOUS
<1> HIDE DEF u
<1>2. \A i \in DOMAIN u : (\E j \in DOMAIN s : u[i] = s[j]) \/ (\E j \in DOMAIN t : u[i] = t[j])
  BY <1>1 DEF Joined
<1>3. \A j \in DOMAIN s : \E i \in DOMAIN u : u[i] = s[j]
  BY <1>1 DEF Joined
<1>4. \A j \in DOMAIN t : \E i \in DOMAIN u : u[i] = t[j]
  BY <1>1 DEF Joined
<1> QED BY <1>2, <1>3, <1>4 DEF Paths

\* One element more.
LEMMA AppendElements ==
  ASSUME NEW s \in Seq(Deliveries), NEW d \in Deliveries
  PROVE  /\ Append(s, d) \in Seq(Deliveries) /\ Len(s) \in Nat
         /\ DOMAIN s = 1 .. Len(s) /\ DOMAIN Append(s, d) = 1 .. Len(s) + 1
         /\ Len(s) + 1 \in DOMAIN Append(s, d) /\ Append(s, d)[Len(s) + 1] = d
         /\ \A i \in DOMAIN s : i \in DOMAIN Append(s, d) /\ Append(s, d)[i] = s[i]
         /\ \A i \in DOMAIN Append(s, d) : i = Len(s) + 1 \/ i \in DOMAIN s
         /\ Paths(Append(s, d)) = Paths(s) \union {d.ev}
<1> DEFINE u == Append(s, d)
<1>1. u \in Seq(Deliveries) /\ Len(s) \in Nat /\ DOMAIN u = 1 .. Len(s) + 1
      /\ DOMAIN s = 1 .. Len(s)
      /\ u[Len(s) + 1] = d /\ \A i \in DOMAIN s : u[i] = s[i]
  OBVIOUS
<1>2. Len(s) + 1 \in DOMAIN u /\ \A i \in DOMAIN s : i \in DOMAIN u
  BY <1>1
<1>3. \A i \in DOMAIN u : i = Len(s) + 1 \/ i \in DOMAIN s
  BY <1>1
<1> HIDE DEF u
<1>4. Paths(u) = Paths(s) \union {d.ev}
  BY <1>1, <1>2, <1>3 DEF Paths
<1> QED BY <1>1, <1>2, <1>3, <1>4 DEF u

LEMMA EvFacts ==
  ASSUME NEW s \in Seq(Deliveries), NEW i \in DOMAIN s
  PROVE  s[i] \in Deliveries /\ s[i].ev \in Seq(Nat) /\ Len(s[i].ev) \in Nat
<1>1. s[i] \in Deliveries
  OBVIOUS
<1>2. s[i].ev \in Seq(Nat)
  BY <1>1 DEF Deliveries
<1> QED BY <1>1, <1>2

\* A call puts deliveries on the stack, under its own number.
LEMMA StackOfNewCall ==
  ASSUME GraphTypes, StackInv, NEW ds \in Seq(Deliveries), Sorted(ds),
         \A i \in DOMAIN ds : Len(ds[i].ev) >= 1 /\ ds[i].ev[1] = calls + 1,
         stack' = stack \o ds, handled' = handled, calls' = calls + 1
  PROVE  stack' \in Seq(Deliveries) /\ StackInv'
<1>1. stack \in Seq(Deliveries) /\ handled \in Seq(Deliveries) /\ calls \in Nat
  BY ExecGraphAssumption DEF GraphTypes, ExecGraphAssumption
<1>2. \A i \in DOMAIN stack : stack[i].ev \in Seq(Nat) /\ OfCall(stack[i].ev, calls)
  BY <1>1, EvFacts DEF StackInv
<1>3. \A i \in DOMAIN ds : ds[i].ev \in Seq(Nat)
  BY EvFacts
<1>4. \A i \in DOMAIN handled : handled[i].ev \in Seq(Nat) /\ OfCall(handled[i].ev, calls)
  BY <1>1, EvFacts DEF StackInv
<1>5. ASSUME NEW p \in Seq(Nat), OfCall(p, calls), NEW q \in Seq(Nat), Len(q) >= 1, q[1] = calls + 1
      PROVE  Earlier(p, q) /\ ~Within(q, p) /\ OfCall(p, calls + 1) /\ OfCall(q, calls + 1)
  <2>1. p[1] \in Nat /\ p[1] <= calls /\ Len(p) >= 1 /\ Len(p) \in Nat /\ Len(q) \in Nat
    BY <1>5 DEF OfCall
  <2>2. DiffersAt(p, q, 1)
    BY <1>1, <1>5, <2>1 DEF DiffersAt
  <2>3. Earlier(p, q)
    BY <2>2, EarlierIs
  <2>4. ~Within(q, p)
    BY <2>3, EarlierNotWithin
  <2>5. OfCall(p, calls + 1)
    BY <1>1, <2>1 DEF OfCall
  <2>6. OfCall(q, calls + 1)
    BY <1>1, <1>5 DEF OfCall
  <2> QED BY <2>3, <2>4, <2>5, <2>6
<1>6. \A i \in DOMAIN stack : \A j \in DOMAIN ds : Earlier(stack[i].ev, ds[j].ev)
  BY <1>2, <1>3, <1>5
<1>7. stack' \in Seq(Deliveries) /\ Sorted(stack')
  BY <1>1, <1>6, SortedJoin DEF StackInv
<1>8. \A i \in DOMAIN stack' : \/ \E j \in DOMAIN stack : stack'[i] = stack[j]
                               \/ \E j \in DOMAIN ds : stack'[i] = ds[j]
  BY <1>1, JoinedElements, ZenonT(60)
<1>9. \A i \in DOMAIN handled : OfCall(handled[i].ev, calls + 1)
  BY <1>1, <1>4 DEF OfCall
<1>10. \A i \in DOMAIN stack' : OfCall(stack'[i].ev, calls + 1)
  <2>1. \A j \in DOMAIN stack : OfCall(stack[j].ev, calls + 1)
    BY <1>1, <1>2 DEF OfCall
  <2>2. \A j \in DOMAIN ds : OfCall(ds[j].ev, calls + 1)
    BY <1>1, <1>3 DEF OfCall
  <2> QED BY <1>8, <2>1, <2>2
<1>11. \A i \in DOMAIN stack' : \A h \in DOMAIN handled : ~Within(stack'[i].ev, handled[h].ev)
  <2>1. \A j \in DOMAIN ds : \A h \in DOMAIN handled : ~Within(ds[j].ev, handled[h].ev)
    BY <1>3, <1>4, <1>5
  <2>2. \A j \in DOMAIN stack : \A h \in DOMAIN handled : ~Within(stack[j].ev, handled[h].ev)
    BY DEF StackInv
  <2> QED BY <1>8, <2>1, <2>2
<1> QED BY <1>7, <1>9, <1>10, <1>11 DEF StackInv

\* next() takes the delivery on top.
LEMMA HandledMore ==
  ASSUME GraphTypes, StackInv, stack # <<>>, NEW d, d = Last(stack), handled' = Append(handled, d), calls' = calls
  PROVE  /\ handled' \in Seq(Deliveries) /\ d \in Deliveries /\ d.ev \in Seq(Nat) /\ OfCall(d.ev, calls)
         /\ \A i \in DOMAIN handled' : OfCall(handled'[i].ev, calls)
         /\ \A i, j \in DOMAIN handled' : i # j => handled'[i].ev # handled'[j].ev
         /\ \A i \in DOMAIN handled' : handled'[i] = d \/ \E j \in DOMAIN handled : handled'[i] = handled[j]
         /\ Paths(handled') = Paths(handled) \union {d.ev}
<1>1. stack \in Seq(Deliveries) /\ handled \in Seq(Deliveries)
  BY DEF GraphTypes
<1>2. d \in Deliveries /\ d.ev \in Seq(Nat) /\ d = stack[Len(stack)] /\ Len(stack) \in DOMAIN stack
  BY <1>1, PopFacts
<1>3. OfCall(d.ev, calls) /\ \A h \in DOMAIN handled : ~Within(d.ev, handled[h].ev)
  BY <1>2 DEF StackInv
<1>4. Within(d.ev, d.ev)
  BY <1>2 DEF Within
<1>5. \A h \in DOMAIN handled : handled[h].ev # d.ev
  BY <1>3, <1>4
<1>6. /\ handled' \in Seq(Deliveries) /\ handled'[Len(handled) + 1] = d
      /\ \A i \in DOMAIN handled : handled'[i] = handled[i]
      /\ \A i \in DOMAIN handled' : i = Len(handled) + 1 \/ i \in DOMAIN handled
      /\ Paths(handled') = Paths(handled) \union {d.ev}
  BY <1>1, <1>2, AppendElements
<1>7. /\ \A i \in DOMAIN handled : OfCall(handled[i].ev, calls)
      /\ \A i, j \in DOMAIN handled : i # j => handled[i].ev # handled[j].ev
  BY DEF StackInv
<1>8. \A i \in DOMAIN handled' : OfCall(handled'[i].ev, calls)
  BY <1>3, <1>6, <1>7
<1>9. \A i, j \in DOMAIN handled' : i # j => handled'[i].ev # handled'[j].ev
  BY <1>5, <1>6, <1>7
<1> QED BY <1>2, <1>3, <1>6, <1>8, <1>9

\* It pushes what stems from it.
LEMMA StackOfNext ==
  ASSUME GraphTypes, StackInv, stack # <<>>, NEW d, d = Last(stack), handled' = Append(handled, d), calls' = calls,
         NEW ds, Grown(ds, d.ev), stack' = Front(stack) \o ds
  PROVE  stack' \in Seq(Deliveries) /\ StackInv'
<1>1. stack \in Seq(Deliveries) /\ ds \in Seq(Deliveries) /\ Sorted(ds) /\ \A i \in DOMAIN ds : Stems(d.ev, ds[i].ev)
  BY DEF GraphTypes, Grown
<1>2. /\ handled' \in Seq(Deliveries) /\ d \in Deliveries /\ d.ev \in Seq(Nat) /\ OfCall(d.ev, calls)
      /\ \A i \in DOMAIN handled' : OfCall(handled'[i].ev, calls)
      /\ \A i, j \in DOMAIN handled' : i # j => handled'[i].ev # handled'[j].ev
      /\ \A i \in DOMAIN handled' : handled'[i] = d \/ \E j \in DOMAIN handled : handled'[i] = handled[j]
  BY HandledMore
<1>3. PICK f \in Seq(Deliveries) : f = Front(stack)
  BY <1>1, PopFacts
<1>4. \A i \in DOMAIN f : i \in DOMAIN stack /\ f[i] = stack[i] /\ i < Len(stack)
  BY <1>1, <1>3, PopFacts
<1>5. Len(stack) \in DOMAIN stack /\ d = stack[Len(stack)]
  BY <1>1, PopFacts
<1>6. \A i \in DOMAIN f : /\ f[i].ev \in Seq(Nat) /\ Earlier(f[i].ev, d.ev) /\ OfCall(f[i].ev, calls)
                          /\ \A h \in DOMAIN handled : ~Within(f[i].ev, handled[h].ev)
  <2>1. \A i \in DOMAIN f : f[i].ev \in Seq(Nat)
    BY <1>3, EvFacts
  <2> QED BY <1>4, <1>5, <2>1 DEF StackInv, Sorted
<1>7. Sorted(f)
  BY <1>4 DEF StackInv, Sorted
<1>8. \A j \in DOMAIN ds : ds[j].ev \in Seq(Nat)
  BY <1>1, EvFacts
<1>9. \A i \in DOMAIN f : \A j \in DOMAIN ds : Earlier(f[i].ev, ds[j].ev)
  BY <1>1, <1>2, <1>6, <1>8, StemsBefore
<1>10. stack' \in Seq(Deliveries) /\ Sorted(stack')
  BY <1>1, <1>3, <1>7, <1>9, SortedJoin
<1>11. \A i \in DOMAIN stack' : (\E j \in DOMAIN f : stack'[i] = f[j]) \/ (\E j \in DOMAIN ds : stack'[i] = ds[j])
  <2>1. stack' = f \o ds
    BY <1>3
  <2>2. \A i \in DOMAIN (f \o ds) : \/ \E j \in DOMAIN f : (f \o ds)[i] = f[j]
                                    \/ \E j \in DOMAIN ds : (f \o ds)[i] = ds[j]
    BY <1>1, <1>3, JoinedElements, ZenonT(60)
  <2> QED BY <2>1, <2>2, ZenonT(60)
<1>12. \A j \in DOMAIN ds : OfCall(ds[j].ev, calls)
  <2> SUFFICES ASSUME NEW j \in DOMAIN ds PROVE OfCall(ds[j].ev, calls)
    OBVIOUS
  <2>1. Len(d.ev) \in Nat /\ Len(ds[j].ev) \in Nat /\ Stems(d.ev, ds[j].ev)
    BY <1>1, <1>2, <1>8
  <2>2. 1 \in 1 .. Len(d.ev) /\ d.ev[1] <= calls
    BY <1>2, <2>1 DEF OfCall
  <2>3. ds[j].ev[1] = d.ev[1] /\ Len(ds[j].ev) >= 1
    BY <1>2, <1>8, <2>1, <2>2, StemsStart, ZenonT(60)
  <2> QED BY <2>2, <2>3 DEF OfCall
<1>13. \A j \in DOMAIN ds : ~Within(ds[j].ev, d.ev) /\ \A h \in DOMAIN handled : ~Within(ds[j].ev, handled[h].ev)
  <2> SUFFICES ASSUME NEW j \in DOMAIN ds
               PROVE  ~Within(ds[j].ev, d.ev) /\ \A h \in DOMAIN handled : ~Within(ds[j].ev, handled[h].ev)
    OBVIOUS
  <2>1. Len(d.ev) \in Nat /\ Len(ds[j].ev) \in Nat /\ Stems(d.ev, ds[j].ev)
    BY <1>1, <1>2, <1>8
  <2>2. ~Within(ds[j].ev, d.ev)
    BY <2>1 DEF Within, Stems
  <2>3. ASSUME NEW h \in DOMAIN handled, Within(ds[j].ev, handled[h].ev) PROVE FALSE
    <3>1. Len(handled[h].ev) \in Nat
      BY EvFacts DEF GraphTypes
    <3>2. Within(d.ev, handled[h].ev)
      BY <2>1, <2>3, <3>1 DEF Within, Stems
    <3> QED BY <1>5, <3>2 DEF StackInv
  <2> QED BY <2>2, <2>3
<1>14. \A i \in DOMAIN f : ~Within(f[i].ev, d.ev)
  BY <1>2, <1>6, EarlierNotWithin
<1>15. \A i \in DOMAIN stack' : \A h \in DOMAIN handled' : ~Within(stack'[i].ev, handled'[h].ev)
  <2>1. \A j \in DOMAIN f : \A h \in DOMAIN handled' : ~Within(f[j].ev, handled'[h].ev)
    BY <1>2, <1>6, <1>14
  <2>2. \A j \in DOMAIN ds : \A h \in DOMAIN handled' : ~Within(ds[j].ev, handled'[h].ev)
    BY <1>2, <1>13
  <2> QED BY <1>11, <2>1, <2>2, ZenonT(60)
<1>16. \A i \in DOMAIN stack' : OfCall(stack'[i].ev, calls)
  BY <1>6, <1>11, <1>12
<1> QED BY <1>2, <1>10, <1>15, <1>16 DEF StackInv

-----------------------------------------------------------------------------
(* What leaves the graph.                                                  *)

\* Outputs are put before the ones that were collected.
LEMMA LastFirstNext ==
  ASSUME GraphTypes, StackInv, stack # <<>>, LastFirst(stack, returns), NEW d, d = Last(stack),
         NEW ds, Grown(ds, d.ev)
  PROVE  /\ LastFirst(Front(stack) \o ds, returns)
         /\ LastFirst(Front(stack), Append(returns, d))
<1>1. stack \in Seq(Deliveries) /\ returns \in Seq(Deliveries) /\ ds \in Seq(Deliveries)
  BY DEF GraphTypes, Grown
<1>2. PICK f \in Seq(Deliveries) : f = Front(stack)
  BY <1>1, PopFacts
<1>3. /\ \A i \in DOMAIN f : i \in DOMAIN stack /\ f[i] = stack[i] /\ i < Len(stack)
      /\ Len(stack) \in DOMAIN stack /\ d = stack[Len(stack)] /\ d \in Deliveries /\ d.ev \in Seq(Nat)
  BY <1>1, <1>2, PopFacts
<1>4. \A r \in DOMAIN returns : Earlier(d.ev, returns[r].ev) /\ returns[r].ev \in Seq(Nat)
  BY <1>1, <1>3, EvFacts DEF LastFirst
<1>5. \A j \in DOMAIN ds : \A r \in DOMAIN returns : Earlier(ds[j].ev, returns[r].ev)
  <2>1. \A j \in DOMAIN ds : ds[j].ev \in Seq(Nat) /\ Stems(d.ev, ds[j].ev)
    BY <1>1, EvFacts DEF Grown
  <2> QED BY <1>3, <1>4, <2>1, StemsBefore
<1>6. \A i \in DOMAIN f : \A r \in DOMAIN returns : Earlier(f[i].ev, returns[r].ev)
  BY <1>3 DEF LastFirst
<1>7. LastFirst(f \o ds, returns)
  <2>1. PICK u : u = f \o ds
    OBVIOUS
  <2>2. \A i \in DOMAIN u : (\E j \in DOMAIN f : u[i] = f[j]) \/ (\E j \in DOMAIN ds : u[i] = ds[j])
    BY <1>1, <1>2, <2>1, JoinedElements, ZenonT(60)
  <2>3. LastFirst(u, returns)
    BY <1>5, <1>6, <2>2 DEF LastFirst
  <2> QED BY <2>1, <2>3
<1>8. LastFirst(f, Append(returns, d))
  <2>1. PICK u : u = Append(returns, d)
    OBVIOUS
  <2>2. /\ Len(returns) \in Nat /\ DOMAIN returns = 1 .. Len(returns) /\ DOMAIN u = 1 .. Len(returns) + 1
        /\ u[Len(returns) + 1] = d /\ \A i \in DOMAIN returns : u[i] = returns[i]
        /\ \A i \in DOMAIN u : i = Len(returns) + 1 \/ i \in DOMAIN returns
    BY <1>1, <1>3, <2>1, AppendElements
  <2>3. ASSUME NEW i \in DOMAIN u, NEW j \in DOMAIN u, i < j PROVE Earlier(u[j].ev, u[i].ev)
    <3>1. i \in DOMAIN returns
      BY <2>2, <2>3
    <3>2. CASE j = Len(returns) + 1
      BY <1>4, <2>2, <3>1, <3>2
    <3>3. CASE j \in DOMAIN returns
      BY <2>2, <2>3, <3>1, <3>3 DEF LastFirst
    <3> QED BY <2>2, <3>2, <3>3
  <2>4. \A i \in DOMAIN f : Earlier(f[i].ev, d.ev)
    BY <1>3 DEF StackInv, Sorted
  <2>5. \A i \in DOMAIN f : \A r \in DOMAIN u : Earlier(f[i].ev, u[r].ev)
    BY <1>6, <2>2, <2>4
  <2>6. LastFirst(f, u)
    BY <2>3, <2>5 DEF LastFirst
  <2> QED BY <2>1, <2>6
<1> QED BY <1>2, <1>7, <1>8

\* Sequences with the same elements.
LEMMA RangeUnion ==
  ASSUME NEW u, NEW s, NEW t,
         \A i \in DOMAIN u : (\E j \in DOMAIN s : u[i] = s[j]) \/ (\E j \in DOMAIN t : u[i] = t[j]),
         \A j \in DOMAIN s : \E i \in DOMAIN u : u[i] = s[j],
         \A j \in DOMAIN t : \E i \in DOMAIN u : u[i] = t[j]
  PROVE  Range(u) = Range(s) \union Range(t)
<1>1. \A x \in Range(u) : x \in Range(s) \union Range(t)
  BY Zenon DEF Range
<1>2. \A x \in Range(s) : x \in Range(u)
  BY Zenon DEF Range
<1>3. \A x \in Range(t) : x \in Range(u)
  BY Zenon DEF Range
<1> QED BY <1>1, <1>2, <1>3

\* run() reverses what it collected.
LEMMA ReverseFacts ==
  ASSUME NEW s \in Seq(Deliveries)
  PROVE  /\ Reverse(s) \in Seq(Deliveries)
         /\ Range(Reverse(s)) = Range(s)
         /\ Distinct(s) => Distinct(Reverse(s))
         /\ \A st : LastFirst(st, s) => Sorted(Reverse(s))
<1>1. PICK n \in Nat : n = Len(s) /\ DOMAIN s = 1 .. n
  OBVIOUS
<1>2. PICK u : u = Reverse(s)
  OBVIOUS
<1>3. u = [i \in 1 .. n |-> s[(n - i) + 1]]
  BY <1>1, <1>2 DEF Reverse
<1>4. \A i \in 1 .. n : (n - i) + 1 \in 1 .. n /\ s[(n - i) + 1] \in Deliveries
                        /\ (n - ((n - i) + 1)) + 1 = i
  BY <1>1
<1>5. u \in Seq(Deliveries) /\ DOMAIN u = 1 .. n /\ \A i \in 1 .. n : u[i] = s[(n - i) + 1]
  BY <1>3, <1>4
<1>6. Range(u) = Range(s)
  <2>1. \A i \in DOMAIN s : \E j \in DOMAIN u : u[j] = s[i]
    <3> SUFFICES ASSUME NEW i \in 1 .. n PROVE \E j \in DOMAIN u : u[j] = s[i]
      BY <1>1
    <3>1. PICK j \in 1 .. n : j = (n - i) + 1 /\ (n - j) + 1 = i
      BY <1>4
    <3> QED BY <1>5, <3>1
  <2>2. \A i \in DOMAIN u : \E j \in DOMAIN s : u[i] = s[j]
    BY <1>1, <1>4, <1>5
  <2>3. Range(u) = Range(s) \union Range(s)
    BY <2>1, <2>2, RangeUnion
  <2> QED BY <2>3
<1>7. ASSUME Distinct(s) PROVE Distinct(u)
  <2> SUFFICES ASSUME NEW i \in 1 .. n, NEW j \in 1 .. n, i # j PROVE u[i] # u[j]
    BY <1>5 DEF Distinct
  <2>1. PICK a \in 1 .. n : a = (n - i) + 1
    BY <1>4
  <2>2. PICK b \in 1 .. n : b = (n - j) + 1
    BY <1>4
  <2>3. a # b
    BY <2>1, <2>2
  <2>4. u[i] = s[a] /\ u[j] = s[b]
    BY <1>5, <2>1, <2>2
  <2> QED BY <1>1, <1>7, <2>3, <2>4 DEF Distinct
<1>8. ASSUME NEW st, LastFirst(st, s) PROVE Sorted(u)
  <2> SUFFICES ASSUME NEW i \in 1 .. n, NEW j \in 1 .. n, i < j PROVE Earlier(u[i].ev, u[j].ev)
    BY <1>5 DEF Sorted
  <2>1. PICK a \in 1 .. n : a = (n - i) + 1
    BY <1>4
  <2>2. PICK b \in 1 .. n : b = (n - j) + 1
    BY <1>4
  <2>3. b < a
    BY <2>1, <2>2
  <2>4. u[i] = s[a] /\ u[j] = s[b]
    BY <1>5, <2>1, <2>2
  <2> QED BY <1>1, <1>8, <2>3, <2>4 DEF LastFirst
<1> QED BY <1>2, <1>5, <1>6, <1>7, <1>8

\* What is handed over joins what was.
LEMMA OutputsHandedOver ==
  ASSUME delivered \in Seq(Seq(Deliveries)), NEW rets \in Seq(Deliveries), NEW hs,
         OutputsAre(FlattenSeq(delivered), rets, hs), NEW out \in Seq(Deliveries),
         Range(out) = Range(rets), Distinct(out), delivered' = Append(delivered, out)
  PROVE  delivered' \in Seq(Seq(Deliveries)) /\ OutputsAre(FlattenSeq(delivered'), <<>>, hs)
<1>1. PICK all \in Seq(Deliveries) : all = FlattenSeq(delivered)
  BY FlattenFacts
<1>2. PICK u : u = all \o out
  OBVIOUS
<1>3. Joined(all, out, u)
  BY <1>1, <1>2, JoinFacts
<1>4. FlattenSeq(delivered') = u
  BY <1>1, <1>2, FlattenAppend
<1>5. delivered' \in Seq(Seq(Deliveries))
  BY AppendFacts
<1>6. Range(u) = Range(all) \union Range(out)
  <2>1. \A i \in DOMAIN u : (\E j \in DOMAIN all : u[i] = all[j]) \/ (\E j \in DOMAIN out : u[i] = out[j])
    BY <1>3 DEF Joined
  <2>2. \A j \in DOMAIN all : \E i \in DOMAIN u : u[i] = all[j]
    BY <1>3 DEF Joined
  <2>3. \A j \in DOMAIN out : \E i \in DOMAIN u : u[i] = out[j]
    BY <1>3 DEF Joined
  <2> QED BY <2>1, <2>2, <2>3, RangeUnion
<1>7. \A i \in DOMAIN all : \A j \in DOMAIN out : all[i] # out[j]
  BY <1>1 DEF OutputsAre, Range
<1>8. Distinct(all)
  BY <1>1 DEF OutputsAre
<1>9. ASSUME NEW i \in DOMAIN u, NEW j \in DOMAIN u, i # j PROVE u[i] # u[j]
  <2>1. CASE i \in DOMAIN all /\ j \in DOMAIN all
    BY <1>3, <1>8, <1>9, <2>1 DEF Joined, Distinct
  <2>2. CASE i \in DOMAIN all /\ j \notin DOMAIN all
    BY <1>3, <1>7, <2>2 DEF Joined
  <2>3. CASE i \notin DOMAIN all /\ j \in DOMAIN all
    BY <1>3, <1>7, <2>3 DEF Joined
  <2>4. CASE i \notin DOMAIN all /\ j \notin DOMAIN all
    <3>1. /\ i - Len(all) \in DOMAIN out /\ j - Len(all) \in DOMAIN out /\ i - Len(all) # j - Len(all)
          /\ u[i] = out[i - Len(all)] /\ u[j] = out[j - Len(all)]
      BY <1>3, <1>9, <2>4 DEF Joined
    <3> QED BY <3>1 DEF Distinct
  <2> QED BY <2>1, <2>2, <2>3, <2>4
<1>10. Range(<<>>) = {} /\ Distinct(<<>>)
  BY DEF Range, Distinct
<1>11. Range(all) \union Range(rets) = Outputs(hs)
  BY <1>1 DEF OutputsAre
<1>12. OutputsAre(u, <<>>, hs)
  BY <1>6, <1>9, <1>10, <1>11 DEF OutputsAre, Distinct
<1> QED BY <1>4, <1>5, <1>12

\* The call hands over what it collected.
LEMMA HandOverFacts ==
  ASSUME GraphTypes, ReturnsInv, NEW rets \in Seq(Deliveries), NEW ins, NEW out \in Seq(Deliveries), HandOver(out, ins),
         errors' = errors, stack' \in Seq(Deliveries),
         OutputsAre(FlattenSeq(delivered), rets, handled'), Range(out) = Range(rets), Distinct(out),
         errors = 0 => Sorted(out)
  PROVE  /\ returns' = <<>> /\ insights' = <<>> /\ delivered' \in Seq(Seq(Deliveries)) /\ running' = FALSE
         /\ ReturnsInv' /\ OutputsInv'
<1>1. returns' = <<>> /\ insights' = <<>> /\ delivered' = Append(delivered, out) /\ running' = FALSE
  BY DEF HandOver
<1>2. delivered \in Seq(Seq(Deliveries))
  BY DEF GraphTypes
<1>3. delivered' \in Seq(Seq(Deliveries)) /\ OutputsAre(FlattenSeq(delivered'), <<>>, handled')
  BY <1>1, <1>2, OutputsHandedOver
<1>4. OutputsInv'
  BY <1>1, <1>3 DEF OutputsInv
<1>5. ASSUME errors = 0 PROVE \A c \in DOMAIN delivered' : Sorted(delivered'[c])
  <2>1. /\ \A c \in DOMAIN delivered : delivered'[c] = delivered[c] /\ Sorted(delivered[c])
        /\ DOMAIN delivered' = DOMAIN delivered \union {Len(delivered) + 1} /\ delivered'[Len(delivered) + 1] = out
    BY <1>1, <1>2, <1>5, AppendFacts DEF ReturnsInv
  <2> QED BY <1>5, <2>1
<1>6. LastFirst(stack', <<>>)
  BY DEF LastFirst
<1>7. ReturnsInv'
  BY <1>1, <1>5, <1>6 DEF ReturnsInv
<1> QED BY <1>1, <1>3, <1>4, <1>7

\* run() ends, or goes on.
LEMMA ContinueFacts ==
  ASSUME GraphTypes, running, ReturnsInv, NEW rets \in Seq(Deliveries), NEW ins \in Seq(ContraHandlers),
         stack' \in Seq(Deliveries), ContinueOrReturn(stack', rets, ins), errors' = errors,
         OutputsAre(FlattenSeq(delivered), rets, handled'), errors = 0 => LastFirst(stack', rets)
  PROVE  /\ returns' \in Seq(Deliveries) /\ insights' \in Seq(ContraHandlers)
         /\ delivered' \in Seq(Seq(Deliveries)) /\ running' \in BOOLEAN /\ (~running' => stack' = <<>>)
         /\ ReturnsInv' /\ OutputsInv'
<1>1. CASE stack' = <<>>
  <2>1. HandOver(Reverse(rets), ins)
    BY <1>1 DEF ContinueOrReturn
  <2>2. PICK out \in Seq(Deliveries) : /\ out = Reverse(rets) /\ Range(out) = Range(rets) /\ Distinct(out)
                                       /\ (errors = 0 => Sorted(out))
    BY ReverseFacts DEF OutputsAre
  <2>3. /\ returns' = <<>> /\ insights' = <<>> /\ delivered' \in Seq(Seq(Deliveries)) /\ running' = FALSE
        /\ ReturnsInv' /\ OutputsInv'
    BY <2>1, <2>2, HandOverFacts
  <2>4. <<>> \in Seq(Deliveries) /\ <<>> \in Seq(ContraHandlers) /\ FALSE \in BOOLEAN
    OBVIOUS
  <2> QED BY <1>1, <2>3, <2>4, Zenon
<1>2. CASE stack' # <<>>
  <2>1. returns' = rets /\ insights' = ins /\ UNCHANGED <<running, delivered>>
    BY <1>2 DEF ContinueOrReturn
  <2>2. OutputsInv'
    BY <2>1 DEF OutputsInv
  <2>3. ReturnsInv'
    BY <2>1 DEF ReturnsInv
  <2> QED BY <2>1, <2>2, <2>3 DEF GraphTypes
<1> QED BY <1>1, <1>2

\* The delivery that next() takes is an output, or not.
LEMMA OutputsNext ==
  ASSUME GraphTypes, StackInv, OutputsInv, stack # <<>>, NEW d, d = Last(stack), handled' = Append(handled, d), calls' = calls
  PROVE  /\ d.sig \/ d.node \in Ops => OutputsAre(FlattenSeq(delivered), returns, handled')
         /\ ~d.sig /\ d.node \notin Ops => OutputsAre(FlattenSeq(delivered), Append(returns, d), handled')
<1>1. handled \in Seq(Deliveries) /\ returns \in Seq(Deliveries) /\ d \in Deliveries
  BY HandledMore DEF GraphTypes
<1>2. /\ handled'[Len(handled) + 1] = d /\ Len(handled) + 1 \in DOMAIN handled'
      /\ \A i \in DOMAIN handled : handled'[i] = handled[i] /\ i \in DOMAIN handled'
      /\ \A i \in DOMAIN handled' : i = Len(handled) + 1 \/ i \in DOMAIN handled
  BY <1>1, AppendElements
<1> DEFINE IsOut(x) == ~x.sig /\ x.node \notin Ops
<1>3. \A x : x \in Outputs(handled) <=> \E i \in DOMAIN handled : handled[i] = x /\ IsOut(x)
  BY DEF Outputs
<1>4. \A x : x \in Outputs(handled') <=> \E i \in DOMAIN handled' : handled'[i] = x /\ IsOut(x)
  BY DEF Outputs
<1> HIDE DEF IsOut
<1>5. Outputs(handled') = IF IsOut(d) THEN Outputs(handled) \union {d} ELSE Outputs(handled)
  <2>1. \A x \in Outputs(handled') : x \in Outputs(handled) \/ (x = d /\ IsOut(d))
    BY <1>2, <1>3, <1>4
  <2>2. \A x \in Outputs(handled) : x \in Outputs(handled')
    BY <1>2, <1>3, <1>4
  <2>3. IsOut(d) => d \in Outputs(handled')
    BY <1>2, <1>4
  <2> QED BY <2>1, <2>2, <2>3
<1>6. d \notin Outputs(handled)
  <2>1. \A i \in DOMAIN handled : handled[i].ev # d.ev
    <3> SUFFICES ASSUME NEW i \in DOMAIN handled PROVE handled[i].ev # d.ev
      OBVIOUS
    <3>1. \A h, j \in DOMAIN handled' : h # j => handled'[h].ev # handled'[j].ev
      BY HandledMore
    <3>2. i # Len(handled) + 1
      BY <1>1
    <3> QED BY <1>2, <3>1, <3>2
  <2> QED BY <1>3, <2>1
<1>7. ASSUME ~IsOut(d) PROVE OutputsAre(FlattenSeq(delivered), returns, handled')
  BY <1>5, <1>7 DEF OutputsInv, OutputsAre
<1>8. ASSUME IsOut(d) PROVE OutputsAre(FlattenSeq(delivered), Append(returns, d), handled')
  <2>1. PICK all : all = FlattenSeq(delivered)
    OBVIOUS
  <2>2. PICK u : u = Append(returns, d)
    OBVIOUS
  <2>3. /\ u[Len(returns) + 1] = d /\ Len(returns) + 1 \in DOMAIN u
        /\ \A i \in DOMAIN returns : i \in DOMAIN u /\ u[i] = returns[i]
        /\ \A i \in DOMAIN u : i = Len(returns) + 1 \/ i \in DOMAIN returns
    BY <1>1, <2>2, AppendElements
  <2>4. Range(u) = Range(returns) \union {d}
    <3>1. \A x \in Range(u) : x \in Range(returns) \/ x = d
      BY <2>3 DEF Range
    <3>2. \A x \in Range(returns) : x \in Range(u)
      BY <2>3 DEF Range
    <3>3. d \in Range(u)
      BY <2>3 DEF Range
    <3> QED BY <3>1, <3>2, <3>3
  <2>5. /\ Range(all) \union Range(returns) = Outputs(handled) /\ Range(all) \intersect Range(returns) = {}
        /\ Distinct(all) /\ Distinct(returns)
    BY <2>1 DEF OutputsInv, OutputsAre
  <2>6. \A i \in DOMAIN returns : returns[i] # d
    BY <1>6, <2>5 DEF Range
  <2>7. Distinct(u)
    BY <2>3, <2>5, <2>6 DEF Distinct
  <2>8. /\ Range(all) \union Range(u) = Outputs(handled') /\ Range(all) \intersect Range(u) = {}
    BY <1>5, <1>6, <1>8, <2>4, <2>5
  <2>9. OutputsAre(all, u, handled')
    BY <2>5, <2>7, <2>8 DEF OutputsAre
  <2> QED BY <2>1, <2>2, <2>9
<1> QED BY <1>7, <1>8 DEF IsOut

-----------------------------------------------------------------------------
(* The steps of run().                                                     *)

\* Metrics are left alone.
LEMMA MetricsKept == ASSUME MetricsInv, UNCHANGED <<flushes, lastMetrics>> PROVE MetricsInv'
  BY DEF MetricsInv, MetricsPaced

\* The paths that were pushed are those on the stack and those handled.
LEMMA PathsNext ==
  ASSUME GraphTypes, StackInv, stack # <<>>, NEW d, d = Last(stack), handled' = Append(handled, d), calls' = calls,
         NEW ds \in Seq(Deliveries), stack' = Front(stack) \o ds
  PROVE  Paths(handled') \union Paths(stack') = Paths(handled) \union Paths(stack) \union Paths(ds)
<1>1. stack \in Seq(Deliveries)
  BY DEF GraphTypes
<1>2. PICK f \in Seq(Deliveries) : f = Front(stack)
  BY <1>1, PopFacts
<1>3. /\ Len(stack) \in DOMAIN stack /\ d = stack[Len(stack)]
      /\ \A i \in DOMAIN f : i \in DOMAIN stack /\ f[i] = stack[i]
      /\ \A i \in DOMAIN stack : i = Len(stack) \/ (i \in DOMAIN f /\ f[i] = stack[i])
  BY <1>1, <1>2, PopFacts
<1>4. Paths(stack) = Paths(f) \union {d.ev}
  BY <1>3 DEF Paths
<1>5. Paths(stack') = Paths(f) \union Paths(ds)
  BY <1>2, JoinedElements
<1>6. Paths(handled') = Paths(handled) \union {d.ev}
  BY HandledMore
<1> QED BY <1>4, <1>5, <1>6

\* The step after which run() goes on or ends.
LEMMA NextFacts ==
  ASSUME GraphInv, running, stack # <<>>, NEW d, d = Last(stack), NEW ds, Grown(ds, d.ev),
         stack' = Front(stack) \o ds, handled' = Append(handled, d), pushed' = pushed \union Paths(ds),
         UNCHANGED <<wires, lastMetrics, calls, errors, flushes>>, budget' \in 0 .. MaxEmit,
         NEW rets, NEW ins \in Seq(ContraHandlers), ContinueOrReturn(stack', rets, ins),
         \/ ~d.sig /\ d.node \notin Ops /\ rets = Append(returns, d) /\ stack' = Front(stack)
         \/ (d.sig \/ d.node \in Ops) /\ rets = returns
  PROVE  GraphInv'
<1>1. GraphTypes /\ StackInv /\ CompleteInv /\ ReturnsInv /\ OutputsInv /\ MetricsInv
  BY DEF GraphInv
<1>2. ds \in Seq(Deliveries) /\ returns \in Seq(Deliveries)
  BY <1>1 DEF Grown, GraphTypes
<1>3. stack' \in Seq(Deliveries) /\ StackInv'
  BY <1>1, StackOfNext
<1>4. handled' \in Seq(Deliveries) /\ d \in Deliveries
  BY <1>1, HandledMore
<1>5. rets \in Seq(Deliveries)
  <2>1. Append(returns, d) \in Seq(Deliveries)
    BY <1>2, <1>4, AppendElements
  <2> QED BY <1>2, <2>1, Zenon
<1>6. OutputsAre(FlattenSeq(delivered), rets, handled')
  BY <1>1, OutputsNext
<1>7. errors = 0 => LastFirst(stack', rets)
  BY <1>1, LastFirstNext DEF ReturnsInv
<1>8. /\ returns' \in Seq(Deliveries) /\ insights' \in Seq(ContraHandlers)
      /\ delivered' \in Seq(Seq(Deliveries)) /\ running' \in BOOLEAN /\ (~running' => stack' = <<>>)
      /\ ReturnsInv' /\ OutputsInv'
  BY <1>1, <1>3, <1>5, <1>6, <1>7, ContinueFacts
<1>9. GraphTypes'
  BY <1>1, <1>3, <1>4, <1>8 DEF GraphTypes
<1>10. CompleteInv'
  <2>1. Paths(handled') \union Paths(stack') = Paths(handled) \union Paths(stack) \union Paths(ds)
    BY <1>1, <1>2, PathsNext
  <2>2. ASSUME errors' = 0 PROVE pushed' = Paths(handled') \union Paths(stack')
    <3>1. pushed = Paths(handled) \union Paths(stack)
      BY <1>1, <2>2 DEF CompleteInv
    <3> QED BY <2>1, <3>1
  <2>3. Paths(handled)' = Paths(handled') /\ Paths(stack)' = Paths(stack')
    BY DEF Paths
  <2> QED BY <1>8, <2>2, <2>3 DEF CompleteInv
<1>11. MetricsInv'
  BY <1>1, MetricsKept
<1> QED BY <1>3, <1>8, <1>9, <1>10, <1>11 DEF GraphInv

LEMMA OutputStep == ASSUME GraphInv, NextOutput PROVE GraphInv'
<1>1. PICK d : d = Last(stack)
  OBVIOUS
<1>2. /\ running /\ stack # <<>> /\ ~d.sig /\ d.node \notin Ops
      /\ stack' = Front(stack)
      /\ ContinueOrReturn(stack', Append(returns, d), insights)
      /\ handled' = Append(handled, d)
      /\ UNCHANGED <<wires, lastMetrics, calls, budget, errors, pushed, flushes>>
  BY <1>1 DEF NextOutput, NextDelivery, RestOfStack, Take
<1>3. GraphTypes
  BY DEF GraphInv
<1>4. stack \in Seq(Deliveries) /\ insights \in Seq(ContraHandlers) /\ budget \in 0 .. MaxEmit
  BY <1>3 DEF GraphTypes
<1>5. Front(stack) \in Seq(Deliveries)
  BY <1>2, <1>4, PopFacts
<1>6. stack' = Front(stack) \o <<>>
  BY <1>2, <1>5
<1>7. Grown(<<>>, d.ev) /\ pushed' = pushed \union Paths(<<>>)
  BY <1>2 DEF Grown, Sorted, Paths
<1> QED BY <1>1, <1>2, <1>4, <1>6, <1>7, NextFacts

LEMMA CostFacts == ASSUME NEW S, NEW ems \in Seq(S) PROVE Cost(ems) \in Nat
<1>1. Len(ems) \in Nat /\ (Len(ems) = 0 => ems = <<>>)
  OBVIOUS
<1> QED BY <1>1 DEF Cost

LEMMA InsightFacts ==
  ASSUME NEW n, NEW insight, insight => n \in ContraHandlers
  PROVE  /\ (IF insight THEN <<n>> ELSE <<>>) \in Seq(ContraHandlers)
         /\ \A is \in Seq(ContraHandlers) : is \o (IF insight THEN <<n>> ELSE <<>>) \in Seq(ContraHandlers)
<1>1. PICK new : new = IF insight THEN <<n>> ELSE <<>>
  OBVIOUS
<1>2. new \in Seq(ContraHandlers)
  BY <1>1
<1>3. \A is \in Seq(ContraHandlers) : is \o new \in Seq(ContraHandlers)
  BY <1>2
<1> QED BY <1>1, <1>2, <1>3, Zenon

LEMMA EventStep == ASSUME GraphInv, NextEvent PROVE GraphInv'
<1>1. PICK d : d = Last(stack)
  OBVIOUS
<1>2. running /\ stack # <<>> /\ ~d.sig /\ d.node \in Ops /\ handled' = Append(handled, d)
      /\ UNCHANGED <<wires, lastMetrics, calls, errors, flushes>>
  BY <1>1 DEF NextEvent, NextDelivery, RestOfStack, Take
<1>3. PICK ems \in EmissionSeqs, insight \in BOOLEAN :
         /\ Cost(ems) <= budget /\ (insight => d.node \in ContraHandlers)
         /\ stack' = Front(stack) \o Pushed(d.node, d.ev, ems)
         /\ pushed' = pushed \union Paths(Pushed(d.node, d.ev, ems))
         /\ budget' = budget - Cost(ems)
         /\ ContinueOrReturn(stack', returns, insights \o (IF insight THEN <<d.node>> ELSE <<>>))
  BY <1>1 DEF NextEvent, NextDelivery, RestOfStack
<1>4. GraphTypes /\ StackInv
  BY DEF GraphInv
<1>5. insights \in Seq(ContraHandlers) /\ budget \in 0 .. MaxEmit /\ wires \in Graphs /\ stack \in Seq(Deliveries)
  BY <1>4 DEF GraphTypes
<1>6. ems \in Seq(Emissions) /\ MaxEmit \in Nat
  BY ExecGraphAssumption DEF ExecGraphAssumption
<1>7. budget' \in 0 .. MaxEmit
  <2>1. Cost(ems) \in Nat
    BY <1>6, CostFacts
  <2> QED BY <1>3, <1>5, <1>6, <2>1
<1>8. PICK ins \in Seq(ContraHandlers) : ins = insights \o (IF insight THEN <<d.node>> ELSE <<>>)
  BY <1>3, <1>5, InsightFacts
<1>9. d.ev \in Seq(Nat)
  BY <1>1, <1>2, <1>5, PopFacts
<1>10. PICK ds : ds = Pushed(d.node, d.ev, ems) /\ Grown(ds, d.ev)
  BY <1>2, <1>5, <1>6, <1>9, PushedFacts
<1>11. ContinueOrReturn(stack', returns, ins)
  BY <1>3, <1>8
<1>12. stack' = Front(stack) \o ds /\ pushed' = pushed \union Paths(ds)
  BY <1>3, <1>10
<1> QED BY <1>1, <1>2, <1>7, <1>8, <1>10, <1>11, <1>12, NextFacts

\* What the handlers of a signal emit fits the bound.
LEMMA EmittedFacts ==
  ASSUME GraphTypes, NEW ems \in SignalEmissions(budget)
  PROVE  ems \in [DOMAIN SignalflowList -> EmissionSeqs] /\ budget - Emitted(ems) \in 0 .. MaxEmit
<1>1. /\ SignalflowList \in Seq(SignalHandlers) /\ Len(SignalflowList) \in Nat
      /\ DOMAIN SignalflowList = 1 .. Len(SignalflowList)
  BY ExecGraphAssumption, AscendingFacts DEF SignalflowList, ExecGraphAssumption
<1>2. ems \in [DOMAIN SignalflowList -> EmissionSeqs] /\ Emitted(ems) <= budget
  BY DEF SignalEmissions
<1>3. EmissionSeqs \subseteq Seq(Emissions) /\ MaxEmit \in Nat
  BY ExecGraphAssumption DEF ExecGraphAssumption
<1>4. ems \in Seq(Seq(Emissions))
  BY <1>1, <1>2, <1>3
<1>5. FlattenSeq(ems) \in Seq(Emissions)
  BY <1>4, FlattenFacts
<1>6. Emitted(ems) \in Nat
  BY <1>5, CostFacts DEF Emitted
<1> QED BY <1>2, <1>3, <1>6 DEF GraphTypes

\* The insights of a signal.
LEMMA SignalInsightsFacts ==
  ASSUME NEW ins \in SUBSET (SignalHandlers \intersect ContraHandlers), NEW is \in Seq(ContraHandlers)
  PROVE  is \o SignalInsights(ins) \in Seq(ContraHandlers)
<1>1. ins \in SUBSET Ops /\ ins \subseteq ContraHandlers
  BY ExecGraphAssumption DEF ExecGraphAssumption
<1>2. SignalInsights(ins) \in Seq(ins)
  BY <1>1, AscendingFacts DEF SignalInsights
<1>3. SignalInsights(ins) \in Seq(ContraHandlers)
  BY <1>1, <1>2
<1> QED BY <1>3

LEMMA SignalStep == ASSUME GraphInv, NextSignal PROVE GraphInv'
<1>1. PICK d : d = Last(stack)
  OBVIOUS
<1>2. running /\ stack # <<>> /\ d.sig /\ handled' = Append(handled, d)
      /\ UNCHANGED <<wires, lastMetrics, calls, errors, flushes>>
  BY <1>1 DEF NextSignal, NextDelivery, RestOfStack, Take
<1>3. PICK ems \in SignalEmissions(budget), hs \in SUBSET (SignalHandlers \intersect ContraHandlers) :
         /\ stack' = Front(stack) \o SignalPushed(d.ev, ems, Len(SignalflowList))
         /\ pushed' = pushed \union Paths(SignalPushed(d.ev, ems, Len(SignalflowList)))
         /\ budget' = budget - Emitted(ems)
         /\ ContinueOrReturn(stack', returns, insights \o SignalInsights(hs))
  BY <1>1 DEF NextSignal, NextDelivery, RestOfStack
<1>4. GraphTypes /\ StackInv
  BY DEF GraphInv
<1>5. insights \in Seq(ContraHandlers) /\ wires \in Graphs /\ stack \in Seq(Deliveries)
  BY <1>4 DEF GraphTypes
<1>6. ems \in [DOMAIN SignalflowList -> EmissionSeqs] /\ budget' \in 0 .. MaxEmit
  BY <1>3, <1>4, EmittedFacts
<1>7. PICK ins \in Seq(ContraHandlers) : ins = insights \o SignalInsights(hs)
  BY <1>5, SignalInsightsFacts
<1>8. d.ev \in Seq(Nat)
  BY <1>1, <1>2, <1>5, PopFacts
<1>9. Len(SignalflowList) \in 0 .. Len(SignalflowList)
  <2>1. Len(SignalflowList) \in Nat
    BY ExecGraphAssumption, AscendingFacts DEF SignalflowList, ExecGraphAssumption
  <2> QED BY <2>1
<1>10. PICK ds : ds = SignalPushed(d.ev, ems, Len(SignalflowList)) /\ Grown(ds, d.ev)
  BY <1>5, <1>6, <1>8, <1>9, SignalPushedFacts
<1>11. ContinueOrReturn(stack', returns, ins)
  BY <1>3, <1>7
<1>12. stack' = Front(stack) \o ds /\ pushed' = pushed \union Paths(ds)
  BY <1>3, <1>10
<1> QED BY <1>1, <1>2, <1>6, <1>7, <1>10, <1>11, <1>12, NextFacts

LEMMA FailStep == ASSUME GraphInv, NextFails PROVE GraphInv'
<1>1. PICK d : d = Last(stack)
  OBVIOUS
<1>2. /\ running /\ stack # <<>> /\ errors < MaxErrors /\ (d.sig \/ d.node \in Ops)
      /\ running' = FALSE /\ stack' = <<>> /\ handled' = Append(handled, d) /\ errors' = errors + 1
      /\ UNCHANGED <<wires, returns, lastMetrics, calls, budget, pushed, delivered, flushes>>
  BY <1>1 DEF NextFails, NextDelivery, Fail, Take
<1>3. GraphTypes /\ StackInv /\ OutputsInv /\ MetricsInv
  BY DEF GraphInv
<1>4. /\ handled' \in Seq(Deliveries) /\ \A i \in DOMAIN handled' : OfCall(handled'[i].ev, calls)
      /\ \A i, j \in DOMAIN handled' : i # j => handled'[i].ev # handled'[j].ev
  BY <1>1, <1>2, <1>3, HandledMore
<1>5. StackInv'
  BY <1>2, <1>4 DEF StackInv, Sorted
<1>6. errors' \in 0 .. MaxErrors /\ errors' # 0
  BY <1>2, <1>3, ExecGraphAssumption DEF GraphTypes, ExecGraphAssumption
<1>7. OutputsInv'
  <2>1. OutputsAre(FlattenSeq(delivered), returns, handled')
    BY <1>1, <1>2, <1>3, OutputsNext
  <2> QED BY <1>2, <2>1 DEF OutputsInv
<1>8. GraphTypes'
  <2>1. stack' \in Seq(Deliveries)
    BY <1>2
  <2>2. PICK hs \in SUBSET (SignalHandlers \intersect ContraHandlers) : insights' = insights \o SignalInsights(hs)
    BY DEF NextFails, Fail
  <2>3. insights' \in Seq(ContraHandlers)
    BY <1>3, <2>2, SignalInsightsFacts DEF GraphTypes
  <2> QED BY <1>2, <1>3, <1>4, <1>6, <2>1, <2>3 DEF GraphTypes
<1>9. CompleteInv' /\ ReturnsInv'
  BY <1>6 DEF CompleteInv, ReturnsInv
<1>10. MetricsInv'
  BY <1>2, <1>3, MetricsKept
<1> QED BY <1>5, <1>7, <1>8, <1>9, <1>10 DEF GraphInv

LEMMA EmptyStep == ASSUME GraphInv, NextOnEmpty PROVE GraphInv'
<1>1. /\ running /\ stack = <<>> /\ HandOver(Reverse(returns), insights)
      /\ UNCHANGED <<wires, stack, lastMetrics, calls, budget, errors, pushed, handled, flushes>>
  BY DEF NextOnEmpty
<1>2. GraphTypes /\ StackInv /\ CompleteInv /\ ReturnsInv /\ OutputsInv /\ MetricsInv
  BY DEF GraphInv
<1>3. returns \in Seq(Deliveries) /\ stack' \in Seq(Deliveries)
  BY <1>1, <1>2 DEF GraphTypes
<1>4. PICK out \in Seq(Deliveries) : /\ out = Reverse(returns) /\ Range(out) = Range(returns) /\ Distinct(out)
                                     /\ (errors = 0 => Sorted(out))
  BY <1>2, <1>3, ReverseFacts DEF OutputsAre, OutputsInv, ReturnsInv
<1>5. OutputsAre(FlattenSeq(delivered), returns, handled')
  BY <1>1, <1>2 DEF OutputsInv
<1>6. /\ returns' = <<>> /\ insights' = <<>> /\ delivered' \in Seq(Seq(Deliveries)) /\ running' = FALSE
      /\ ReturnsInv' /\ OutputsInv'
  BY <1>1, <1>2, <1>3, <1>4, <1>5, HandOverFacts
<1>7. GraphTypes'
  <2>1. returns' \in Seq(Deliveries) /\ insights' \in Seq(ContraHandlers)
    BY <1>6
  <2> QED BY <1>1, <1>2, <1>6, <2>1 DEF GraphTypes
<1>8. StackInv'
  BY <1>1, <1>2 DEF StackInv
<1>9. CompleteInv'
  BY <1>1, <1>2 DEF CompleteInv, Paths
<1>10. MetricsInv'
  BY <1>1, <1>2, MetricsKept
<1> QED BY <1>6, <1>7, <1>8, <1>9, <1>10 DEF GraphInv

-----------------------------------------------------------------------------
(* The calls.                                                              *)

\* What a call pushes before run() starts.
LEMMA CallFacts ==
  ASSUME GraphInv, ~running, NEW ds \in Seq(Deliveries), Sorted(ds),
         \A i \in DOMAIN ds : Len(ds[i].ev) >= 1 /\ ds[i].ev[1] = calls + 1,
         calls < MaxCalls, calls' = calls + 1, stack' = stack \o ds, handled' = handled,
         pushed' = pushed \union Paths(ds), errors' \in {errors, errors + 1}
  PROVE  /\ stack' \in Seq(Deliveries) /\ StackInv' /\ calls' \in 0 .. MaxCalls
         /\ errors' = 0 => /\ errors = 0 /\ stack' = ds /\ returns = <<>>
                           /\ pushed' = Paths(handled') \union Paths(stack')
         /\ LastFirst(stack', <<>>)
<1>1. GraphTypes /\ StackInv /\ CompleteInv /\ ReturnsInv
  BY DEF GraphInv
<1>2. stack' \in Seq(Deliveries) /\ StackInv'
  BY <1>1, StackOfNewCall
<1>3. calls' \in 0 .. MaxCalls /\ (errors' = 0 => errors = 0)
  BY <1>1, ExecGraphAssumption DEF GraphTypes, ExecGraphAssumption
<1>4. errors = 0 => stack = <<>> /\ returns = <<>> /\ pushed = Paths(handled) \union Paths(stack)
  BY <1>1 DEF CompleteInv, ReturnsInv
<1>5. stack = <<>> => stack' = ds
  OBVIOUS
<1>6. Paths(<<>>) = {}
  BY DEF Paths
<1>7. LastFirst(stack', <<>>)
  BY DEF LastFirst
<1>8. errors = 0 => pushed' = Paths(handled') \union Paths(stack')
  BY <1>4, <1>5, <1>6
<1> QED BY <1>2, <1>3, <1>4, <1>5, <1>7, <1>8

\* What a signal pushes.
LEMMA SignalCallFacts ==
  ASSUME GraphTypes, NEW n \in 0 .. Len(SignalflowList), NEW ems \in [DOMAIN SignalflowList -> EmissionSeqs],
         NEW ds, ds = SignalPushed(<<calls + 1>>, ems, n)
  PROVE  /\ ds \in Seq(Deliveries) /\ Sorted(ds)
         /\ \A i \in DOMAIN ds : Len(ds[i].ev) >= 1 /\ ds[i].ev[1] = calls + 1
         /\ (\A h \in DOMAIN ems : ems[h] = <<>>) => ds = <<>>
<1>1. calls \in Nat /\ wires \in Graphs
  BY ExecGraphAssumption DEF GraphTypes, ExecGraphAssumption
<1>2. PICK e \in Seq(Nat) : e = <<calls + 1>> /\ Len(e) = 1 /\ e[1] = calls + 1
  <2>1. PICK c \in Nat : c = calls + 1
    BY <1>1
  <2>2. <<c>> \in Seq(Nat) /\ Len(<<c>>) = 1 /\ <<c>>[1] = c
    OBVIOUS
  <2> QED BY <2>1, <2>2
<1>3. Grown(ds, e) /\ ((\A h \in DOMAIN ems : ems[h] = <<>>) => ds = <<>>)
  BY <1>1, <1>2, SignalPushedFacts
<1>4. ds \in Seq(Deliveries) /\ Sorted(ds) /\ \A i \in DOMAIN ds : Stems(e, ds[i].ev)
  BY <1>3 DEF Grown
<1>5. ASSUME NEW i \in DOMAIN ds PROVE Len(ds[i].ev) >= 1 /\ ds[i].ev[1] = calls + 1
  <2>1. Len(ds[i].ev) \in Nat
    BY <1>4, EvFacts
  <2> QED BY <1>2, <1>4, <2>1 DEF Stems
<1> QED BY <1>3, <1>4, <1>5

LEMMA SignalCall == ASSUME GraphInv, EnqueueSignal PROVE GraphInv'
<1>1. ~running /\ calls < MaxCalls /\ calls' = calls + 1 /\ UNCHANGED <<wires, lastMetrics, errors, handled, flushes>>
  BY DEF EnqueueSignal
<1>2. PICK ems \in SignalEmissions(budget), hs \in SUBSET (SignalHandlers \intersect ContraHandlers) :
         /\ stack' = stack \o SignalPushed(<<calls + 1>>, ems, Len(SignalflowList))
         /\ pushed' = pushed \union Paths(SignalPushed(<<calls + 1>>, ems, Len(SignalflowList)))
         /\ budget' = budget - Emitted(ems)
         /\ IF HasEvents(ems)
              THEN /\ running' = TRUE /\ insights' = insights \o SignalInsights(hs)
                   /\ UNCHANGED <<returns, delivered>>
              ELSE HandOver(returns, insights \o SignalInsights(hs))
  BY DEF EnqueueSignal
<1>3. GraphTypes /\ StackInv /\ CompleteInv /\ ReturnsInv /\ OutputsInv /\ MetricsInv
  BY DEF GraphInv
<1>4. ems \in [DOMAIN SignalflowList -> EmissionSeqs] /\ budget' \in 0 .. MaxEmit
  BY <1>2, <1>3, EmittedFacts
<1>5. Len(SignalflowList) \in 0 .. Len(SignalflowList)
  <2>1. Len(SignalflowList) \in Nat
    BY ExecGraphAssumption, AscendingFacts DEF SignalflowList, ExecGraphAssumption
  <2> QED BY <2>1
<1>6. PICK ds \in Seq(Deliveries) :
         /\ stack' = stack \o ds /\ pushed' = pushed \union Paths(ds) /\ Sorted(ds)
         /\ \A i \in DOMAIN ds : Len(ds[i].ev) >= 1 /\ ds[i].ev[1] = calls + 1
         /\ (\A h \in DOMAIN ems : ems[h] = <<>>) => ds = <<>>
  <2>1. PICK ds : ds = SignalPushed(<<calls + 1>>, ems, Len(SignalflowList))
    OBVIOUS
  <2>2. /\ ds \in Seq(Deliveries) /\ Sorted(ds)
        /\ \A i \in DOMAIN ds : Len(ds[i].ev) >= 1 /\ ds[i].ev[1] = calls + 1
        /\ (\A h \in DOMAIN ems : ems[h] = <<>>) => ds = <<>>
    BY <1>3, <1>4, <1>5, <2>1, SignalCallFacts
  <2> QED BY <1>2, <2>1, <2>2
<1>7. /\ stack' \in Seq(Deliveries) /\ StackInv' /\ calls' \in 0 .. MaxCalls
      /\ errors' = 0 => /\ errors = 0 /\ stack' = ds /\ returns = <<>>
                        /\ pushed' = Paths(handled') \union Paths(stack')
      /\ LastFirst(stack', <<>>)
  BY <1>1, <1>6, CallFacts
<1>8. PICK ins \in Seq(ContraHandlers) : ins = insights \o SignalInsights(hs)
  BY <1>3, SignalInsightsFacts DEF GraphTypes
<1>9. MetricsInv'
  BY <1>1, <1>3, MetricsKept
<1>10. CASE HasEvents(ems)
  <2>1. running' = TRUE /\ insights' = ins /\ UNCHANGED <<returns, delivered>>
    BY <1>2, <1>8, <1>10
  <2>2. GraphTypes'
    BY <1>1, <1>3, <1>4, <1>7, <2>1 DEF GraphTypes
  <2>3. CompleteInv'
    BY <1>7, <2>1 DEF CompleteInv, Paths
  <2>4. ReturnsInv'
    BY <1>1, <1>3, <1>7, <2>1 DEF ReturnsInv
  <2>5. OutputsInv'
    BY <1>1, <1>3, <2>1 DEF OutputsInv
  <2> QED BY <1>7, <1>9, <2>2, <2>3, <2>4, <2>5 DEF GraphInv
<1>11. CASE ~HasEvents(ems)
  <2>1. HandOver(returns, ins) /\ \A h \in DOMAIN ems : ems[h] = <<>>
    BY <1>2, <1>8, <1>11 DEF HasEvents
  <2>2. ds = <<>>
    BY <1>6, <2>1
  <2>3. returns \in Seq(Deliveries) /\ Distinct(returns) /\ OutputsAre(FlattenSeq(delivered), returns, handled')
    BY <1>1, <1>3 DEF GraphTypes, OutputsInv, OutputsAre
  <2>4. errors = 0 => Sorted(returns)
    BY <1>1, <1>7 DEF Sorted
  <2>5. /\ returns' = <<>> /\ insights' = <<>> /\ delivered' \in Seq(Seq(Deliveries)) /\ running' = FALSE
        /\ ReturnsInv' /\ OutputsInv'
    BY <1>1, <1>3, <1>7, <2>1, <2>3, <2>4, HandOverFacts
  <2>6. returns' \in Seq(Deliveries) /\ insights' \in Seq(ContraHandlers)
    BY <2>5
  <2>7. GraphTypes'
    BY <1>1, <1>3, <1>4, <1>7, <2>5, <2>6 DEF GraphTypes
  <2>8. CompleteInv'
    BY <1>7, <2>2 DEF CompleteInv, Paths
  <2> QED BY <1>7, <1>9, <2>5, <2>7, <2>8 DEF GraphInv
<1> QED BY <1>10, <1>11

LEMMA SignalCallFails == ASSUME GraphInv, EnqueueSignalFails PROVE GraphInv'
<1>1. /\ ~running /\ calls < MaxCalls /\ errors < MaxErrors /\ calls' = calls + 1 /\ errors' = errors + 1
      /\ UNCHANGED <<wires, returns, lastMetrics, running, handled, delivered, flushes>>
  BY DEF EnqueueSignalFails
<1>2. PICK ems \in SignalEmissions(budget), n \in 1 .. Len(SignalflowList),
           hs \in SUBSET (SignalHandlers \intersect ContraHandlers) :
         /\ insights' = insights \o SignalInsights(hs)
         /\ stack' = stack \o SignalPushed(<<calls + 1>>, ems, n - 1)
         /\ pushed' = pushed \union Paths(SignalPushed(<<calls + 1>>, ems, n - 1))
         /\ budget' = budget - Emitted(ems)
  BY DEF EnqueueSignalFails
<1>3. GraphTypes /\ StackInv /\ CompleteInv /\ ReturnsInv /\ OutputsInv /\ MetricsInv
  BY DEF GraphInv
<1>4. ems \in [DOMAIN SignalflowList -> EmissionSeqs] /\ budget' \in 0 .. MaxEmit
  BY <1>2, <1>3, EmittedFacts
<1>5. n - 1 \in 0 .. Len(SignalflowList)
  <2>1. Len(SignalflowList) \in Nat
    BY ExecGraphAssumption, AscendingFacts DEF SignalflowList, ExecGraphAssumption
  <2> QED BY <2>1
<1>6. PICK ds : ds = SignalPushed(<<calls + 1>>, ems, n - 1)
  OBVIOUS
<1>7. /\ ds \in Seq(Deliveries) /\ Sorted(ds)
      /\ \A i \in DOMAIN ds : Len(ds[i].ev) >= 1 /\ ds[i].ev[1] = calls + 1
  BY <1>3, <1>4, <1>5, <1>6, SignalCallFacts
<1>8. stack' \in Seq(Deliveries) /\ StackInv' /\ calls' \in 0 .. MaxCalls
  <2>1. stack' = stack \o ds /\ pushed' = pushed \union Paths(ds)
    BY <1>2, <1>6
  <2> QED BY <1>1, <1>7, <2>1, CallFacts
<1>9. insights' \in Seq(ContraHandlers)
  BY <1>2, <1>3, SignalInsightsFacts DEF GraphTypes
<1>10. errors' \in 0 .. MaxErrors /\ errors' # 0
  BY <1>1, <1>3, ExecGraphAssumption DEF GraphTypes, ExecGraphAssumption
<1>11. GraphTypes'
  BY <1>1, <1>3, <1>4, <1>8, <1>9, <1>10 DEF GraphTypes
<1>12. CompleteInv' /\ ReturnsInv'
  BY <1>10 DEF CompleteInv, ReturnsInv
<1>13. OutputsInv'
  BY <1>1, <1>3 DEF OutputsInv
<1>14. MetricsInv'
  BY <1>1, <1>3, MetricsKept
<1> QED BY <1>8, <1>11, <1>12, <1>13, <1>14 DEF GraphInv

\* Time does not wrap around between two times that go up.
LEMMA SmallRemainder == ASSUME NEW w \in Nat, NEW x \in 0 .. w - 1 PROVE x % w = x
OBVIOUS

\* Metrics are emitted.
LEMMA MetricsFlush ==
  ASSUME GraphTypes, MetricsInv, NEW t \in Ingests, MetricsDue(t), EmitMetrics(t)
  PROVE  MetricsInv' /\ lastMetrics' \in Ingests /\ flushes' \in Seq(Ingests)
<1>1. lastMetrics' = t /\ flushes' = Append(flushes, t)
  BY DEF EmitMetrics
<1>2. flushes \in Seq(Ingests)
  BY DEF GraphTypes
<1>3. Ingests \subseteq 0 .. Word - 1 /\ Word \in Nat /\ Interval \in 0 .. Word - 1
  BY ExecGraphAssumption DEF ExecGraphAssumption
<1>4. PICK n \in Nat : n = Len(flushes) /\ DOMAIN flushes = 1 .. n
  BY <1>2
<1>5. /\ flushes' \in Seq(Ingests) /\ Len(flushes') = n + 1 /\ flushes'[n + 1] = t
      /\ \A i \in 1 .. n : flushes'[i] = flushes[i]
  BY <1>1, <1>2, <1>4
<1>6. ASSUME NEW i \in 1 .. n, flushes'[i + 1] >= flushes'[i]
      PROVE  flushes'[i + 1] - flushes'[i] > Interval
  <2>1. CASE i = n
    <3>1. lastMetrics = flushes[n] /\ flushes'[i] = flushes[n] /\ flushes[n] \in Ingests
      <4>1. flushes # <<>>
        BY <1>4
      <4> QED BY <1>2, <1>4, <1>5, <2>1, <4>1 DEF MetricsInv
    <3>2. t - lastMetrics \in 0 .. Word - 1
      <4>1. PICK x \in 0 .. Word - 1 : x = t
        BY <1>3, Zenon
      <4>2. PICK y \in 0 .. Word - 1 : y = lastMetrics
        BY <1>3, <3>1, Zenon
      <4>3. x >= y
        BY <1>5, <1>6, <2>1, <3>1, <4>1, <4>2
      <4>4. x - y \in 0 .. Word - 1
        BY <1>3, <4>3
      <4> QED BY <4>1, <4>2, <4>4
    <3>3. (t - lastMetrics) % Word = t - lastMetrics
      BY <1>3, <3>2, SmallRemainder
    <3>4. t - lastMetrics > Interval
      BY <3>3 DEF MetricsDue
    <3> QED BY <1>5, <2>1, <3>1, <3>4
  <2>2. CASE i # n
    <3>1. i \in 1 .. n - 1 /\ i + 1 \in 1 .. n
      BY <2>2
    <3>2. flushes'[i + 1] = flushes[i + 1] /\ flushes'[i] = flushes[i]
      BY <1>5, <3>1
    <3> QED BY <1>4, <1>6, <3>1, <3>2 DEF MetricsInv, MetricsPaced
  <2> QED BY <2>1, <2>2
<1>7. MetricsPaced'
  BY <1>5, <1>6 DEF MetricsPaced
<1>8. lastMetrics' = flushes'[Len(flushes')]
  BY <1>1, <1>5
<1> QED BY <1>1, <1>5, <1>7, <1>8 DEF MetricsInv

\* Deliveries of call c, in the order of the emissions.
NewDeliveries(ds, c) ==
    /\ ds \in Seq(Deliveries) /\ Sorted(ds)
    /\ \A i \in DOMAIN ds : Len(ds[i].ev) >= 1 /\ ds[i].ev[1] = c

\* Nothing, or one delivery with path p.
AtMostOne(s, p) ==
    /\ s \in Seq(Deliveries) /\ DOMAIN s \subseteq {1}
    /\ \A i \in DOMAIN s : s[i].ev = p

LEMMA NoneIsFew == ASSUME NEW p PROVE AtMostOne(<<>>, p)
BY DEF AtMostOne

LEMMA OneIsFew ==
  ASSUME NEW d \in Deliveries, NEW p, d.ev = p, NEW s, s = [j \in 1 .. 1 |-> d]
  PROVE  AtMostOne(s, p)
<1>1. s \in [1 .. 1 -> Deliveries] /\ s[1] = d
  OBVIOUS
<1>2. s \in Seq(Deliveries)
  BY <1>1
<1>3. DOMAIN s \subseteq {1}
  BY <1>1
<1> QED BY <1>1, <1>2, <1>3 DEF AtMostOne

LEMMA FewAreSorted == ASSUME NEW s, NEW p, AtMostOne(s, p) PROVE Sorted(s)
<1>1. \A i, j \in DOMAIN s : ~(i < j)
  BY DEF AtMostOne
<1> QED BY <1>1 DEF Sorted

\* The deliveries enqueue pushes: metrics, and the event on top of them.
LEMMA EventIsFew ==
  ASSUME NEW e \in Seq(Nat), NEW event, event \in {<<Delivery(Entry, e, FALSE)>>, <<>>}
  PROVE  AtMostOne(event, e)
<1>1. Entry \in Nodes /\ FALSE \in BOOLEAN
  BY ExecGraphAssumption DEF ExecGraphAssumption, Nodes
<1>2. PICK d \in Deliveries : d = Delivery(Entry, e, FALSE) /\ d.ev = e
  BY <1>1, DeliveryFacts, Zenon
<1>3. <<d>> = [j \in 1 .. 1 |-> d]
  OBVIOUS
<1>4. AtMostOne(<<d>>, e)
  BY <1>2, <1>3, OneIsFew
<1> QED BY <1>2, <1>4, NoneIsFew, Zenon

LEMMA MetricsAreFew ==
  ASSUME NEW c \in Nat, NEW m \in {0, 1}, NEW p \in Seq(Nat), p = <<c, 0, 1>>
  PROVE  AtMostOne(MetricDeliveries(c, m), p)
<1>1. MetricsNode \in Nodes /\ FALSE \in BOOLEAN
  BY DEF Nodes
<1>2. PICK d \in Deliveries : d = Delivery(MetricsNode, p, FALSE) /\ d.ev = p
  BY <1>1, EventDelivery, ZenonT(60)
<1>3. CASE m = 0
  <2>1. MetricDeliveries(c, m) = <<>>
    BY <1>3 DEF MetricDeliveries
  <2> QED BY <2>1, NoneIsFew
<1>4. CASE m = 1
  <2>1. MetricDeliveries(c, m) = [j \in 1 .. 1 |-> d]
    <3>1. ASSUME NEW j \in 1 .. 1 PROVE Delivery(MetricsNode, <<c, 0, j>>, FALSE) = d
      <4>1. j = 1
        OBVIOUS
      <4> QED BY <1>2, <4>1, Zenon
    <3> QED BY <1>4, <3>1, Zenon DEF MetricDeliveries
  <2> QED BY <1>2, <2>1, OneIsFew
<1> QED BY <1>3, <1>4

LEMMA EnqueuePushes ==
  ASSUME NEW c \in Nat, NEW m \in {0, 1}, NEW metrics, metrics \in {MetricDeliveries(c, m), <<>>},
         NEW event, event \in {<<Delivery(Entry, <<c, 1>>, FALSE)>>, <<>>}
  PROVE  /\ metrics \in Seq(Deliveries) /\ event \in Seq(Deliveries)
         /\ NewDeliveries(metrics \o event, c)
<1>1. PICK e \in Seq(Nat) : e = <<c, 1>> /\ Len(e) = 2 /\ e[1] = c /\ e[2] = 1
  <2>1. <<c, 1>> \in Seq(Nat) /\ Len(<<c, 1>>) = 2 /\ <<c, 1>>[1] = c /\ <<c, 1>>[2] = 1
    OBVIOUS
  <2> QED BY <2>1
<1>2. PICK p \in Seq(Nat) : p = <<c, 0, 1>> /\ Len(p) = 3 /\ p[1] = c /\ p[2] = 0
  <2>1. <<c, 0, 1>> \in Seq(Nat) /\ Len(<<c, 0, 1>>) = 3 /\ <<c, 0, 1>>[1] = c /\ <<c, 0, 1>>[2] = 0
    OBVIOUS
  <2> QED BY <2>1
<1>3. AtMostOne(event, e)
  BY <1>1, EventIsFew, Zenon
<1>4. AtMostOne(metrics, p)
  BY <1>2, MetricsAreFew, NoneIsFew, Zenon
<1>5. metrics \in Seq(Deliveries) /\ event \in Seq(Deliveries)
  BY <1>3, <1>4 DEF AtMostOne
<1>6. Earlier(p, e)
  <2>1. DiffersAt(p, e, 2)
    BY <1>1, <1>2 DEF DiffersAt
  <2> QED BY <2>1, EarlierIs
<1>7. \A i \in DOMAIN metrics : \A j \in DOMAIN event : Earlier(metrics[i].ev, event[j].ev)
  BY <1>3, <1>4, <1>6, Zenon DEF AtMostOne
<1>8. metrics \o event \in Seq(Deliveries) /\ Sorted(metrics \o event)
  <2>1. Sorted(metrics) /\ Sorted(event)
    BY <1>3, <1>4, FewAreSorted
  <2> QED BY <1>5, <1>7, <2>1, SortedJoin
<1>9. ASSUME NEW i \in DOMAIN (metrics \o event)
      PROVE  (metrics \o event)[i].ev \in {p, e}
  <2>1. \/ \E j \in DOMAIN metrics : (metrics \o event)[i] = metrics[j]
        \/ \E j \in DOMAIN event : (metrics \o event)[i] = event[j]
    BY <1>5, JoinedElements
  <2> QED BY <1>3, <1>4, <2>1, Zenon DEF AtMostOne
<1>10. \A x \in {p, e} : Len(x) >= 1 /\ x[1] = c
  BY <1>1, <1>2
<1> QED BY <1>5, <1>8, <1>9, <1>10 DEF NewDeliveries

LEMMA EventCall == ASSUME GraphInv, Enqueue PROVE GraphInv'
<1>1. ~running /\ calls < MaxCalls /\ calls' = calls + 1
      /\ UNCHANGED <<wires, returns, insights, budget, handled, delivered>>
  BY DEF Enqueue
<1>2. PICK c : c = calls + 1
  OBVIOUS
<1>3. PICK t \in Ingests, m \in {0, 1}, known \in BOOLEAN :
       \E metrics, event :
         /\ metrics = IF MetricsDue(t) THEN MetricDeliveries(c, m) ELSE <<>>
         /\ event = IF known THEN <<Delivery(Entry, <<c, 1>>, FALSE)>> ELSE <<>>
         /\ IF MetricsDue(t) THEN EmitMetrics(t) ELSE m = 0 /\ UNCHANGED <<lastMetrics, flushes>>
         /\ known \/ errors < MaxErrors
         /\ stack' = stack \o metrics \o event
         /\ pushed' = pushed \union Paths(metrics \o event)
         /\ running' = known
         /\ errors' = IF known THEN errors ELSE errors + 1
  BY <1>2 DEF Enqueue
<1>3a. PICK metrics, event :
         /\ metrics = IF MetricsDue(t) THEN MetricDeliveries(c, m) ELSE <<>>
         /\ event = IF known THEN <<Delivery(Entry, <<c, 1>>, FALSE)>> ELSE <<>>
         /\ IF MetricsDue(t) THEN EmitMetrics(t) ELSE m = 0 /\ UNCHANGED <<lastMetrics, flushes>>
         /\ known \/ errors < MaxErrors
         /\ stack' = stack \o metrics \o event
         /\ pushed' = pushed \union Paths(metrics \o event)
         /\ running' = known
         /\ errors' = IF known THEN errors ELSE errors + 1
  BY <1>3
<1>4. GraphTypes /\ StackInv /\ CompleteInv /\ ReturnsInv /\ OutputsInv /\ MetricsInv
  BY DEF GraphInv
<1>5. c \in Nat
  BY <1>2, <1>4, ExecGraphAssumption DEF GraphTypes, ExecGraphAssumption
<1>6. metrics \in {MetricDeliveries(c, m), <<>>} /\ event \in {<<Delivery(Entry, <<c, 1>>, FALSE)>>, <<>>}
  BY <1>3a
<1>7. metrics \in Seq(Deliveries) /\ event \in Seq(Deliveries) /\ NewDeliveries(metrics \o event, c)
  BY <1>5, <1>6, EnqueuePushes, Zenon
<1>8. PICK ds \in Seq(Deliveries) : /\ ds = metrics \o event /\ Sorted(ds)
                                    /\ \A i \in DOMAIN ds : Len(ds[i].ev) >= 1 /\ ds[i].ev[1] = calls + 1
  BY <1>2, <1>7, Zenon DEF NewDeliveries
<1>9. stack' = stack \o ds
  <2>1. stack \in Seq(Deliveries)
    BY <1>4 DEF GraphTypes
  <2>2. (stack \o metrics) \o event = stack \o (metrics \o event)
    BY <1>7, <2>1
  <2> QED BY <1>3a, <1>8, <2>2
<1>10. errors' \in {errors, errors + 1} /\ errors' \in 0 .. MaxErrors /\ (errors' = 0 => running' = TRUE)
  BY <1>3a, <1>4, ExecGraphAssumption DEF GraphTypes, ExecGraphAssumption
<1>11. /\ stack' \in Seq(Deliveries) /\ StackInv' /\ calls' \in 0 .. MaxCalls
       /\ errors' = 0 => /\ errors = 0 /\ stack' = ds /\ returns = <<>>
                         /\ pushed' = Paths(handled') \union Paths(stack')
       /\ LastFirst(stack', <<>>)
  BY <1>1, <1>3a, <1>8, <1>9, <1>10, CallFacts
<1>12. MetricsInv' /\ lastMetrics' \in Ingests \union {0} /\ flushes' \in Seq(Ingests)
  <2>1. CASE MetricsDue(t)
    BY <1>3a, <1>4, <2>1, MetricsFlush
  <2>2. CASE ~MetricsDue(t)
    BY <1>3a, <1>4, <2>2, MetricsKept DEF GraphTypes
  <2> QED BY <2>1, <2>2
<1>13. running' \in BOOLEAN
  BY <1>3a
<1>14. GraphTypes'
  BY <1>1, <1>4, <1>10, <1>11, <1>12, <1>13 DEF GraphTypes
<1>15. CompleteInv'
  BY <1>10, <1>11 DEF CompleteInv, Paths
<1>16. ReturnsInv'
  BY <1>1, <1>4, <1>10, <1>11 DEF ReturnsInv
<1>17. OutputsInv'
  BY <1>1, <1>4 DEF OutputsInv
<1> QED BY <1>11, <1>12, <1>14, <1>15, <1>16, <1>17 DEF GraphInv

-----------------------------------------------------------------------------
(* The invariant.                                                          *)

LEMMA GraphInitially == ASSUME Init PROVE GraphInv
<1>1. /\ wires \in Graphs /\ running = FALSE /\ lastMetrics = 0 /\ calls = 0 /\ errors = 0 /\ budget = MaxEmit
      /\ stack = <<>> /\ returns = <<>> /\ insights = <<>> /\ handled = <<>> /\ delivered = <<>>
      /\ flushes = <<>> /\ pushed = {}
  BY DEF Init
<1>2. MaxCalls \in Nat /\ MaxErrors \in Nat /\ MaxEmit \in Nat
  BY ExecGraphAssumption DEF ExecGraphAssumption
<1>3. GraphTypes
  <2>1. /\ <<>> \in Seq(Deliveries) /\ <<>> \in Seq(Seq(Deliveries))
        /\ <<>> \in Seq(ContraHandlers) /\ <<>> \in Seq(Ingests)
    OBVIOUS
  <2>2. calls \in 0 .. MaxCalls /\ errors \in 0 .. MaxErrors /\ budget \in 0 .. MaxEmit
    BY <1>1, <1>2
  <2> QED BY <1>1, <2>1, <2>2, Zenon DEF GraphTypes
<1>4. StackInv
  BY <1>1 DEF StackInv, Sorted
<1>5. CompleteInv
  <2>1. Paths(<<>>) = {}
    BY DEF Paths
  <2> QED BY <1>1, <2>1 DEF CompleteInv
<1>6. ReturnsInv
  BY <1>1 DEF ReturnsInv, LastFirst
<1>7. OutputsInv
  <2>1. FlattenSeq(delivered) = <<>>
    BY <1>1, FlattenEmpty
  <2>2. Range(<<>>) = {} /\ Outputs(<<>>) = {} /\ Distinct(<<>>)
    BY DEF Range, Outputs, Distinct
  <2> QED BY <1>1, <2>1, <2>2 DEF OutputsInv, OutputsAre
<1>8. MetricsInv
  BY <1>1 DEF MetricsInv, MetricsPaced
<1> QED BY <1>3, <1>4, <1>5, <1>6, <1>7, <1>8 DEF GraphInv

\* None of the invariant's parts speaks of visited.
LEMMA GraphUnchanged ==
  ASSUME GraphInv, UNCHANGED <<wires, stack, returns, insights, lastMetrics, running, calls,
                               budget, errors, pushed, handled, delivered, flushes>>
  PROVE  GraphInv'
<1>1. GraphTypes /\ StackInv /\ CompleteInv /\ ReturnsInv /\ OutputsInv /\ MetricsInv
  BY DEF GraphInv
<1>2. GraphTypes'
  BY <1>1 DEF GraphTypes
<1>3. StackInv'
  BY <1>1 DEF StackInv
<1>4. CompleteInv'
  BY <1>1 DEF CompleteInv, Paths
<1>5. ReturnsInv'
  BY <1>1 DEF ReturnsInv
<1>6. OutputsInv'
  BY <1>1 DEF OutputsInv
<1>7. MetricsInv'
  BY <1>1, MetricsKept
<1> QED BY <1>2, <1>3, <1>4, <1>5, <1>6, <1>7 DEF GraphInv

\* Every step keeps the invariant: the stack of deliveries stays sorted by the
\* order of the emissions, and nothing on it was handled before
\* (executable_graph.rs:428-567).
THEOREM GraphInvariant == Spec => []GraphInv
<1>1. Init => GraphInv
  BY GraphInitially
<1>2. GraphInv /\ [Next]_vars => GraphInv'
  <2>1. ASSUME GraphInv, Enqueue PROVE GraphInv'
    BY <2>1, EventCall
  <2>2. ASSUME GraphInv, EnqueueSignal PROVE GraphInv'
    BY <2>2, SignalCall
  <2>3. ASSUME GraphInv, EnqueueSignalFails PROVE GraphInv'
    BY <2>3, SignalCallFails
  <2>4. ASSUME GraphInv, Contraflow PROVE GraphInv'
    <3>1. UNCHANGED <<wires, stack, returns, insights, lastMetrics, running, calls,
                      budget, errors, pushed, handled, delivered, flushes>>
      BY <2>4 DEF Contraflow
    <3> QED BY <2>4, <3>1, GraphUnchanged
  <2>5. ASSUME GraphInv, Step PROVE GraphInv'
    BY <2>5, OutputStep, EventStep, SignalStep, FailStep, EmptyStep DEF Step
  <2>6. ASSUME GraphInv, UNCHANGED vars PROVE GraphInv'
    <3>1. UNCHANGED <<wires, stack, returns, insights, lastMetrics, running, calls,
                      budget, errors, pushed, handled, delivered, flushes>>
      BY <2>6 DEF vars
    <3> QED BY <2>6, <3>1, GraphUnchanged
  <2> QED BY <2>1, <2>2, <2>3, <2>4, <2>5, <2>6 DEF Next
<1> QED BY <1>1, <1>2, PTL DEF Spec

\* No delivery is handled twice, and a call that ends without an error leaves
\* nothing it emitted behind, whatever the operators emit and however the calls
\* before it failed (executable_graph.rs:447-567).
THEOREM NothingRunTwice == Spec => []HandledExactlyOnce
<1>1. GraphInv => HandledExactlyOnce
  <2>1. ASSUME GraphInv, ~running, errors = 0 PROVE Paths(handled) = pushed
    <3>1. pushed = Paths(handled) \union Paths(stack) /\ stack = <<>>
      BY <2>1 DEF GraphInv, CompleteInv
    <3>2. Paths(<<>>) = {}
      BY DEF Paths
    <3> QED BY <3>1, <3>2
  <2> QED BY <2>1 DEF GraphInv, StackInv, HandledExactlyOnce
<1> QED BY <1>1, GraphInvariant, PTL

LEMMA GraphIsTyped == ASSUME GraphInv PROVE TypeOK
<1>1. GraphTypes /\ OutputsInv
  BY DEF GraphInv
<1>2. ASSUME NEW i \in DOMAIN stack PROVE stack[i].node \in Nodes /\ stack[i].sig \in BOOLEAN
  <2>1. stack[i] \in Deliveries
    BY <1>1, EvFacts DEF GraphTypes
  <2> QED BY <2>1 DEF Deliveries
<1>3. ASSUME NEW i \in DOMAIN returns PROVE returns[i].node \in Nodes \ Ops /\ ~returns[i].sig
  <2>1. returns[i] \in Deliveries
    BY <1>1, EvFacts DEF GraphTypes
  <2>2. returns[i] \in Outputs(handled)
    BY <1>1, Zenon DEF OutputsInv, OutputsAre, Range
  <2>3. ~returns[i].sig /\ returns[i].node \notin Ops
    BY <2>2, Zenon DEF Outputs
  <2> QED BY <2>1, <2>3 DEF Deliveries
<1> QED BY <1>1, <1>2, <1>3 DEF GraphTypes, TypeOK

LEMMA OutputsKept == ASSUME GraphInv PROVE OutputsNeitherLostNorDoubled
<1>1. PICK f \in Seq(Deliveries) : f = FlattenSeq(delivered)
  BY FlattenFacts DEF GraphInv, GraphTypes
<1>2. returns \in Seq(Deliveries) /\ OutputsAre(f, returns, handled)
  BY <1>1 DEF GraphInv, GraphTypes, OutputsInv
<1>3. PICK all : all = f \o returns /\ Joined(f, returns, all)
  BY <1>2, JoinFacts
<1>4. Range(all) = Range(f) \union Range(returns)
  <2>1. \A i \in DOMAIN all : (\E j \in DOMAIN f : all[i] = f[j]) \/ (\E j \in DOMAIN returns : all[i] = returns[j])
    BY <1>3 DEF Joined
  <2>2. \A j \in DOMAIN f : \E i \in DOMAIN all : all[i] = f[j]
    BY <1>3 DEF Joined
  <2>3. \A j \in DOMAIN returns : \E i \in DOMAIN all : all[i] = returns[j]
    BY <1>3 DEF Joined
  <2> QED BY <2>1, <2>2, <2>3, RangeUnion
<1>5. ASSUME NEW i \in DOMAIN all, NEW j \in DOMAIN all, i # j PROVE all[i] # all[j]
  <2>1. \A x \in DOMAIN f : \A y \in DOMAIN returns : f[x] # returns[y]
    BY <1>2, Zenon DEF OutputsAre, Range
  <2>2. CASE i \in DOMAIN f /\ j \in DOMAIN f
    BY <1>2, <1>3, <1>5, <2>2 DEF Joined, OutputsAre, Distinct
  <2>3. CASE i \in DOMAIN f /\ j \notin DOMAIN f
    BY <1>3, <2>1, <2>3 DEF Joined
  <2>4. CASE i \notin DOMAIN f /\ j \in DOMAIN f
    BY <1>3, <2>1, <2>4 DEF Joined
  <2>5. CASE i \notin DOMAIN f /\ j \notin DOMAIN f
    <3>1. i - Len(f) \in DOMAIN returns /\ j - Len(f) \in DOMAIN returns /\ i - Len(f) # j - Len(f)
          /\ all[i] = returns[i - Len(f)] /\ all[j] = returns[j - Len(f)]
      BY <1>3, <1>5, <2>5 DEF Joined
    <3> QED BY <1>2, <3>1 DEF OutputsAre, Distinct
  <2> QED BY <2>2, <2>3, <2>4, <2>5
<1>6. Range(all) = Outputs(handled)
  BY <1>2, <1>4 DEF OutputsAre
<1> QED BY <1>1, <1>3, <1>5, <1>6 DEF OutputsNeitherLostNorDoubled

\* What leaves a graph is exactly what reached its outputs: each output event is
\* handed over once, by its own call or after a failure by the next, and without
\* failures in the order of the emissions; the metrics among them keep their
\* interval (executable_graph.rs:428-567).
THEOREM OutputsAreExact == Spec => []OutputsExact
<1>1. ASSUME GraphInv PROVE OutputsExact
  <2>1. OutputsInOrder
    BY <1>1 DEF GraphInv, ReturnsInv, Sorted, OutputsInOrder
  <2>2. MetricsPaced
    BY <1>1 DEF GraphInv, MetricsInv
  <2> QED BY <1>1, <2>1, <2>2, GraphIsTyped, OutputsKept DEF OutputsExact
<1> QED BY <1>1, GraphInvariant, PTL

-----------------------------------------------------------------------------
(* Contraflow.                                                             *)

\* w goes through exactly S, later declared operators first.
Visits(w, S) ==
    /\ \A a, b \in DOMAIN w : a < b => w[a] > w[b]
    /\ \A x \in S : \E a \in DOMAIN w : w[a] = x
    /\ \A a \in DOMAIN w : w[a] \in S

\* The handlers declared before operator n.
HandlersBefore(n) == {x \in ContraHandlers : x < n}

RaisedInv ==
    /\ raised \in Seq(ContraHandlers) /\ propagated \in Seq(ContraHandlers)
    /\ raised = propagated \o insights

VisitedInv ==
    \A v \in visited : v = <<OutNode, ContraflowList>> \/ \E n \in ContraHandlers : v = <<n, VisitedAfter(n)>>

LEMMA HandlersAreNumbers == ContraHandlers \in SUBSET Ops /\ ContraHandlers \subseteq Nat /\ Ops \subseteq Nat
BY ExecGraphAssumption DEF ExecGraphAssumption

LEMMA ListFacts ==
  /\ ContraflowList \in Seq(ContraHandlers) /\ Len(ContraflowList) \in Nat
  /\ DOMAIN ContraflowList = 1 .. Len(ContraflowList) /\ Visits(ContraflowList, ContraHandlers)
<1>1. PICK s : s = Ascending(ContraHandlers)
  OBVIOUS
<1>2. /\ s \in Seq(ContraHandlers)
      /\ \A i, j \in DOMAIN s : i < j => s[i] < s[j]
      /\ \A x \in ContraHandlers : \E i \in DOMAIN s : s[i] = x
  BY <1>1, HandlersAreNumbers, AscendingFacts
<1>3. PICK n \in Nat : n = Len(s) /\ DOMAIN s = 1 .. n
  BY <1>2
<1>4. PICK u : u = ContraflowList
  OBVIOUS
<1>5. u = [i \in 1 .. n |-> s[(n - i) + 1]]
  BY <1>1, <1>3, <1>4 DEF ContraflowList, Reverse
<1>6. \A i \in 1 .. n : (n - i) + 1 \in 1 .. n /\ s[(n - i) + 1] \in ContraHandlers /\ (n - ((n - i) + 1)) + 1 = i
  BY <1>2, <1>3
<1>7. u \in Seq(ContraHandlers) /\ DOMAIN u = 1 .. n /\ Len(u) = n /\ \A i \in 1 .. n : u[i] = s[(n - i) + 1]
  BY <1>5, <1>6
<1>8. ASSUME NEW a \in 1 .. n, NEW b \in 1 .. n, a < b PROVE u[a] > u[b]
  <2>1. PICK i \in 1 .. n : i = (n - a) + 1
    BY <1>6
  <2>2. PICK j \in 1 .. n : j = (n - b) + 1
    BY <1>6
  <2>3. j < i
    BY <1>8, <2>1, <2>2
  <2>4. s[j] < s[i] /\ s[j] \in Nat /\ s[i] \in Nat
    <3>1. s[j] < s[i]
      BY <1>2, <1>3, <2>3
    <3>2. s[j] \in ContraHandlers /\ s[i] \in ContraHandlers
      BY <1>2, <1>3
    <3> QED BY <3>1, <3>2, HandlersAreNumbers
  <2> QED BY <1>7, <2>1, <2>2, <2>4
<1>9. ASSUME NEW x \in ContraHandlers PROVE \E a \in 1 .. n : u[a] = x
  <2>1. PICK i \in 1 .. n : s[i] = x
    BY <1>2, <1>3
  <2>2. PICK j \in 1 .. n : j = (n - i) + 1 /\ (n - j) + 1 = i
    BY <1>6
  <2> QED BY <1>7, <2>1, <2>2
<1>10. Visits(u, ContraHandlers)
  <2>1. \A a \in DOMAIN u : u[a] \in ContraHandlers
    BY <1>6, <1>7
  <2> QED BY <1>7, <1>8, <1>9, <2>1 DEF Visits
<1> QED BY <1>4, <1>7, <1>10

\* contraflow(Some(n)) goes through all handlers declared before n.
LEMMA AfterFacts ==
  ASSUME NEW n \in ContraHandlers
  PROVE  Visits(VisitedAfter(n), HandlersBefore(n)) /\ DOMAIN VisitedAfter(n) \subseteq Nat
<1>1. PICK c \in Seq(ContraHandlers) : c = ContraflowList /\ Visits(c, ContraHandlers)
  BY ListFacts
<1>2. PICK m \in Nat : m = Len(c) /\ DOMAIN c = 1 .. m
  <2>1. Len(c) \in Nat /\ DOMAIN c = 1 .. Len(c)
    OBVIOUS
  <2> QED BY <2>1
<1>3. PICK idx : idx = {i \in DOMAIN c : c[i] = n}
  OBVIOUS
<1>4. idx # {}
  BY <1>1, <1>3 DEF Visits
<1>5. PICK k \in 1 .. m : k = (CHOOSE i \in idx : TRUE) /\ c[k] = n
  <2>1. (CHOOSE i \in idx : TRUE) \in idx
    BY <1>4
  <2> QED BY <1>2, <1>3, <2>1
<1>6. PICK w : w = VisitedAfter(n)
  OBVIOUS
<1>7. w = SubSeq(c, 1 + k, m)
  BY <1>1, <1>2, <1>3, <1>4, <1>5, <1>6, Zenon DEF VisitedAfter
<1>8. DOMAIN w = 1 .. m - k /\ \A x \in 1 .. m - k : x + k \in 1 .. m /\ w[x] = c[x + k]
  BY <1>2, <1>7
<1>9. ASSUME NEW a \in DOMAIN w, NEW b \in DOMAIN w, a < b PROVE w[a] > w[b]
  <2>1. w[a] = c[a + k] /\ w[b] = c[b + k] /\ a + k \in 1 .. m /\ b + k \in 1 .. m /\ a + k < b + k
    BY <1>8, <1>9
  <2> QED BY <1>1, <1>2, <2>1 DEF Visits
<1>10. ASSUME NEW x \in HandlersBefore(n) PROVE \E a \in DOMAIN w : w[a] = x
  <2>1. x \in ContraHandlers /\ x < n /\ x \in Nat /\ n \in Nat
    BY HandlersAreNumbers DEF HandlersBefore
  <2>2. PICK j \in 1 .. m : c[j] = x
    BY <1>1, <1>2, <2>1 DEF Visits
  <2>3. j > k
    <3>1. j # k
      <4>1. x # n
        BY <2>1
      <4> QED BY <1>5, <2>2, <4>1, Zenon
    <3>2. ASSUME j < k PROVE FALSE
      <4>1. c[j] > c[k]
        BY <1>1, <1>2, <3>2 DEF Visits
      <4> QED BY <1>5, <2>1, <2>2, <4>1
    <3> QED BY <3>1, <3>2
  <2>4. PICK a \in 1 .. m - k : a + k = j
    BY <2>3
  <2> QED BY <1>8, <2>2, <2>4
<1>11. DOMAIN w \subseteq Nat
  BY <1>8
<1>12. ASSUME NEW a \in DOMAIN w PROVE w[a] \in HandlersBefore(n)
  <2>1. PICK y \in 1 .. m : y = a + k /\ w[a] = c[y] /\ k < y
    BY <1>8
  <2>2. c[k] > c[y] /\ c[y] \in ContraHandlers
    BY <1>1, <1>2, <2>1 DEF Visits
  <2> QED BY <1>5, <2>1, <2>2, HandlersAreNumbers DEF HandlersBefore
<1> QED BY <1>6, <1>9, <1>10, <1>11, <1>12 DEF Visits

\* Later declared first, so the order is that of the flow, reversed.
LEMMA VisitsPrecede ==
  ASSUME NEW w, DOMAIN w \subseteq Nat, NEW S \in SUBSET Nat, Visits(w, S), NEW i \in S, NEW j \in S, i < j
  PROVE  Precedes(w, j, i)
<1>1. PICK a \in DOMAIN w : w[a] = j
  BY DEF Visits
<1>2. PICK b \in DOMAIN w : w[b] = i
  BY DEF Visits
<1>3. a # b /\ ~(b < a)
  <2>1. a # b
    BY <1>1, <1>2
  <2>2. ASSUME b < a PROVE FALSE
    <3>1. w[b] > w[a]
      BY <2>2 DEF Visits
    <3> QED BY <1>1, <1>2, <3>1
  <2> QED BY <2>1, <2>2
<1>4. a < b
  BY <1>3
<1> QED BY <1>1, <1>2, <1>4 DEF Precedes

\* The new insights of a step are kept behind the older ones, or all of them
\* are propagated.
LEMMA InsightsJoin ==
  ASSUME RaisedInv, insights \in Seq(ContraHandlers), NEW new \in Seq(ContraHandlers), raised' = raised \o new,
         \/ insights' = insights \o new /\ propagated' = propagated
         \/ insights' = <<>> /\ propagated' = propagated \o (insights \o new)
  PROVE  RaisedInv'
<1>1. PICK p \in Seq(ContraHandlers), i \in Seq(ContraHandlers) : p = propagated /\ i = insights /\ raised = p \o i
  BY DEF RaisedInv
<1>2. raised' = (p \o i) \o new
  BY <1>1
<1>3. (p \o i) \o new = p \o (i \o new) /\ (p \o i) \o new \in Seq(ContraHandlers)
      /\ p \o (i \o new) = (p \o (i \o new)) \o <<>>
  OBVIOUS
<1>4. CASE insights' = insights \o new /\ propagated' = propagated
  BY <1>1, <1>2, <1>3, <1>4 DEF RaisedInv
<1>5. CASE insights' = <<>> /\ propagated' = propagated \o (insights \o new)
  <2>1. propagated' = p \o (i \o new)
    BY <1>1, <1>5
  <2> QED BY <1>2, <1>3, <1>5, <2>1 DEF RaisedInv
<1> QED BY <1>4, <1>5

\* The insights of a call are propagated.
LEMMA VisitedMore ==
  ASSUME VisitedInv, RaisedInv, insights \in Seq(ContraHandlers), NEW rets, NEW new \in Seq(ContraHandlers),
         HandOver(rets, insights \o new), raised' = raised \o new
  PROVE  VisitedInv' /\ RaisedInv'
<1>1. PICK ins \in Seq(ContraHandlers) : ins = insights \o new
  <2>1. insights \o new \in Seq(ContraHandlers)
    OBVIOUS
  <2> QED BY <2>1, Zenon
<1>2. /\ visited' = visited \union {<<ins[i], VisitedAfter(ins[i])>> : i \in DOMAIN ins}
      /\ insights' = <<>> /\ propagated' = propagated \o ins
  BY <1>1 DEF HandOver
<1>3. \A i \in DOMAIN ins : ins[i] \in ContraHandlers
  OBVIOUS
<1>4. VisitedInv'
  BY <1>2, <1>3, Zenon DEF VisitedInv
<1> QED BY <1>1, <1>2, <1>4, InsightsJoin

LEMMA VisitedContinues ==
  ASSUME VisitedInv, RaisedInv, insights \in Seq(ContraHandlers), NEW st, NEW rets, NEW new \in Seq(ContraHandlers),
         ContinueOrReturn(st, rets, insights \o new), raised' = raised \o new
  PROVE  VisitedInv' /\ RaisedInv'
<1>1. CASE st = <<>>
  <2>1. HandOver(Reverse(rets), insights \o new)
    BY <1>1 DEF ContinueOrReturn
  <2> QED BY <2>1, VisitedMore
<1>2. CASE st # <<>>
  <2>1. visited' = visited /\ propagated' = propagated /\ insights' = insights \o new
    BY <1>2 DEF ContinueOrReturn
  <2>2. VisitedInv'
    BY <2>1 DEF VisitedInv
  <2> QED BY <2>1, <2>2, InsightsJoin
<1> QED BY <1>1, <1>2

LEMMA NothingRaised ==
  ASSUME RaisedInv, insights \in Seq(ContraHandlers), raised' = raised
  PROVE  raised' = raised \o <<>> /\ insights \o <<>> = insights /\ <<>> \in Seq(ContraHandlers)
BY DEF RaisedInv

LEMMA VisitedStep == ASSUME GraphInv, VisitedInv, RaisedInv, [Next]_vars PROVE VisitedInv' /\ RaisedInv'
<1>1. insights \in Seq(ContraHandlers)
  BY DEF GraphInv, GraphTypes
<1>2. ASSUME visited' = visited PROVE VisitedInv'
  BY <1>2 DEF VisitedInv
<1>3. ASSUME NEW hs \in SUBSET (SignalHandlers \intersect ContraHandlers)
      PROVE  SignalInsights(hs) \in Seq(ContraHandlers)
  <2>1. <<>> \in Seq(ContraHandlers)
    OBVIOUS
  <2>2. <<>> \o SignalInsights(hs) \in Seq(ContraHandlers)
    BY <2>1, SignalInsightsFacts
  <2>3. SignalInsights(hs) \in Seq(hs)
    BY AscendingFacts, ExecGraphAssumption DEF SignalInsights, ExecGraphAssumption
  <2> QED BY <2>3
<1>4. CASE Enqueue \/ UNCHANGED vars
  <2>1. UNCHANGED <<visited, raised, propagated, insights>>
    BY <1>4 DEF Enqueue, vars
  <2> QED BY <1>2, <2>1 DEF RaisedInv
<1>5. CASE EnqueueSignalFails
  <2>1. PICK hs \in SUBSET (SignalHandlers \intersect ContraHandlers) :
           insights' = insights \o SignalInsights(hs) /\ Raise(SignalInsights(hs))
    BY <1>5 DEF EnqueueSignalFails
  <2>2. UNCHANGED <<visited, propagated>>
    BY <1>5 DEF EnqueueSignalFails
  <2>3. RaisedInv'
    BY <1>1, <1>3, <2>1, <2>2, InsightsJoin DEF Raise
  <2> QED BY <1>2, <2>2, <2>3
<1>6. CASE NextFails
  <2>1. PICK hs \in SUBSET (SignalHandlers \intersect ContraHandlers) :
           insights' = insights \o SignalInsights(hs) /\ Raise(SignalInsights(hs))
    BY <1>6 DEF NextFails, Fail
  <2>2. UNCHANGED <<visited, propagated>>
    BY <1>6 DEF NextFails
  <2>3. RaisedInv'
    BY <1>1, <1>3, <2>1, <2>2, InsightsJoin DEF Raise
  <2> QED BY <1>2, <2>2, <2>3
<1>7. CASE EnqueueSignal
  <2>1. PICK hs \in SUBSET (SignalHandlers \intersect ContraHandlers) :
           /\ Raise(SignalInsights(hs))
           /\ \/ UNCHANGED <<visited, propagated>> /\ insights' = insights \o SignalInsights(hs)
              \/ HandOver(returns, insights \o SignalInsights(hs))
    BY <1>7 DEF EnqueueSignal
  <2>2. PICK new \in Seq(ContraHandlers) : new = SignalInsights(hs) /\ raised' = raised \o new
    BY <1>3, <2>1 DEF Raise
  <2>3. CASE UNCHANGED <<visited, propagated>> /\ insights' = insights \o new
    BY <1>1, <1>2, <2>2, <2>3, InsightsJoin
  <2>4. CASE HandOver(returns, insights \o new)
    BY <1>1, <2>2, <2>4, VisitedMore
  <2> QED BY <2>1, <2>2, <2>3, <2>4
<1>8. CASE Contraflow
  <2>1. visited' = visited \union {<<OutNode, ContraflowList>>} /\ UNCHANGED <<raised, propagated, insights>>
    BY <1>8 DEF Contraflow
  <2>2. VisitedInv'
    BY <2>1, Zenon DEF VisitedInv
  <2> QED BY <2>1, <2>2 DEF RaisedInv
<1>9. CASE NextOutput
  <2>1. ContinueOrReturn(RestOfStack, Append(returns, NextDelivery), insights) /\ raised' = raised
    BY <1>9 DEF NextOutput
  <2>2. ContinueOrReturn(RestOfStack, Append(returns, NextDelivery), insights \o <<>>)
    BY <1>1, <2>1, NothingRaised
  <2> QED BY <1>1, <2>1, <2>2, NothingRaised, VisitedContinues
<1>10. CASE NextEvent
  <2>1. PICK d : d = NextDelivery
    OBVIOUS
  <2>2. PICK insight \in BOOLEAN :
           /\ insight => d.node \in ContraHandlers
           /\ Raise(IF insight THEN <<d.node>> ELSE <<>>)
           /\ ContinueOrReturn(stack', returns, insights \o (IF insight THEN <<d.node>> ELSE <<>>))
    BY <1>10, <2>1 DEF NextEvent
  <2>3. PICK new \in Seq(ContraHandlers) : new = IF insight THEN <<d.node>> ELSE <<>>
    BY <2>2, InsightFacts
  <2>4. raised' = raised \o new /\ ContinueOrReturn(stack', returns, insights \o new)
    BY <2>2, <2>3 DEF Raise
  <2> QED BY <1>1, <2>4, VisitedContinues
<1>11. CASE NextSignal
  <2>1. PICK hs \in SUBSET (SignalHandlers \intersect ContraHandlers) :
           Raise(SignalInsights(hs)) /\ ContinueOrReturn(stack', returns, insights \o SignalInsights(hs))
    BY <1>11 DEF NextSignal
  <2> QED BY <1>1, <1>3, <2>1, VisitedContinues DEF Raise
<1>12. CASE NextOnEmpty
  <2>1. HandOver(Reverse(returns), insights) /\ raised' = raised
    BY <1>12 DEF NextOnEmpty
  <2>2. HandOver(Reverse(returns), insights \o <<>>)
    BY <1>1, <2>1, NothingRaised
  <2> QED BY <1>1, <2>1, <2>2, NothingRaised, VisitedMore
<1> QED BY <1>4, <1>5, <1>6, <1>7, <1>8, <1>9, <1>10, <1>11, <1>12 DEF Next, Step

\* The handlers an insight goes through, against the wires.
LEMMA VisitedUpstream ==
  ASSUME VisitedInv, RaisedInv
  PROVE  InsightsGoUpstream
<1>1. ASSUME NEW v \in visited
      PROVE  LET above == Upstream(v[1]) \intersect ContraHandlers
                 passed == {v[2][k] : k \in DOMAIN v[2]}
             IN  /\ \A i \in above : i \in passed <=> DeclaredBefore(i, v[1])
                 /\ \A a, b \in DOMAIN v[2] : a # b => v[2][a] # v[2][b]
                 /\ \A i, j \in above \intersect passed :
                       i \in Upstream(j) /\ i < j => Precedes(v[2], j, i)
  <2> DEFINE above == Upstream(v[1]) \intersect ContraHandlers
             passed == {v[2][k] : k \in DOMAIN v[2]}
  <2>1. PICK S \in SUBSET ContraHandlers :
           /\ Visits(v[2], S) /\ DOMAIN v[2] \subseteq Nat
           /\ \A i \in ContraHandlers : i \in S <=> DeclaredBefore(i, v[1])
    <3>1. CASE v = <<OutNode, ContraflowList>>
      <4>1. v[1] = OutNode /\ v[2] = ContraflowList
        BY <3>1
      <4>2. Visits(v[2], ContraHandlers) /\ DOMAIN v[2] \subseteq Nat
        BY <4>1, ListFacts
      <4>3. \A i \in ContraHandlers : DeclaredBefore(i, v[1])
        BY <4>1 DEF DeclaredBefore
      <4> QED BY <4>2, <4>3
    <3>2. ASSUME NEW n \in ContraHandlers, v = <<n, VisitedAfter(n)>>
          PROVE  /\ Visits(v[2], HandlersBefore(n)) /\ DOMAIN v[2] \subseteq Nat
                 /\ \A i \in ContraHandlers : i \in HandlersBefore(n) <=> DeclaredBefore(i, v[1])
      <4>1. v[1] = n /\ v[2] = VisitedAfter(n)
        BY <3>2
      <4>2. n # OutNode
        BY ExecGraphAssumption DEF ExecGraphAssumption
      <4> QED BY <4>1, <4>2, AfterFacts DEF HandlersBefore, DeclaredBefore
    <3>3. \A n \in ContraHandlers : HandlersBefore(n) \in SUBSET ContraHandlers
      BY DEF HandlersBefore
    <3> QED BY <3>1, <3>2, <3>3, Zenon DEF VisitedInv
  <2>2. ASSUME NEW i \in above PROVE i \in passed <=> DeclaredBefore(i, v[1])
    BY <2>1, Zenon DEF Visits
  <2>3. ASSUME NEW a \in DOMAIN v[2], NEW b \in DOMAIN v[2], a # b PROVE v[2][a] # v[2][b]
    <3>1. a \in Nat /\ b \in Nat /\ v[2][a] \in Nat /\ v[2][b] \in Nat
      BY <2>1, HandlersAreNumbers DEF Visits
    <3>2. a < b \/ b < a
      BY <2>3, <3>1
    <3>3. v[2][a] > v[2][b] \/ v[2][b] > v[2][a]
      BY <2>1, <3>2 DEF Visits
    <3> QED BY <3>1, <3>3
  <2>4. ASSUME NEW i \in above \intersect passed, NEW j \in above \intersect passed, i < j
        PROVE  Precedes(v[2], j, i)
    <3>1. i \in S /\ j \in S /\ S \in SUBSET Nat
      BY <2>1, HandlersAreNumbers DEF Visits
    <3> QED BY <2>1, <2>4, <3>1, VisitsPrecede
  <2> QED BY <2>2, <2>3, <2>4
<1> QED BY <1>1, Zenon DEF RaisedInv, InsightsGoUpstream

\* For any wires and any order of declaration: every insight is propagated once
\* and in order, failed calls or not, and of the handlers above its origin it
\* passes exactly those declared before it, nearest first
\* (executable_graph.rs:568-607, query.rs:632-651).
THEOREM InsightsPassDeclaredUpstream == Spec => []InsightsGoUpstream
<1>1. Init => VisitedInv /\ RaisedInv
  BY DEF Init, VisitedInv, RaisedInv
<1>2. GraphInv /\ VisitedInv /\ RaisedInv /\ [Next]_vars => VisitedInv' /\ RaisedInv'
  BY VisitedStep
<1>3. VisitedInv /\ RaisedInv => InsightsGoUpstream
  BY VisitedUpstream
<1> QED BY <1>1, <1>2, <1>3, GraphInvariant, PTL DEF Spec

=============================================================================
