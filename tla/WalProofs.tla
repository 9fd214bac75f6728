----------------------------- MODULE WalProofs -----------------------------
(***************************************************************************)
(* Proofs about the write-ahead log (module Wal), for every value of its   *)
(* constants: any read_count, any number of events, Fails, crashes and     *)
(* errors.                                                                 *)
(***************************************************************************)
EXTENDS Wal, FiniteSetTheorems, TLAPS

(* Facts about the helpers.                                                *)

\* Arithmetic modulo 2^64 stays within the word.
LEMMA WordArithmetic == \A x \in Int : x % Word \in 0 .. Word - 1
<1>1. Word \in Nat /\ Word > 0
  BY WalAssumption DEF WalAssumption
<1> QED BY <1>1

\* A batch holds entries of the tree, all at or behind the read position.
LEMMA BatchInTree ==
  ASSUME NEW t
  PROVE  /\ Batch(t) \subseteq t
         /\ \A e \in Batch(t) : e.id >= read
BY DEF Batch

\* A batch has no holes: with an entry it holds every pending entry before it.
LEMMA BatchIsPrefix ==
  ASSUME NEW t, t \subseteq Entry, IsFiniteSet(t), read \in Nat, ReadCount \in Nat,
         NEW m \in Batch(t), NEW e \in t, e.id >= read, e.id <= m.id
  PROVE  e \in Batch(t)
<1> DEFINE pending == {d \in t : d.id >= read}
           before(x) == {d \in pending : d.id < x.id}
<1>1. IsFiniteSet(pending) /\ IsFiniteSet(before(m)) /\ before(e) \subseteq before(m)
  <2>1. IsFiniteSet(pending)
    BY FS_Subset
  <2>2. before(m) \subseteq pending
    OBVIOUS
  <2>3. IsFiniteSet(before(m))
    BY <2>1, <2>2, FS_Subset
  <2>4. before(e) \subseteq before(m)
    BY DEF Entry, Batch
  <2> QED BY <2>1, <2>3, <2>4
<1>2. Cardinality(before(e)) <= Cardinality(before(m))
  BY <1>1, FS_Subset
<1>3. Cardinality(before(m)) \in Nat /\ Cardinality(before(e)) \in Nat
  BY <1>1, FS_Subset, FS_CardinalityType
<1>4. Cardinality(before(m)) <= ReadCount
  BY DEF Batch
<1> QED BY <1>2, <1>3, <1>4 DEF Batch

----------------------------------------------------------------------------
(* Type correctness.                                                       *)

\* gc and the loop of read_events keep the types.
LEMMA ReadEventsType ==
  ASSUME TypeOK, NEW t, t \subseteq Entry, IsFiniteSet(t),
         NEW c \in Int,
         ReadEvents(t, c) \/ ReadEventsFails(t, c),
         c \in 0 .. Word - 1
  PROVE  /\ tree' \subseteq t /\ IsFiniteSet(tree')
         /\ read' \in Nat /\ cnt' \in 0 .. Word - 1
         /\ sent' \subseteq Entry /\ delivered' \subseteq Entry /\ owed' \subseteq Entry
<1>1. tree' \subseteq t
  BY DEF ReadEvents, ReadEventsFails
<1>2. IsFiniteSet(tree')
  BY <1>1, FS_Subset
<1>3. Batch(t) \subseteq t
  BY BatchInTree
<1>4. \A b : b \subseteq Entry /\ Advance(b) => read' \in Nat
  BY DEF Advance, Entry, TypeOK
<1>5. read' \in Nat
  <2>1. Batch(t) \subseteq Entry /\ read \in Nat
    BY <1>3 DEF TypeOK
  <2>2. CASE Advance(Batch(t))
    BY <1>4, <2>1, <2>2
  <2>3. CASE read' \in {read} \cup {e.id + 1 : e \in Batch(t)}
    BY <2>1, <2>3 DEF Entry
  <2> QED BY <2>2, <2>3 DEF ReadEvents, ReadEventsFails
<1>6. \A S : S \subseteq t => Cardinality(S) \in Nat
  BY FS_Subset, FS_CardinalityType
<1>7. \A n \in Nat : CountDown(c, n) \in 0 .. Word - 1
  <2>1. \A n \in Nat : c - n \in Int
    OBVIOUS
  <2> QED BY <2>1, WordArithmetic DEF CountDown
<1>8. cnt' \in 0 .. Word - 1
  <2>1. CASE ReadEvents(t, c)
    <3>1. Cardinality(Garbage(t)) \in Nat
      BY <1>6 DEF Garbage
    <3> QED BY <2>1, <3>1, <1>7 DEF ReadEvents
  <2>2. CASE ReadEventsFails(t, c) /\ cnt' = c
    BY <2>2
  <2>3. ASSUME NEW e \in Garbage(t), cnt' = CountDown(c, Cardinality({d \in t : d.id < e.id}) + 1)
        PROVE  cnt' \in 0 .. Word - 1
    <3>1. Cardinality({d \in t : d.id < e.id}) \in Nat
      BY <1>6
    <3>2. Cardinality({d \in t : d.id < e.id}) + 1 \in Nat
      BY <3>1
    <3> QED BY <2>3, <3>2, <1>7
  <2> QED BY <2>1, <2>2, <2>3 DEF ReadEventsFails
<1>9. sent' \subseteq Entry /\ delivered' \subseteq Entry /\ owed' \subseteq Entry
  BY <1>3 DEF ReadEvents, ReadEventsFails, TypeOK
<1> QED BY <1>1, <1>2, <1>5, <1>8, <1>9

\* An entry stored now is an entry, and storing keeps the tree finite.
LEMMA StoreType ==
  ASSUME TypeOK
  PROVE  /\ NewEntry \in Entry
         /\ tree \cup {NewEntry} \subseteq Entry
         /\ IsFiniteSet(tree \cup {NewEntry})
<1>1. NewEntry \in Entry
  BY DEF NewEntry, Entry, TypeOK
<1>2. IsFiniteSet(tree \cup {NewEntry})
  BY FS_AddElement DEF TypeOK
<1> QED BY <1>1, <1>2 DEF TypeOK

\* Every step of the operator, of sled and of the process keeps TypeOK.
LEMMA TypeStep ==
  ASSUME TypeOK, [Next]_vars
  PROVE  TypeOK'
<1> USE WalAssumption DEF WalAssumption
<1>1. \A x \in 0 .. Word - 1 : (x + 1) % Word \in 0 .. Word - 1
  OBVIOUS
<1>2. ASSUME NEW transactional \in BOOLEAN, OnEvent(transactional)
      PROVE  TypeOK'
  <2>1. (cnt + 1) % Word \in 0 .. Word - 1
    BY <1>1 DEF TypeOK
  <2>2. /\ tree' \subseteq Entry /\ IsFiniteSet(tree') /\ read' \in Nat
        /\ cnt' \in 0 .. Word - 1
        /\ sent' \subseteq Entry /\ delivered' \subseteq Entry /\ owed' \subseteq Entry
    <3>1. CASE broken
      BY <1>2, <2>1, <3>1, StoreType DEF OnEvent, TypeOK
    <3>2. CASE ~broken
      BY <1>2, <2>1, <3>2, StoreType, ReadEventsType DEF OnEvent
    <3> QED BY <3>1, <3>2
  <2>3. /\ disk' = [tree |-> disk'.tree, state |-> disk'.state]
        /\ disk'.tree \subseteq Entry /\ IsFiniteSet(disk'.tree)
        /\ disk'.state \in Nat \cup {None}
    BY <1>2, StoreType DEF OnEvent, StoreEvent, TypeOK
  <2>4. nextId' \in Nat /\ upAcked' \subseteq Entry
    BY <1>2, StoreType DEF OnEvent, StoreEvent, TypeOK
  <2> QED BY <1>2, <2>2, <2>3, <2>4 DEF OnEvent, TypeOK, bounds
<1>3. ASSUME OnEventReadFails PROVE TypeOK'
  <2>1. (cnt + 1) % Word \in 0 .. Word - 1
    BY <1>1 DEF TypeOK
  <2>2. /\ tree' \subseteq Entry /\ IsFiniteSet(tree') /\ read' \in Nat
        /\ cnt' \in 0 .. Word - 1
        /\ sent' \subseteq Entry /\ delivered' \subseteq Entry /\ owed' \subseteq Entry
    BY <1>3, <2>1, StoreType, ReadEventsType DEF OnEventReadFails
  <2>3. /\ disk' = [tree |-> disk'.tree, state |-> disk'.state]
        /\ disk'.tree \subseteq Entry /\ IsFiniteSet(disk'.tree)
        /\ disk'.state \in Nat \cup {None}
    BY <1>3, StoreType DEF OnEventReadFails, StoreEvent, TypeOK
  <2>4. nextId' \in Nat /\ errors' \in Nat
    BY <1>3 DEF OnEventReadFails, StoreEvent, ReadEventsFails, TypeOK
  <2> QED BY <1>3, <2>2, <2>3, <2>4 DEF OnEventReadFails, TypeOK
<1>4. ASSUME OnEventStoreFails PROVE TypeOK'
  <2>1. tree' \in {tree, tree \cup {NewEntry}} /\ nextId' = nextId + 1 /\ errors' = errors + 1
    BY <1>4 DEF OnEventStoreFails
  <2>2. tree' \subseteq Entry /\ IsFiniteSet(tree') /\ nextId' \in Nat /\ errors' \in Nat
    BY <2>1, StoreType DEF TypeOK
  <2>3. UNCHANGED <<state, disk, volatile, history, fails, crashes>>
    BY <1>4 DEF OnEventStoreFails
  <2> QED BY <2>2, <2>3 DEF TypeOK, volatile, history
<1>5. ASSUME NEW overBytes \in BOOLEAN, OnSignal(overBytes) PROVE TypeOK'
  <2>1. /\ tree' \subseteq Entry /\ IsFiniteSet(tree') /\ read' \in Nat
        /\ cnt' \in 0 .. Word - 1
        /\ sent' \subseteq Entry /\ delivered' \subseteq Entry /\ owed' \subseteq Entry
    <3>1. CASE broken
      BY <1>5, <3>1 DEF OnSignal, TypeOK
    <3>2. CASE ~broken
      BY <1>5, <3>2, ReadEventsType DEF OnSignal, TypeOK
    <3> QED BY <3>1, <3>2
  <2>2. full' \in BOOLEAN /\ upClosed' \in BOOLEAN
    BY <1>5 DEF OnSignal, LimitReached, TellUpstream, TypeOK
  <2> QED BY <1>5, <2>1, <2>2 DEF OnSignal, TypeOK, bounds
<1>6. ASSUME NEW overBytes \in BOOLEAN, OnSignalReadFails(overBytes) PROVE TypeOK'
  <2>1. /\ tree' \subseteq Entry /\ IsFiniteSet(tree') /\ read' \in Nat
        /\ cnt' \in 0 .. Word - 1
        /\ sent' \subseteq Entry /\ delivered' \subseteq Entry /\ owed' \subseteq Entry
    BY <1>6, ReadEventsType DEF OnSignalReadFails, TypeOK
  <2>2. full' \in BOOLEAN /\ errors' \in Nat
    BY <1>6 DEF OnSignalReadFails, ReadEventsFails, LimitReached, TypeOK
  <2> QED BY <1>6, <2>1, <2>2 DEF OnSignalReadFails, TypeOK
<1>7. CASE OnOpen \/ OnClose
  BY <1>7 DEF OnOpen, OnClose, TypeOK, durable, history, bounds
<1>8. ASSUME NEW e \in sent, OnAck(e) PROVE TypeOK'
  BY <1>8 DEF OnAck, Persist, TypeOK, Entry
<1>9. ASSUME NEW e \in sent, OnFail(e) PROVE TypeOK'
  BY <1>9 DEF OnFail, Persist, Rewind, TypeOK, Entry
<1>10. CASE Flush
  BY <1>10 DEF Flush, TypeOK, volatile, history, bounds
<1>11. CASE Restart
  <2>1. Cardinality(disk.tree) \in Nat
    BY FS_CardinalityType DEF TypeOK
  <2>2. Cardinality(disk.tree) % Word \in 0 .. Word - 1
    BY <2>1
  <2>3. nextId' \in Nat /\ read' \in Nat /\ crashes' \in Nat
    BY <1>11 DEF Restart, TypeOK, None
  <2>4. {state', confirmed', disk'.state} \subseteq Nat \cup {None}
    BY <1>11 DEF Restart, TypeOK
  <2> QED BY <1>11, <2>2, <2>3, <2>4 DEF Restart, TypeOK
<1>12. CASE UNCHANGED vars
  BY <1>12 DEF vars, durable, volatile, history, bounds, TypeOK
<1> QED
  BY <1>2, <1>3, <1>4, <1>5, <1>6, <1>7, <1>8, <1>9, <1>10, <1>11, <1>12 DEF Next

\* A fresh operator on an empty store is well-typed.
LEMMA InitType == Init => TypeOK
<1>1. IsFiniteSet({})
  BY FS_EmptySet
<1>2. 0 \in 0 .. Word - 1
  BY WalAssumption DEF WalAssumption
<1> SUFFICES ASSUME Init PROVE TypeOK
  OBVIOUS
<1>3. disk.tree = {} /\ disk.state = None /\ disk = [tree |-> disk.tree, state |-> disk.state]
  BY DEF Init
<1>4. {state, confirmed, disk.state} \subseteq Nat \cup {None}
  BY <1>3 DEF Init
<1> QED BY <1>1, <1>2, <1>3, <1>4 DEF Init, TypeOK

\* The operator's state is always well-typed: ids and the read position stay
\* natural numbers, cnt stays within its u64 width.
THEOREM TypeCorrect == Spec => []TypeOK
<1> QED BY InitType, TypeStep, PTL DEF Spec

----------------------------------------------------------------------------
(* What is acknowledged upstream is durable.                               *)

\* The inductive part behind the durability theorem: the confirmed id, in
\* memory, in sled and on disk, never exceeds what some sink acknowledged.
\* A Fail lowers it, a restart takes it back from disk, an Ack sets it.
IsCovered(c) == c = None \/ \E a \in acked : c <= a
ConfirmedWasAcked == IsCovered(confirmed) /\ IsCovered(state) /\ IsCovered(disk.state)
DurableInv == TypeOK /\ ConfirmedWasAcked /\ AckedUpstreamIsDurable

\* gc only removes entries that an Ack covers.
LEMMA GarbageIsCovered ==
  ASSUME TypeOK, IsCovered(confirmed), NEW t, t \subseteq Entry, NEW e \in Garbage(t)
  PROVE  Covered(e)
BY DEF Garbage, IsCovered, Covered, TypeOK, Entry, None

\* What read_events takes out of the tree, failing or not, is garbage.
LEMMA ReadEventsRemovesGarbage ==
  ASSUME TypeOK, NEW t, t \subseteq Entry, NEW c,
         ReadEvents(t, c) \/ ReadEventsFails(t, c)
  PROVE  \A e \in t \ tree' : e \in Garbage(t)
<1>1. CASE ReadEvents(t, c)
  BY <1>1 DEF ReadEvents
<1>2. CASE ReadEventsFails(t, c)
  <2>1. SUFFICES ASSUME NEW g \in Garbage(t), tree' = t \ {d \in t : d.id < g.id},
                        NEW e \in t \ tree'
                 PROVE  e \in Garbage(t)
    BY <1>2 DEF ReadEventsFails
  <2>2. e.id \in Nat /\ g.id \in Nat /\ confirmed \in Int /\ e.id < g.id /\ g.id <= confirmed
    BY <2>1 DEF Garbage, Entry, TypeOK, None
  <2> QED BY <2>1, <2>2 DEF Garbage
<1> QED BY <1>1, <1>2

LEMMA DurableStep ==
  ASSUME DurableInv, [Next]_vars
  PROVE  DurableInv'
<1> USE DEF DurableInv
<1>1. TypeOK'
  BY TypeStep
<1>2. acked \subseteq acked'
  BY DEF Next, vars, OnEvent, OnEventReadFails, OnEventStoreFails, OnSignal, OnSignalReadFails,
         OnOpen, OnClose, OnAck, OnFail, Flush, Restart, history
<1>3. \A c : IsCovered(c) => IsCovered(c)'
  BY <1>2 DEF IsCovered
<1>4. \A e : Covered(e) => Covered(e)'
  BY <1>2 DEF Covered
<1>5. ASSUME NEW t, t \subseteq Entry, NEW c, ReadEvents(t, c) \/ ReadEventsFails(t, c)
      PROVE  \A e \in t : e \in tree' \/ Covered(e)
  BY <1>5, ReadEventsRemovesGarbage, GarbageIsCovered DEF ConfirmedWasAcked
<1>6. ASSUME NEW transactional \in BOOLEAN, OnEvent(transactional)
      PROVE  DurableInv'
  <2>1. \A e \in tree \cup {NewEntry} : e \in tree' \/ Covered(e)
    BY <1>5, <1>6, StoreType DEF OnEvent
  <2>2. FlushOnEvent => disk'.tree = tree \cup {NewEntry}
    BY <1>6 DEF OnEvent, StoreEvent
  <2>3. upAcked' \subseteq upAcked \cup {NewEntry}
    BY <1>6 DEF OnEvent
  <2>4. AckedUpstreamIsDurable'
    BY <1>4, <2>1, <2>2, <2>3 DEF AckedUpstreamIsDurable
  <2>5. ConfirmedWasAcked'
    BY <1>3, <1>6 DEF ConfirmedWasAcked, OnEvent, StoreEvent, IsCovered
  <2> QED BY <1>1, <2>4, <2>5
<1>7. ASSUME OnEventReadFails PROVE DurableInv'
  <2>1. \A e \in tree \cup {NewEntry} : e \in tree' \/ Covered(e)
    BY <1>5, <1>7, StoreType DEF OnEventReadFails
  <2>2. FlushOnEvent => disk'.tree = tree \cup {NewEntry}
    BY <1>7 DEF OnEventReadFails, StoreEvent
  <2>3. AckedUpstreamIsDurable'
    BY <1>4, <1>7, <2>1, <2>2 DEF AckedUpstreamIsDurable, OnEventReadFails
  <2>4. ConfirmedWasAcked'
    BY <1>3, <1>7 DEF ConfirmedWasAcked, OnEventReadFails, StoreEvent, IsCovered
  <2> QED BY <1>1, <2>3, <2>4
<1>8. ASSUME OnEventStoreFails PROVE DurableInv'
  <2>1. tree \subseteq tree'
    BY <1>8 DEF OnEventStoreFails
  <2> QED BY <1>1, <1>4, <1>8, <2>1
          DEF OnEventStoreFails, volatile, history, AckedUpstreamIsDurable, ConfirmedWasAcked,
              IsCovered
<1>9. ASSUME NEW overBytes \in BOOLEAN, OnSignal(overBytes) \/ OnSignalReadFails(overBytes)
      PROVE  DurableInv'
  <2>1. \A e \in tree : e \in tree' \/ Covered(e)
    BY <1>5, <1>9 DEF OnSignal, OnSignalReadFails, TypeOK
  <2>2. AckedUpstreamIsDurable'
    BY <1>4, <1>9, <2>1 DEF AckedUpstreamIsDurable, OnSignal, OnSignalReadFails
  <2>3. ConfirmedWasAcked'
    BY <1>9 DEF ConfirmedWasAcked, OnSignal, OnSignalReadFails, IsCovered
  <2> QED BY <1>1, <2>2, <2>3
<1>10. CASE OnOpen \/ OnClose
  BY <1>1, <1>10 DEF OnOpen, OnClose, durable, history, AckedUpstreamIsDurable, ConfirmedWasAcked,
                     IsCovered, Covered
<1>11. ASSUME NEW e \in sent, OnAck(e) PROVE DurableInv'
  <2>1. AckedUpstreamIsDurable'
    BY <1>4, <1>11 DEF AckedUpstreamIsDurable, OnAck
  <2>2. ConfirmedWasAcked'
    <3>1. CASE e.uid = uid
      <4>1. IsCovered(e.id)'
        BY <1>11, <3>1 DEF OnAck, IsCovered, TypeOK, Entry
      <4> QED BY <1>3, <1>11, <3>1, <4>1 DEF OnAck, Persist, ConfirmedWasAcked, IsCovered
    <3>2. CASE e.uid # uid
      BY <1>11, <3>2 DEF OnAck, ConfirmedWasAcked, IsCovered
    <3> QED BY <3>1, <3>2
  <2> QED BY <1>1, <2>1, <2>2
<1>12. ASSUME NEW e \in sent, OnFail(e) PROVE DurableInv'
  <2>1. AckedUpstreamIsDurable'
    BY <1>4, <1>12 DEF AckedUpstreamIsDurable, OnFail
  <2>2. acked' = acked /\ disk' = disk
    BY <1>12 DEF OnFail
  <2>3. e.id \in Nat /\ acked \subseteq Nat /\ confirmed \in Int
    BY DEF TypeOK, Entry, None
  <2>4. e.id < confirmed => IsCovered(e.id)
    BY <2>3 DEF ConfirmedWasAcked, IsCovered, None
  <2>5. ConfirmedWasAcked'
    BY <1>12, <2>2, <2>4 DEF OnFail, Persist, ConfirmedWasAcked, IsCovered
  <2> QED BY <1>1, <2>1, <2>5
<1>13. CASE Flush
  BY <1>1, <1>13 DEF Flush, volatile, history, AckedUpstreamIsDurable, ConfirmedWasAcked,
                     IsCovered, Covered
<1>14. CASE Restart
  BY <1>1, <1>14 DEF Restart, AckedUpstreamIsDurable, ConfirmedWasAcked, IsCovered, Covered
<1>15. CASE UNCHANGED vars
  BY <1>1, <1>15 DEF vars, durable, volatile, history, AckedUpstreamIsDurable, ConfirmedWasAcked,
                     IsCovered, Covered
<1> QED
  BY <1>6, <1>7, <1>8, <1>9, <1>10, <1>11, <1>12, <1>13, <1>14, <1>15 DEF Next

\* With flush_on_evnt, no crash, error, reordered verdict or restart ever
\* loses an event that the WAL acknowledged to its source and that the sinks
\* did not acknowledge.
THEOREM DurableOnceAcked == Spec => []AckedUpstreamIsDurable
<1>1. Init => DurableInv
  <2>1. Init => TypeOK
    BY InitType
  <2> QED BY <2>1 DEF Init, DurableInv, ConfirmedWasAcked, IsCovered, AckedUpstreamIsDurable
<1>2. DurableInv => AckedUpstreamIsDurable
  BY DEF DurableInv
<1> QED BY <1>1, <1>2, DurableStep, PTL DEF Spec

\* Only acknowledged entries leave the tree while the process runs, whatever
\* errors happen: the comment "events are only removed from disk once they're
\* acknowledged", with acknowledgement taken as cumulative.
THEOREM RemovalNeedsAck == Spec => RemovedOnlyOnceAcked
<1>1. ASSUME DurableInv, [Next]_vars, crashes' = crashes
      PROVE  \A e \in tree \ tree' : Covered(e)
  <2> USE <1>1 DEF DurableInv
  <2>1. ASSUME NEW t, t \subseteq Entry, NEW c, ReadEvents(t, c) \/ ReadEventsFails(t, c)
        PROVE  \A e \in t \ tree' : Covered(e)
    BY <2>1, ReadEventsRemovesGarbage, GarbageIsCovered DEF ConfirmedWasAcked
  <2>2. ASSUME NEW transactional \in BOOLEAN, OnEvent(transactional) \/ OnEventReadFails
        PROVE  \A e \in tree \ tree' : Covered(e)
    BY <2>1, <2>2, StoreType DEF OnEvent, OnEventReadFails
  <2>3. ASSUME NEW overBytes \in BOOLEAN, OnSignal(overBytes) \/ OnSignalReadFails(overBytes)
        PROVE  \A e \in tree \ tree' : Covered(e)
    BY <2>1, <2>3 DEF OnSignal, OnSignalReadFails, TypeOK
  <2>4. ~Restart
    BY <1>1 DEF Restart, TypeOK
  <2> QED
    BY <2>2, <2>3, <2>4 DEF Next, vars, durable, OnEventStoreFails, OnOpen, OnClose, OnAck, OnFail,
                            Flush
<1>2. Init => DurableInv
  BY InitType DEF Init, DurableInv, ConfirmedWasAcked, IsCovered, AckedUpstreamIsDurable
<1>3. DurableInv /\ [Next]_vars =>
        [crashes' = crashes => \A e \in tree \ tree' : Covered(e)]_vars
  BY <1>1
<1> QED BY <1>2, <1>3, DurableStep, PTL DEF Spec, RemovedOnlyOnceAcked

----------------------------------------------------------------------------
(* What is acknowledged upstream is emitted.                               *)

\* Entries never share an id, over all incarnations of the process.
Known == tree \cup disk.tree \cup delivered \cup upAcked
FreshIds == \A e \in Known : e.id < nextId
UniqueIds == \A e, f \in Known : e.id = f.id => e = f
\* Verdicts are about emitted entries only.
VerdictsOnDelivered ==
    /\ sent \subseteq delivered
    /\ \A a \in acked : \E d \in delivered : d.id = a
\* While no error happened: emission goes through the stored entries in the
\* order of their ids, in the running tree and in the one a crash would bring
\* back, the read position does not run ahead of it, and an entry that is on
\* disk but not in the tree any more was emitted.
NoOvertaking ==
    \A e \in tree \cup disk.tree : (\E d \in delivered : e.id < d.id) => e \in delivered
ReadBehind == read <= nextId /\ \A e \in tree : e.id < read => e \in delivered
GoneWasDelivered == \A e \in disk.tree \ tree : e \in delivered
Clean == NoOvertaking /\ ReadBehind /\ GoneWasDelivered /\ AckedUpstreamIsDelivered
DeliveryInv ==
    /\ DurableInv
    /\ FreshIds /\ UniqueIds /\ VerdictsOnDelivered
    /\ errors = 0 => Clean

\* A stored entry that an Ack covers was emitted.
LEMMA CoveredWasDelivered ==
  ASSUME DeliveryInv, errors = 0, NEW e \in tree \cup disk.tree, Covered(e)
  PROVE  e \in delivered
<1>1. PICK d \in delivered : e.id <= d.id
  BY DEF DeliveryInv, VerdictsOnDelivered, Covered
<1>2. e.id \in Nat /\ d.id \in Nat
  BY DEF DeliveryInv, DurableInv, TypeOK, Entry
<1>3. CASE e.id < d.id
  BY <1>3 DEF DeliveryInv, Clean, NoOvertaking
<1>4. CASE e.id = d.id
  BY <1>4 DEF DeliveryInv, UniqueIds, Known
<1> QED BY <1>1, <1>2, <1>3, <1>4

\* The heart of the argument: a run of read_events emits without holes, and
\* its gc removes emitted entries only.
LEMMA ReadEventsDelivers ==
  ASSUME DeliveryInv, errors = 0, NEW t, t = tree \/ t = tree \cup {NewEntry},
         NEW c, ReadEvents(t, c)
  PROVE  /\ \A e \in t : e.id < read' => e \in delivered'
         /\ \A e \in t \cup disk.tree : (\E d \in delivered' : e.id < d.id) => e \in delivered'
         /\ \A e \in (t \cup disk.tree) \ tree' : e \in delivered'
         /\ read' <= nextId \/ (NewEntry \in t /\ read' <= nextId + 1)
         /\ delivered' \subseteq delivered \cup t
<1> USE DEF DeliveryInv, DurableInv
<1>1. t \subseteq Entry /\ IsFiniteSet(t) /\ read \in Nat /\ nextId \in Nat /\ ReadCount \in Nat
  BY StoreType, WalAssumption DEF TypeOK, WalAssumption
<1>2. NewEntry.id = nextId /\ Clean
  BY DEF NewEntry
<1>3. \A e \in tree \cup disk.tree \cup delivered : e.id \in Nat /\ e.id < nextId
  BY DEF FreshIds, Known, TypeOK, Entry
<1>4. delivered' = delivered \cup Batch(t) /\ Advance(Batch(t)) /\ tree' = t \ Garbage(t)
  BY DEF ReadEvents
<1>5. Batch(t) \subseteq t /\ \A e \in Batch(t) : e.id >= read
  BY BatchInTree
<1>6. \A e \in t : e.id < read => e \in delivered
  BY <1>1, <1>2 DEF Clean, ReadBehind
<1>7. \A m \in Batch(t), e \in t : e.id <= m.id => e \in delivered'
  <2> SUFFICES ASSUME NEW m \in Batch(t), NEW e \in t, e.id <= m.id
               PROVE  e \in delivered'
    OBVIOUS
  <2>1. CASE e.id < read
    BY <1>4, <1>6, <2>1
  <2>2. CASE e.id >= read
    <3>1. e \in Batch(t)
      BY <1>1, <2>2, BatchIsPrefix
    <3> QED BY <1>4, <3>1
  <2>3. e.id \in Nat
    BY <1>1 DEF Entry
  <2> QED BY <1>1, <2>1, <2>2, <2>3
<1>8. \A e \in t : e.id < read' => e \in delivered'
  <2> SUFFICES ASSUME NEW e \in t, e.id < read' PROVE e \in delivered'
    OBVIOUS
  <2>1. CASE Batch(t) = {} /\ read' = read
    BY <1>4, <1>6, <2>1
  <2>2. ASSUME NEW m \in Batch(t), read' = m.id + 1 PROVE e \in delivered'
    <3>1. e.id \in Nat /\ m.id \in Nat
      BY <1>1, <1>5 DEF Entry
    <3> QED BY <1>7, <2>2, <3>1
  <2> QED BY <1>4, <2>1, <2>2 DEF Advance
<1>9. \A e \in t \cup disk.tree : (\E d \in delivered' : e.id < d.id) => e \in delivered'
  <2> SUFFICES ASSUME NEW e \in t \cup disk.tree, NEW d \in delivered', e.id < d.id
               PROVE  e \in delivered'
    OBVIOUS
  <2>1. CASE d \in delivered
    BY <1>1, <1>2, <1>3, <1>4, <2>1 DEF Clean, NoOvertaking
  <2>2. CASE d \in Batch(t) /\ e \in t
    <3>1. e.id <= d.id
      BY <1>1, <1>5, <2>2 DEF Entry
    <3> QED BY <1>7, <2>2, <3>1
  <2>3. CASE e \in disk.tree \ tree
    BY <1>2, <1>4, <2>3 DEF Clean, GoneWasDelivered
  <2> QED BY <1>4, <2>1, <2>2, <2>3
<1>10. \A e \in (t \cup disk.tree) \ tree' : e \in delivered'
  <2> SUFFICES ASSUME NEW e \in (t \cup disk.tree) \ tree' PROVE e \in delivered'
    OBVIOUS
  <2>1. CASE e \in Garbage(t)
    <3>1. Covered(e)
      BY <1>1, <2>1, GarbageIsCovered DEF ConfirmedWasAcked
    <3>2. \A a \in acked : a < nextId
      BY <1>3 DEF VerdictsOnDelivered
    <3>3. e.id < nextId
      BY <1>1, <2>1, <3>1, <3>2 DEF Covered, TypeOK, Entry, Garbage
    <3>4. e \in tree
      BY <1>1, <1>2, <2>1, <3>3 DEF Garbage
    <3> QED BY <1>4, <3>1, <3>4, CoveredWasDelivered
  <2>2. CASE e \in disk.tree \ tree
    BY <1>2, <1>4, <2>2 DEF Clean, GoneWasDelivered
  <2> QED BY <1>4, <2>1, <2>2
<1>11. read' <= nextId \/ (NewEntry \in t /\ read' <= nextId + 1)
  <2>1. CASE read' = read
    BY <1>2, <2>1 DEF Clean, ReadBehind
  <2>2. ASSUME NEW m \in Batch(t), read' = m.id + 1
        PROVE  read' <= nextId \/ (NewEntry \in t /\ read' <= nextId + 1)
    <3>1. m \in tree \/ (m = NewEntry /\ NewEntry \in t)
      BY <1>5, <2>2
    <3> QED BY <1>1, <1>2, <1>3, <2>2, <3>1
  <2> QED BY <1>4, <2>1, <2>2 DEF Advance
<1> QED BY <1>4, <1>5, <1>8, <1>9, <1>10, <1>11

\* Ids stay fresh and unique, and verdicts stay about emitted entries.
LEMMA IdsStep ==
  ASSUME DeliveryInv, [Next]_vars
  PROVE  (FreshIds /\ UniqueIds /\ VerdictsOnDelivered)'
<1> USE DEF DeliveryInv, DurableInv
<1>1. ASSUME NEW t, NEW c, ReadEvents(t, c) \/ ReadEventsFails(t, c)
      PROVE  /\ tree' \subseteq t
             /\ delivered \subseteq delivered' /\ delivered' \subseteq delivered \cup t
             /\ sent' \subseteq sent \cup delivered'
  <2>1. CASE ReadEvents(t, c)
    BY <2>1, BatchInTree DEF ReadEvents
  <2>2. CASE ReadEventsFails(t, c)
    BY <2>2 DEF ReadEventsFails
  <2> QED BY <1>1, <2>1, <2>2
<1>2. /\ \/ Known' \subseteq Known /\ nextId' >= nextId /\ nextId' \in Nat
         \/ Known' \subseteq Known \cup {NewEntry} /\ nextId' = nextId + 1
      /\ VerdictsOnDelivered'
  <2>0. nextId \in Nat
    BY DEF TypeOK
  <2>1. ASSUME (\E transactional \in BOOLEAN : OnEvent(transactional)) \/ OnEventReadFails
        PROVE  /\ Known' \subseteq Known \cup {NewEntry} /\ nextId' = nextId + 1
               /\ VerdictsOnDelivered'
    <3>1. /\ tree' \subseteq tree \cup {NewEntry}
          /\ delivered \subseteq delivered'
          /\ delivered' \subseteq delivered \cup tree \cup {NewEntry}
          /\ sent' \subseteq sent \cup delivered'
      BY <1>1, <2>1 DEF OnEvent, OnEventReadFails
    <3>2. /\ nextId' = nextId + 1 /\ acked' = acked
          /\ upAcked' \subseteq upAcked \cup {NewEntry}
          /\ disk'.tree \subseteq disk.tree \cup tree \cup {NewEntry}
      BY <2>1 DEF OnEvent, OnEventReadFails, StoreEvent
    <3> QED BY <3>1, <3>2 DEF Known, VerdictsOnDelivered
  <2>2. CASE OnEventStoreFails
    BY <2>2 DEF OnEventStoreFails, Known, VerdictsOnDelivered, history
  <2>3. ASSUME NEW overBytes \in BOOLEAN, OnSignal(overBytes) \/ OnSignalReadFails(overBytes)
        PROVE  Known' \subseteq Known /\ nextId' = nextId /\ VerdictsOnDelivered'
    <3>1. /\ tree' \subseteq tree
          /\ delivered \subseteq delivered' /\ delivered' \subseteq delivered \cup tree
          /\ sent' \subseteq sent \cup delivered'
      BY <1>1, <2>3 DEF OnSignal, OnSignalReadFails
    <3> QED BY <2>3, <3>1 DEF OnSignal, OnSignalReadFails, Known, VerdictsOnDelivered
  <2>4. CASE OnOpen \/ OnClose
    BY <2>0, <2>4 DEF OnOpen, OnClose, durable, history, Known, VerdictsOnDelivered
  <2>5. ASSUME NEW e \in sent, OnAck(e) \/ OnFail(e)
        PROVE  Known' \subseteq Known /\ nextId' = nextId /\ VerdictsOnDelivered'
    BY <2>5 DEF OnAck, OnFail, Known, VerdictsOnDelivered
  <2>6. CASE Flush
    BY <2>0, <2>6 DEF Flush, volatile, history, Known, VerdictsOnDelivered
  <2>7. CASE Restart
    BY <2>7 DEF Restart, Known, VerdictsOnDelivered, TypeOK
  <2>8. CASE UNCHANGED vars
    BY <2>0, <2>8 DEF vars, durable, volatile, history, Known, VerdictsOnDelivered
  <2>9. \/ (\E transactional \in BOOLEAN : OnEvent(transactional)) \/ OnEventReadFails
        \/ OnEventStoreFails
        \/ \E overBytes \in BOOLEAN : OnSignal(overBytes) \/ OnSignalReadFails(overBytes)
        \/ OnOpen \/ OnClose
        \/ \E e \in sent : OnAck(e) \/ OnFail(e)
        \/ Flush \/ Restart \/ UNCHANGED vars
    BY DEF Next
  <2>10. nextId >= nextId
    BY <2>0
  <2> QED BY <2>9, <2>10, <2>0, <2>1, <2>2, <2>3, <2>4, <2>5, <2>6, <2>7, <2>8
<1>3. NewEntry.id = nextId /\ nextId \in Nat /\ \A e \in Known : e.id \in Nat
  BY DEF NewEntry, TypeOK, Known, Entry
<1>4. FreshIds'
  BY <1>2, <1>3 DEF FreshIds
<1>5. UniqueIds'
  BY <1>2, <1>3 DEF FreshIds, UniqueIds
<1> QED BY <1>2, <1>4, <1>5

\* Every step without an error keeps emission free of holes.
LEMMA CleanStep ==
  ASSUME DeliveryInv, [Next]_vars, errors' = 0
  PROVE  Clean'
<1> USE DEF DeliveryInv, DurableInv
<1>1. errors = 0 /\ Clean /\ errors \in Nat
  BY DEF TypeOK, Next, vars, bounds, OnEvent, OnEventReadFails, OnEventStoreFails, OnSignal,
         OnSignalReadFails, ReadEventsFails, OnOpen, OnClose, OnAck, OnFail, Persist, Flush, Restart
<1>2. ~OnEventReadFails /\ ~OnEventStoreFails /\ \A o : ~OnSignalReadFails(o)
  BY <1>1 DEF OnEventReadFails, OnEventStoreFails, OnSignalReadFails, ReadEventsFails
<1>3. ASSUME NEW transactional \in BOOLEAN, OnEvent(transactional) PROVE Clean'
  <2> DEFINE t == tree \cup {NewEntry}
  <2>0. /\ NewEntry.id = nextId /\ nextId' = nextId + 1 /\ nextId \in Nat /\ read \in Nat
        /\ disk'.tree = disk.tree \/ disk'.tree = t
        /\ upAcked' \subseteq upAcked \cup {NewEntry}
    BY <1>3 DEF OnEvent, StoreEvent, NewEntry, TypeOK
  <2>1. CASE broken
    <3>1. tree' = t /\ read' = read /\ delivered' = delivered
      BY <1>3, <2>1 DEF OnEvent
    <3>2. \A e \in tree \cup disk.tree \cup delivered : e.id \in Nat /\ e.id < nextId
      BY DEF FreshIds, Known, TypeOK, Entry
    <3>3. NoOvertaking'
      BY <1>1, <2>0, <3>1, <3>2 DEF Clean, NoOvertaking
    <3>4. ReadBehind'
      BY <1>1, <2>0, <3>1, <3>2 DEF Clean, ReadBehind
    <3>5. GoneWasDelivered'
      BY <1>1, <2>0, <3>1 DEF Clean, GoneWasDelivered
    <3>6. AckedUpstreamIsDelivered'
      BY <1>1, <2>0, <3>1 DEF Clean, AckedUpstreamIsDelivered
    <3> QED BY <3>3, <3>4, <3>5, <3>6 DEF Clean
  <2>2. CASE ~broken
    <3>1. ReadEvents(t, (cnt + 1) % Word)
      BY <1>3, <2>2 DEF OnEvent
    <3>2. /\ \A e \in t : e.id < read' => e \in delivered'
          /\ \A e \in t \cup disk.tree : (\E d \in delivered' : e.id < d.id) => e \in delivered'
          /\ \A e \in (t \cup disk.tree) \ tree' : e \in delivered'
          /\ read' <= nextId \/ (NewEntry \in t /\ read' <= nextId + 1)
          /\ delivered' \subseteq delivered \cup t
      BY <1>1, <3>1, ReadEventsDelivers
    <3>3. tree' \subseteq t /\ delivered \subseteq delivered'
      BY <3>1 DEF ReadEvents
    <3>4. NoOvertaking'
      BY <2>0, <3>2, <3>3 DEF NoOvertaking
    <3>5. read' \in Nat
      BY TypeStep DEF TypeOK
    <3>6. ReadBehind'
      BY <2>0, <3>2, <3>3, <3>5 DEF ReadBehind
    <3>7. GoneWasDelivered'
      BY <2>0, <3>2 DEF GoneWasDelivered
    <3>8. AckedUpstreamIsDelivered'
      BY <1>1, <2>0, <3>2, <3>3 DEF Clean, AckedUpstreamIsDelivered
    <3> QED BY <3>4, <3>6, <3>7, <3>8 DEF Clean
  <2> QED BY <2>1, <2>2
<1>4. ASSUME NEW overBytes \in BOOLEAN, OnSignal(overBytes) PROVE Clean'
  <2>0. nextId' = nextId /\ nextId \in Nat /\ disk' = disk /\ upAcked' = upAcked
    BY <1>4 DEF OnSignal, TypeOK
  <2>1. CASE broken
    BY <1>1, <1>4, <2>1 DEF OnSignal, Clean, NoOvertaking, ReadBehind, GoneWasDelivered,
                            AckedUpstreamIsDelivered
  <2>2. CASE ~broken
    <3>1. ReadEvents(tree, cnt)
      BY <1>4, <2>2 DEF OnSignal
    <3>2. /\ \A e \in tree : e.id < read' => e \in delivered'
          /\ \A e \in tree \cup disk.tree : (\E d \in delivered' : e.id < d.id) => e \in delivered'
          /\ \A e \in (tree \cup disk.tree) \ tree' : e \in delivered'
          /\ read' <= nextId \/ (NewEntry \in tree /\ read' <= nextId + 1)
      BY <1>1, <3>1, ReadEventsDelivers
    <3>3. tree' \subseteq tree /\ delivered \subseteq delivered'
      BY <3>1 DEF ReadEvents
    <3>4. NewEntry \notin tree
      BY <2>0 DEF NewEntry, FreshIds, Known
    <3>5. NoOvertaking' /\ ReadBehind' /\ GoneWasDelivered'
      BY <2>0, <3>2, <3>3, <3>4 DEF NoOvertaking, ReadBehind, GoneWasDelivered
    <3>6. AckedUpstreamIsDelivered'
      BY <1>1, <2>0, <3>2, <3>3 DEF Clean, AckedUpstreamIsDelivered
    <3> QED BY <3>5, <3>6 DEF Clean
  <2> QED BY <2>1, <2>2
<1>5. CASE OnOpen \/ OnClose
  BY <1>1, <1>5 DEF OnOpen, OnClose, durable, history, Clean, NoOvertaking, ReadBehind,
                    GoneWasDelivered, AckedUpstreamIsDelivered
<1>6. ASSUME NEW e \in sent, OnAck(e) PROVE Clean'
  BY <1>1, <1>6 DEF OnAck, Clean, NoOvertaking, ReadBehind, GoneWasDelivered,
                    AckedUpstreamIsDelivered
<1>7. ASSUME NEW e \in sent, OnFail(e) PROVE Clean'
  <2>1. read' \in Nat /\ read' <= read /\ read \in Nat /\ nextId \in Nat
    BY <1>7 DEF OnFail, Rewind, TypeOK, Entry
  <2>2. UNCHANGED <<tree, disk, nextId, delivered, upAcked>>
    BY <1>7 DEF OnFail
  <2>3. \A d \in tree : d.id \in Nat
    BY DEF TypeOK, Entry
  <2>4. ReadBehind'
    BY <1>1, <2>1, <2>2, <2>3 DEF Clean, ReadBehind
  <2> QED BY <1>1, <2>2, <2>4 DEF Clean, NoOvertaking, GoneWasDelivered, AckedUpstreamIsDelivered
<1>8. CASE Flush
  BY <1>1, <1>8 DEF Flush, volatile, history, Clean, NoOvertaking, ReadBehind, GoneWasDelivered,
                    AckedUpstreamIsDelivered
<1>9. CASE Restart
  <2>1. /\ tree' = disk.tree /\ disk' = disk /\ delivered' = delivered /\ upAcked' = upAcked
        /\ nextId' >= nextId /\ nextId' \in Nat /\ nextId \in Nat
    BY <1>9 DEF Restart, TypeOK
  <2>2. NoOvertaking' /\ GoneWasDelivered'
    BY <1>1, <2>1 DEF Clean, NoOvertaking, GoneWasDelivered
  <2>3. \A e \in disk.tree \cup delivered : e.id \in Nat /\ e.id < nextId
    BY DEF FreshIds, Known, TypeOK, Entry
  <2>4. ReadBehind'
    <3>1. CASE disk.state = None
      BY <1>9, <2>1, <2>3, <3>1 DEF Restart, ReadBehind
    <3>2. CASE disk.state # None
      <4>1. PICK d \in delivered : disk.state <= d.id
        BY <3>2 DEF ConfirmedWasAcked, IsCovered, VerdictsOnDelivered
      <4>2. read' = disk.state /\ disk.state \in Nat
        BY <1>9, <3>2 DEF Restart, TypeOK
      <4>3. \A e \in disk.tree : e.id < disk.state => e \in delivered
        BY <1>1, <2>3, <4>1, <4>2 DEF Clean, NoOvertaking
      <4> QED BY <2>1, <2>3, <4>1, <4>2, <4>3 DEF ReadBehind
    <3> QED BY <3>1, <3>2
  <2>5. AckedUpstreamIsDelivered'
    <3> SUFFICES ASSUME FlushOnEvent, NEW e \in upAcked, e \notin disk.tree PROVE e \in delivered
      BY <2>1 DEF AckedUpstreamIsDelivered
    <3>1. Covered(e)
      BY DEF AckedUpstreamIsDurable
    <3> QED BY <1>1, <3>1, CoveredWasDelivered DEF Clean, AckedUpstreamIsDelivered
  <2> QED BY <2>2, <2>4, <2>5 DEF Clean
<1>10. CASE UNCHANGED vars
  BY <1>1, <1>10 DEF vars, durable, volatile, history, Clean, NoOvertaking, ReadBehind,
                     GoneWasDelivered, AckedUpstreamIsDelivered
<1> QED BY <1>2, <1>3, <1>4, <1>5, <1>6, <1>7, <1>8, <1>9, <1>10 DEF Next

\* The delivery invariant holds in every reachable state.
LEMMA DeliveryInvariant == Spec => []DeliveryInv
<1>1. Init => DeliveryInv
  <2> SUFFICES ASSUME Init PROVE DeliveryInv
    OBVIOUS
  <2>1. DurableInv
    BY InitType DEF Init, DurableInv, ConfirmedWasAcked, IsCovered, AckedUpstreamIsDurable
  <2> QED BY <2>1 DEF Init, DeliveryInv, FreshIds, UniqueIds, Known, VerdictsOnDelivered, Clean,
                      NoOvertaking, ReadBehind, GoneWasDelivered, AckedUpstreamIsDelivered
<1>2. DeliveryInv /\ [Next]_vars => DeliveryInv'
  <2> SUFFICES ASSUME DeliveryInv, [Next]_vars PROVE DeliveryInv'
    OBVIOUS
  <2>1. DurableInv'
    BY DurableStep DEF DeliveryInv
  <2>2. (FreshIds /\ UniqueIds /\ VerdictsOnDelivered)'
    BY IdsStep
  <2>3. errors' = 0 => Clean'
    BY CleanStep
  <2> QED BY <2>1, <2>2, <2>3 DEF DeliveryInv
<1> QED BY <1>1, <1>2, PTL DEF Spec

\* At-least-once delivery: with flush_on_evnt and as long as no I/O or
\* decoding error happened, an event acknowledged upstream is stored or was
\* emitted, for any interleaving of verdicts, ticks, flushes and crashes.
THEOREM DeliveredOnceAcked == Spec => []AckedUpstreamIsDelivered
<1>1. DeliveryInv => AckedUpstreamIsDelivered
  BY DEF DeliveryInv, Clean, AckedUpstreamIsDelivered
<1> QED BY <1>1, DeliveryInvariant, PTL

\* The read position and the emission never run over a stored entry.
THEOREM NeverSkips == Spec => []NothingSkipped
<1>1. DeliveryInv => NothingSkipped
  BY DEF DeliveryInv, Clean, NoOvertaking, ReadBehind, NothingSkipped
<1> QED BY <1>1, DeliveryInvariant, PTL

----------------------------------------------------------------------------
(* The count of the entries and what the source was told.                  *)

\* An id is given out below MaxId only, so there are fewer entries than a word
\* can count; cnt never wraps.
SmallIds == \A e \in tree \cup disk.tree : e.id < MaxId
CountInv == SmallIds /\ BreakerMatchesFull

LEMMA SmallNumbers == \A x \in 0 .. Word - 1 : x % Word = x
<1>1. Word \in Nat /\ Word > 0
  BY WalAssumption DEF WalAssumption
<1> QED BY <1>1

\* Entries with ids of their own below MaxId: at most MaxId of them.
LEMMA FewEntries ==
  ASSUME NEW t, t \subseteq Entry, \A e \in t : e.id < MaxId, \A e, f \in t : e.id = f.id => e = f
  PROVE  IsFiniteSet(t) /\ Cardinality(t) \in Nat /\ Cardinality(t) < Word
<1>1. MaxId \in Nat /\ Word \in Nat /\ MaxId < Word
  BY WalAssumption DEF WalAssumption
<1>2. PICK f : f = [e \in t |-> e.id]
  OBVIOUS
<1>3. f \in Injection(t, 0 .. MaxId)
  BY <1>1, <1>2 DEF Injection, IsInjective, Entry
<1>4. IsFiniteSet(0 .. MaxId) /\ Cardinality(0 .. MaxId) = MaxId + 1
  BY <1>1, FS_Interval
<1>5. IsFiniteSet(t) /\ Cardinality(t) <= MaxId + 1
  BY <1>3, <1>4, FS_Injection
<1>6. Cardinality(t) \in Nat
  BY <1>5, FS_CardinalityType
<1>7. MaxId + 1 < Word
  BY WalAssumption DEF WalAssumption
<1> QED BY <1>1, <1>5, <1>6, <1>7

\* gc counts what it removes.
LEMMA GcCounts ==
  ASSUME NEW t, IsFiniteSet(t), Cardinality(t) < Word, ReadEvents(t, Cardinality(t))
  PROVE  cnt' = Cardinality(tree')
<1>1. PICK g : g = Garbage(t)
  OBVIOUS
<1>2. g \subseteq t
  BY <1>1 DEF Garbage
<1>3. tree' = t \ g /\ cnt' = (Cardinality(t) - Cardinality(g)) % Word
  BY <1>1 DEF ReadEvents, CountDown
<1>4. IsFiniteSet(g) /\ IsFiniteSet(t \ g) /\ g \cap (t \ g) = {} /\ g \cup (t \ g) = t
  BY <1>2, FS_Subset
<1>5. /\ Cardinality(g) \in Nat /\ Cardinality(t \ g) \in Nat /\ Cardinality(t) \in Nat
      /\ Cardinality(t) = Cardinality(g) + Cardinality(t \ g)
  <2>1. Cardinality(g) \in Nat /\ Cardinality(t \ g) \in Nat /\ Cardinality(t) \in Nat
    BY <1>4, FS_CardinalityType
  <2>2. Cardinality(g \cup (t \ g)) = Cardinality(g) + Cardinality(t \ g) - Cardinality(g \cap (t \ g))
    BY <1>4, FS_Union
  <2>3. Cardinality(g \cap (t \ g)) = 0
    BY <1>4, FS_EmptySet
  <2> QED BY <1>4, <2>1, <2>2, <2>3
<1>6. Word \in Nat
  BY WalAssumption DEF WalAssumption
<1>7. Cardinality(t) - Cardinality(g) = Cardinality(t \ g) /\ Cardinality(t \ g) \in 0 .. Word - 1
  BY <1>5, <1>6
<1> QED BY <1>3, <1>7, SmallNumbers

LEMMA CountStep ==
  ASSUME DeliveryInv, CountInv, [Next]_vars
  PROVE  CountInv'
<1>1. /\ TypeOK /\ Word \in Nat /\ MaxId \in Nat /\ nextId \in Nat
      /\ tree \subseteq Entry /\ disk.tree \subseteq Entry
      /\ \A e \in tree \cup disk.tree : e.id < nextId /\ e.id < MaxId
      /\ \A e, f \in tree : e.id = f.id => e = f
      /\ \A e, f \in disk.tree : e.id = f.id => e = f
  BY WalAssumption DEF WalAssumption, DeliveryInv, DurableInv, TypeOK, FreshIds, UniqueIds, Known, CountInv, SmallIds
<1>2. errors' = 0 => errors = 0
  BY DEF DeliveryInv, DurableInv, TypeOK, Next, vars, bounds, OnEvent, OnEventReadFails, OnEventStoreFails,
         OnSignal, OnSignalReadFails, ReadEventsFails, OnOpen, OnClose, OnAck, OnFail, Persist, Flush, Restart
<1>3. errors = 0 => cnt = Cardinality(tree) /\ upClosed = full
  BY DEF CountInv, BreakerMatchesFull
<1>4. NewEntry \in Entry /\ NewEntry.id = nextId
  BY <1>1, StoreType DEF NewEntry
<1>5. ASSUME nextId < MaxId
      PROVE  LET t == tree \cup {NewEntry}
             IN  /\ IsFiniteSet(t) /\ Cardinality(t) < Word
                 /\ \A e \in t : e.id < MaxId
                 /\ errors = 0 => (cnt + 1) % Word = Cardinality(t)
  <2>1. PICK t : t = tree \cup {NewEntry}
    OBVIOUS
  <2>2. /\ t \subseteq Entry /\ NewEntry \notin tree
        /\ \A e \in t : e.id < MaxId
        /\ \A e, f \in t : e.id = f.id => e = f
    BY <1>1, <1>4, <1>5, <2>1 DEF Entry
  <2>3. IsFiniteSet(t) /\ Cardinality(t) \in Nat /\ Cardinality(t) < Word
    BY <2>2, FewEntries
  <2>4. Cardinality(t) = Cardinality(tree) + 1
    BY <1>1, <2>1, <2>2, FS_AddElement DEF TypeOK
  <2>5. errors = 0 => cnt + 1 = Cardinality(t)
    BY <1>3, <2>4
  <2>6. Cardinality(t) % Word = Cardinality(t)
    BY <1>1, <2>3, SmallNumbers
  <2> QED BY <2>1, <2>2, <2>3, <2>5, <2>6
<1>6. ASSUME NEW transactional \in BOOLEAN, OnEvent(transactional) PROVE CountInv'
  <2>1. PICK t : t = tree \cup {NewEntry}
    OBVIOUS
  <2>2. nextId < MaxId /\ (disk' = disk \/ disk'.tree = t) /\ UNCHANGED <<upClosed, full, errors>>
    BY <1>6, <2>1 DEF OnEvent, StoreEvent, bounds
  <2>3. /\ IsFiniteSet(t) /\ Cardinality(t) < Word /\ (\A e \in t : e.id < MaxId)
        /\ errors = 0 => (cnt + 1) % Word = Cardinality(t)
    BY <1>5, <2>1, <2>2
  <2>4. CASE broken
    <3>1. tree' = t /\ cnt' = (cnt + 1) % Word
      BY <1>6, <2>1, <2>4 DEF OnEvent
    <3> QED BY <1>1, <1>3, <2>2, <2>3, <3>1 DEF CountInv, SmallIds, BreakerMatchesFull
  <2>5. CASE ~broken
    <3>1. ReadEvents(t, (cnt + 1) % Word)
      BY <1>6, <2>1, <2>5 DEF OnEvent
    <3>2. tree' \subseteq t
      BY <3>1 DEF ReadEvents
    <3>3. errors = 0 => cnt' = Cardinality(tree')
      BY <2>3, <3>1, GcCounts
    <3> QED BY <1>1, <1>3, <2>2, <2>3, <3>2, <3>3 DEF CountInv, SmallIds, BreakerMatchesFull
  <2> QED BY <2>4, <2>5
<1>7. CASE OnEventReadFails \/ OnEventStoreFails
  <2>1. /\ nextId < MaxId /\ tree' \subseteq tree \cup {NewEntry}
        /\ disk' = disk \/ disk'.tree = tree \cup {NewEntry}
    <3>1. CASE OnEventReadFails
      <4>1. tree' \subseteq tree \cup {NewEntry}
        BY <3>1 DEF OnEventReadFails, ReadEventsFails
      <4> QED BY <3>1, <4>1 DEF OnEventReadFails, StoreEvent
    <3>2. CASE OnEventStoreFails
      BY <3>2 DEF OnEventStoreFails
    <3> QED BY <1>7, <3>1, <3>2
  <2>2. errors' # 0
    BY <1>1, <1>7 DEF OnEventReadFails, OnEventStoreFails, ReadEventsFails, TypeOK
  <2> QED BY <1>1, <1>5, <2>1, <2>2 DEF CountInv, SmallIds, BreakerMatchesFull
<1>8. ASSUME NEW overBytes \in BOOLEAN, OnSignal(overBytes) PROVE CountInv'
  <2>1. full' = LimitReached(overBytes) /\ UNCHANGED <<disk, errors>>
        /\ upClosed' = IF full # full' THEN full' ELSE upClosed
    BY <1>8 DEF OnSignal, TellUpstream, bounds
  <2>2. errors = 0 => upClosed' = full'
    BY <1>3, <2>1
  <2>3. CASE broken
    BY <1>1, <1>3, <1>8, <2>1, <2>2, <2>3 DEF OnSignal, CountInv, SmallIds, BreakerMatchesFull
  <2>4. CASE ~broken
    <3>1. ReadEvents(tree, cnt)
      BY <1>8, <2>4 DEF OnSignal
    <3>2. tree' \subseteq tree
      BY <3>1 DEF ReadEvents
    <3>3. IsFiniteSet(tree) /\ Cardinality(tree) < Word
      BY <1>1, FewEntries
    <3>4. errors = 0 => cnt' = Cardinality(tree')
      BY <1>3, <3>1, <3>3, GcCounts
    <3> QED BY <1>1, <2>1, <2>2, <3>2, <3>4 DEF CountInv, SmallIds, BreakerMatchesFull
  <2> QED BY <2>3, <2>4
<1>9. ASSUME NEW overBytes \in BOOLEAN, OnSignalReadFails(overBytes) PROVE CountInv'
  <2>1. tree' \subseteq tree /\ disk' = disk
    BY <1>9 DEF OnSignalReadFails, ReadEventsFails
  <2>2. errors' # 0
    BY <1>1, <1>9 DEF OnSignalReadFails, ReadEventsFails, TypeOK
  <2> QED BY <1>1, <2>1, <2>2 DEF CountInv, SmallIds, BreakerMatchesFull
<1>10. ASSUME UNCHANGED <<tree, disk, cnt, upClosed, full>> PROVE CountInv'
  BY <1>1, <1>2, <1>3, <1>10 DEF CountInv, SmallIds, BreakerMatchesFull
<1>11. CASE OnOpen \/ OnClose \/ (\E e \in sent : OnAck(e) \/ OnFail(e)) \/ UNCHANGED vars
  BY <1>10, <1>11 DEF OnOpen, OnClose, OnAck, OnFail, vars, durable, volatile, history
<1>12. CASE Flush
  BY <1>1, <1>2, <1>3, <1>12 DEF Flush, volatile, history, CountInv, SmallIds, BreakerMatchesFull
<1>13. CASE Restart
  <2>1. /\ tree' = disk.tree /\ disk' = disk /\ cnt' = Cardinality(disk.tree) % Word
        /\ upClosed' = FALSE /\ full' = FALSE
    BY <1>13 DEF Restart
  <2>2. Cardinality(disk.tree) \in 0 .. Word - 1
    <3>1. Cardinality(disk.tree) \in Nat /\ Cardinality(disk.tree) < Word
      BY <1>1, FewEntries
    <3> QED BY <1>1, <3>1
  <2>3. cnt' = Cardinality(tree')
    BY <2>1, <2>2, SmallNumbers
  <2> QED BY <1>1, <2>1, <2>3 DEF CountInv, SmallIds, BreakerMatchesFull
<1> QED BY <1>6, <1>7, <1>8, <1>9, <1>11, <1>12, <1>13 DEF Next

\* Without errors the number by which the WAL decides that it is full is the
\* number of entries stored, however many events, restarts and verdicts there
\* were, and the source was last told what the WAL found.
THEOREM CountIsExact == Spec => []BreakerMatchesFull
<1>1. Init => CountInv
  <2> SUFFICES ASSUME Init PROVE CountInv
    OBVIOUS
  <2>1. tree = {} /\ disk.tree = {} /\ cnt = 0 /\ upClosed = FALSE /\ full = FALSE
    BY DEF Init
  <2> QED BY <2>1, FS_EmptySet DEF CountInv, SmallIds, BreakerMatchesFull
<1>2. DeliveryInv /\ CountInv /\ [Next]_vars => CountInv'
  BY CountStep
<1>3. CountInv => BreakerMatchesFull
  BY DEF CountInv
<1> QED BY <1>1, <1>2, <1>3, DeliveryInvariant, PTL DEF Spec

-----------------------------------------------------------------------------
(* The write-ahead log implements the abstract log (module ReliableLog),   *)
(* for every value of its constants with MaxErrors = 0 and flush_on_evnt   *)
(* set.  Every step of the operator maps to Work or to a stutter, the      *)
(* restart to Crash.  DeliveryInv says why nothing is skipped; the         *)
(* identity of entries and their ids being fresh say why nothing is        *)
(* overtaken.                                                              *)

ErrorFree == errors = 0

\* Without errors in the bound, none happens.
LEMMA NoErrorStep ==
  ASSUME MaxErrors = 0, ErrorFree, [Next]_vars
  PROVE  ErrorFree'
<1>1. errors' = errors
  BY DEF Next, vars, bounds, OnEvent, OnEventReadFails, OnEventStoreFails, OnSignal,
         OnSignalReadFails, ReadEventsFails, OnOpen, OnClose, OnAck, OnFail, Persist, Flush, Restart,
         ErrorFree
<1> QED BY <1>1 DEF ErrorFree

\* The entry stored last is beyond everything the sinks know of.
LEMMA NewIsNotGarbage ==
  ASSUME DeliveryInv, NEW t
  PROVE  NewEntry \notin Garbage(t)
<1> SUFFICES ASSUME NewEntry \in Garbage(t) PROVE FALSE
  OBVIOUS
<1>1. confirmed \in Nat /\ nextId \in Nat /\ nextId <= confirmed
  BY DEF DeliveryInv, DurableInv, TypeOK, Garbage, NewEntry, None
<1>2. PICK a \in acked : confirmed <= a
  BY <1>1 DEF DeliveryInv, DurableInv, ConfirmedWasAcked, IsCovered, None
<1>3. PICK d \in delivered : d.id = a
  BY DEF DeliveryInv, VerdictsOnDelivered
<1>4. d.id \in Nat /\ d.id < nextId
  BY DEF DeliveryInv, DurableInv, TypeOK, Entry, FreshIds, Known
<1> QED BY <1>1, <1>2, <1>3, <1>4

\* Every step of the detailed log is a step of the abstract one.
LEMMA StepSimulation ==
  ASSUME DeliveryInv, DeliveryInv', ErrorFree, ErrorFree', MaxErrors = 0, FlushOnEvent,
         [Next]_vars
  PROVE  [Log!Work \/ Log!Crash]_(Log!log)
<1>1. Clean /\ Clean' /\ TypeOK
  BY DEF DeliveryInv, DurableInv, ErrorFree
<1>2. Log!InOrder(tree', delivered')
  BY <1>1 DEF Clean, NoOvertaking, Log!InOrder
<1>3. AckedUpstreamIsDelivered'
  BY <1>1 DEF Clean
<1>4. upAcked' \subseteq tree' \cup delivered'
  BY <1>3 DEF AckedUpstreamIsDelivered, ErrorFree
<1>5. ASSUME delivered \subseteq delivered', upAcked \subseteq upAcked',
             delivered' \ delivered \subseteq tree \cup tree',
             tree \ tree' \subseteq delivered'
      PROVE  Log!Work
  BY <1>2, <1>4, <1>5 DEF Log!Work
<1>6. ASSUME NEW t, t = tree \/ t = tree \cup {NewEntry}, NEW c, ReadEvents(t, c),
             upAcked \subseteq upAcked'
      PROVE  Log!Work
  <2>1. /\ \A e \in (t \cup disk.tree) \ tree' : e \in delivered'
        /\ delivered' \subseteq delivered \cup t
    BY <1>6, ReadEventsDelivers DEF ErrorFree
  <2>2. delivered \subseteq delivered'
    BY <1>6 DEF ReadEvents
  <2>3. NewEntry \notin Garbage(t)
    BY NewIsNotGarbage DEF ErrorFree
  <2>4. t \subseteq tree \cup tree'
    BY <1>6, <2>3 DEF ReadEvents
  <2> QED BY <1>5, <1>6, <2>1, <2>2, <2>4
<1>7. ASSUME NEW tx \in BOOLEAN, OnEvent(tx) PROVE Log!Work
  <2>1. upAcked \subseteq upAcked'
    BY <1>7 DEF OnEvent
  <2>2. CASE broken
    BY <1>5, <1>7, <2>1, <2>2 DEF OnEvent
  <2>3. CASE ~broken
    BY <1>6, <1>7, <2>1, <2>3 DEF OnEvent
  <2> QED BY <2>2, <2>3
<1>8. ASSUME NEW o \in BOOLEAN, OnSignal(o) PROVE Log!Work
  <2>1. upAcked' = upAcked
    BY <1>8 DEF OnSignal
  <2>2. CASE broken
    BY <1>5, <1>8, <2>1, <2>2 DEF OnSignal
  <2>3. CASE ~broken
    BY <1>6, <1>8, <2>1, <2>3 DEF OnSignal
  <2> QED BY <2>2, <2>3
<1>9. ~OnEventReadFails /\ ~OnEventStoreFails /\ \A o \in BOOLEAN : ~OnSignalReadFails(o)
  BY DEF OnEventReadFails, OnEventStoreFails, OnSignalReadFails, ReadEventsFails, ErrorFree
<1>10. ASSUME OnOpen \/ OnClose \/ Flush \/ UNCHANGED vars \/ \E e \in sent : OnAck(e) \/ OnFail(e)
       PROVE  UNCHANGED Log!log
  BY <1>10 DEF OnOpen, OnClose, Flush, OnAck, OnFail, vars, durable, history, Log!log
<1>11. CASE Restart
  <2>1. tree' = disk.tree /\ upAcked' = upAcked /\ delivered' = delivered
    BY <1>11 DEF Restart
  <2>2. disk.tree \subseteq tree \cup delivered
    BY <1>1 DEF Clean, GoneWasDelivered
  <2>3. Log!Crash
    BY <1>2, <1>4, <2>1, <2>2 DEF Log!Crash
  <2> QED BY <2>3
<1> QED BY <1>7, <1>8, <1>9, <1>10, <1>11 DEF Next

\* With flush_on_evnt and without I/O errors qos::wal is a reliable log: an
\* event it acknowledged is kept until it was emitted, entries are emitted for
\* the first time in the order they were stored, and neither changes when the
\* process stops at any moment and starts from what was flushed.
THEOREM WalIsReliable ==
  ASSUME MaxErrors = 0, FlushOnEvent
  PROVE  Spec => ImplementsReliableLog
<1>1. Init => Log!LogInit /\ ErrorFree
  BY DEF Init, Log!LogInit, ErrorFree
<1>2. DeliveryInv /\ DeliveryInv' /\ ErrorFree /\ [Next]_vars
          => [Log!Work \/ Log!Crash]_(Log!log) /\ ErrorFree'
  BY NoErrorStep, StepSimulation
<1> QED BY <1>1, <1>2, DeliveryInvariant, PTL DEF Spec, ImplementsReliableLog, Log!LogSpec
============================================================================
