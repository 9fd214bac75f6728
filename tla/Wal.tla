-------------------------------- MODULE Wal --------------------------------
(***************************************************************************)
(* The write-ahead-log operator qos::wal                                   *)
(* (tremor-pipeline/src/op/qos/wal.rs).                                    *)
(*                                                                         *)
(* The operator stores every event in a sled tree under a fresh, growing   *)
(* id, acknowledges it upstream, and feeds the operators after it from the *)
(* tree.  Verdicts of the sinks come back as insights: an Ack confirms     *)
(* everything up to an id, a Fail rewinds the read position.  The process  *)
(* may stop at any moment; sled keeps what it flushed.                     *)
(*                                                                         *)
(* An event is a stored entry: its id and the uid of the operator that     *)
(* stored it (the source id inside its EventId).  The payload is left out. *)
(* The environment is as loose as the code allows: several sinks, each at  *)
(* its own pace, may acknowledge or fail whatever was emitted since the    *)
(* process started, in any order and repeatedly.                           *)
(***************************************************************************)
EXTENDS Integers, FiniteSets

CONSTANTS
    ReadCount,      \* config.read_count
    MaxElements,    \* config.max_elements
    UseMaxBytes,    \* is config.max_bytes set?
    FlushOnEvent,   \* config.flush_on_evnt
    Uids,           \* the uids an operator may get when the process starts
    Word,           \* 2^64: cnt is an u64 and wraps in a release build
    MaxId,          \* bound: ids the run may hand out
    MaxFails,       \* bound: Fail insights
    MaxCrashes,     \* bound: process restarts
    MaxErrors       \* bound: I/O or decoding errors

ASSUME WalAssumption ==
    /\ ReadCount \in Nat /\ MaxElements \in Nat
    /\ UseMaxBytes \in BOOLEAN /\ FlushOnEvent \in BOOLEAN
    /\ Uids # {}
    /\ MaxId \in Nat /\ MaxFails \in Nat /\ MaxCrashes \in Nat /\ MaxErrors \in Nat
    /\ Word \in Nat /\ Word > MaxId + 1

VARIABLES
    tree,       \* events_tree: the stored entries
    state,      \* state_tree["confirmed"], None if absent
    cnt,        \* Wal.cnt
    read,       \* Wal.read, the next id to read
    confirmed,  \* Wal.confirmed
    broken,     \* Wal.broken
    full,       \* Wal.full
    uid,        \* the operator's uid in this process
    nextId,     \* sled's generate_id
    disk,       \* what a crash leaves: the last flushed tree and state
    upAcked,    \* history: entries acknowledged upstream
    upClosed,   \* the last Close/Open sent upstream was Close
    sent,       \* entries emitted since the process started
    delivered,  \* history: entries emitted by any process
    acked,      \* history: ids the sinks acknowledged to this operator
    owed,       \* history: failed entries not emitted or acknowledged since
    fails, crashes, errors      \* how much of the bounds is used

durable == <<tree, state, disk, nextId>>
volatile == <<cnt, read, confirmed, broken, full, uid>>
history == <<upAcked, upClosed, sent, delivered, acked, owed>>
bounds == <<fails, crashes, errors>>
vars == <<durable, volatile, history, bounds>>

None == -1      \* an absent Option<Idx>: below every id
Entry == [id : Nat, uid : Uids]

Init ==
    /\ tree = {} /\ state = None /\ disk = [tree |-> {}, state |-> None]
    /\ nextId = 0
    /\ cnt = 0 /\ read = 0 /\ confirmed = None
    /\ broken = TRUE /\ full = FALSE
    /\ uid \in Uids
    /\ upAcked = {} /\ upClosed = FALSE /\ sent = {} /\ delivered = {}
    /\ acked = {} /\ owed = {}
    /\ fails = 0 /\ crashes = 0 /\ errors = 0

----------------------------------------------------------------------------
(* Helpers of the operator.                                                *)

\* range(read..) of tree t, cut where num_read > read_count: the loop lets
\* read_count + 1 entries through.
Batch(t) ==
    LET pending == {e \in t : e.id >= read}
    IN  {e \in pending : Cardinality({d \in pending : d.id < e.id}) <= ReadCount}

\* Faulty variant: read jumps to the end of the log.
AdvanceToEnd(b) == read' = IF b = {} THEN read ELSE nextId

\* Faulty variant: read is one further than the last entry read.
AdvanceTwo(b) ==
    \/ b = {} /\ read' = read
    \/ \E m \in b : read' = m.id + 2 /\ \A e \in b : e.id <= m.id

\* read after the loop went over the entries b: one past the last
Advance(b) ==
    \/ b = {} /\ read' = read
    \/ \E m \in b : read' = m.id + 1 /\ \A e \in b : e.id <= m.id

\* Faulty variant: gc takes one entry too many.
GarbagePlusOne(t) == {e \in t : confirmed # None /\ e.id <= confirmed + 1}

\* range(..=confirmed): what gc removes from tree t
Garbage(t) == {e \in t : e.id <= confirmed}

\* Faulty variant: gc forgets to count.
KeepCount(c, n) == c

\* cnt after n entries were removed, in u64 arithmetic
CountDown(c, n) == (c - n) % Word

LimitReached(overBytes) == cnt >= MaxElements \/ (UseMaxBytes /\ overBytes)

\* read_events on tree t with c entries counted: emit a batch, then gc.
ReadEvents(t, c) ==
    LET b == Batch(t)
    IN  /\ Advance(b)
        /\ tree' = t \ Garbage(t)
        /\ cnt' = CountDown(c, Cardinality(Garbage(t)))
        /\ sent' = sent \cup b
        /\ delivered' = delivered \cup b
        /\ owed' = owed \ b

\* read_events giving up: the entries read so far are dropped, read stays
\* advanced.  Either the loop stops at an entry (before it when the iterator
\* fails, after it when decoding fails) and gc is not reached, or gc stops at
\* an entry that it counted as removed already.
ReadEventsFails(t, c) ==
    /\ errors < MaxErrors /\ errors' = errors + 1
    /\ \/ /\ Batch(t) # {}
          /\ read' \in {read} \cup {e.id + 1 : e \in Batch(t)}
          /\ tree' = t /\ cnt' = c
       \/ \E e \in Garbage(t) :
            LET gone == {d \in t : d.id < e.id}
            IN  /\ Advance(Batch(t))
                /\ tree' = t \ gone
                /\ cnt' = CountDown(c, Cardinality(gone) + 1)
    /\ UNCHANGED <<sent, delivered, owed>>

----------------------------------------------------------------------------
(* on_event                                                                *)

NewEntry == [id |-> nextId, uid |-> uid]

\* Faulty variant: flush_on_evnt is not looked at.
StoreUnflushed == nextId < MaxId /\ nextId' = nextId + 1 /\ disk' = disk

\* store_event: insert, then flush if configured.
StoreEvent ==
    /\ nextId < MaxId
    /\ nextId' = nextId + 1
    /\ disk' = IF FlushOnEvent THEN [tree |-> tree \cup {NewEntry}, state |-> state]
                               ELSE disk

\* The event is stored, acknowledged if it is transactional, and, unless the
\* circuit breaker is closed, the next batch is emitted.
OnEvent(transactional) ==
    /\ StoreEvent
    /\ upAcked' = IF transactional THEN upAcked \cup {NewEntry} ELSE upAcked
    /\ \/ /\ broken
          /\ tree' = tree \cup {NewEntry} /\ cnt' = (cnt + 1) % Word
          /\ UNCHANGED <<read, sent, delivered, owed>>
       \/ /\ ~broken
          /\ ReadEvents(tree \cup {NewEntry}, (cnt + 1) % Word)
    /\ UNCHANGED <<state, confirmed, broken, full, uid, upClosed, acked, bounds>>

\* read_events returns an error: on_event returns it, the Ack is not sent.
OnEventReadFails ==
    /\ StoreEvent
    /\ ~broken
    /\ ReadEventsFails(tree \cup {NewEntry}, (cnt + 1) % Word)
    /\ UNCHANGED <<state, confirmed, broken, full, uid, upClosed, upAcked, acked,
                   fails, crashes>>

\* store_event returns an error: nothing is stored, or the entry was inserted
\* and the flush failed, which leaves it stored but not counted.
OnEventStoreFails ==
    /\ errors < MaxErrors /\ errors' = errors + 1
    /\ nextId < MaxId /\ nextId' = nextId + 1
    /\ tree' \in {tree} \cup (IF FlushOnEvent THEN {tree \cup {NewEntry}} ELSE {})
    /\ UNCHANGED <<state, disk, volatile, history, fails, crashes>>

----------------------------------------------------------------------------
(* on_signal                                                               *)

\* Faulty variant: the restore is never sent.
TellTriggerOnly(nowFull) == IF ~full /\ nowFull THEN TRUE ELSE upClosed

\* cb_restore or cb_trigger when the limit was crossed since the last signal
TellUpstream(nowFull) == IF full # nowFull THEN nowFull ELSE upClosed

\* The breaker state sent upstream changes when the limit is crossed either
\* way; then a batch is emitted unless downstream is broken.
OnSignal(overBytes) ==
    /\ full' = LimitReached(overBytes)
    /\ upClosed' = TellUpstream(LimitReached(overBytes))
    /\ \/ broken /\ UNCHANGED <<tree, cnt, read, sent, delivered, owed>>
       \/ ~broken /\ ReadEvents(tree, cnt)
    /\ UNCHANGED <<state, disk, nextId, confirmed, broken, uid, upAcked, acked, bounds>>

\* The error of read_events discards the insight about the limit as well.
OnSignalReadFails(overBytes) ==
    /\ ~broken
    /\ full' = LimitReached(overBytes)
    /\ ReadEventsFails(tree, cnt)
    /\ UNCHANGED <<state, disk, nextId, confirmed, broken, uid, upAcked, upClosed, acked,
                   fails, crashes>>

----------------------------------------------------------------------------
(* on_contraflow: e is the entry whose id get_max_by_source (Ack) or       *)
(* get_min_by_source (Fail) finds in the insight; entries stored under     *)
(* another uid are not found.                                              *)

OnOpen ==
    /\ broken' = FALSE
    /\ UNCHANGED <<durable, cnt, read, confirmed, full, uid, history, bounds>>

OnClose ==
    /\ broken' = TRUE
    /\ UNCHANGED <<durable, cnt, read, confirmed, full, uid, history, bounds>>

\* The new value of state_tree["confirmed"] when it is set to id; an error is
\* only logged.
Persist(id) ==
    \/ state' = id /\ UNCHANGED errors
    \/ errors < MaxErrors /\ errors' = errors + 1 /\ UNCHANGED state

\* Faulty variants: a Fail rewinds one entry too far, or not at all.
RewindTooFar(id) == IF id < read THEN id - 1 ELSE read
NoRewind(id) == read

\* Idx::set_min on read
Rewind(id) == IF id < read THEN id ELSE read

OnAck(e) ==
    /\ e \in sent
    /\ \/ /\ e.uid = uid
          /\ confirmed' = e.id
          /\ Persist(e.id)
          /\ acked' = acked \cup {e.id}
          /\ owed' = {d \in owed : d.id > e.id}
       \/ /\ e.uid # uid
          /\ owed' = {d \in owed : d.id > e.id}
          /\ UNCHANGED <<confirmed, state, acked, errors>>
    /\ UNCHANGED <<tree, disk, nextId, cnt, read, broken, full, uid, upAcked, upClosed,
                   sent, delivered, fails, crashes>>

OnFail(e) ==
    /\ e \in sent
    /\ fails < MaxFails /\ fails' = fails + 1
    /\ owed' = IF e \in tree THEN owed \cup {e} ELSE owed
    /\ \/ /\ e.uid = uid
          /\ read' = Rewind(e.id)
          /\ \/ e.id < confirmed /\ confirmed' = e.id /\ Persist(e.id)
             \/ e.id >= confirmed /\ UNCHANGED <<confirmed, state, errors>>
       \/ /\ e.uid # uid
          /\ UNCHANGED <<read, confirmed, state, errors>>
    /\ UNCHANGED <<tree, disk, nextId, cnt, broken, full, uid, upAcked, upClosed, sent,
                   delivered, acked, crashes>>

----------------------------------------------------------------------------
(* sled and the process                                                    *)

\* sled flushes on its own every so often.
Flush ==
    /\ disk' = [tree |-> tree, state |-> state]
    /\ UNCHANGED <<tree, state, nextId, volatile, history, bounds>>

\* The process stops and starts again: Wal::new on what was flushed, under a
\* uid the new process drew.  generate_id never repeats an id and may skip
\* some.  Insights under way are gone, and so is what the source was told.
Restart ==
    /\ crashes < MaxCrashes /\ crashes' = crashes + 1
    /\ tree' = disk.tree /\ state' = disk.state
    /\ nextId' \in {nextId, nextId + 1}
    /\ cnt' = Cardinality(disk.tree) % Word
    /\ confirmed' = disk.state
    /\ read' = IF disk.state = None THEN 0 ELSE disk.state
    /\ broken' = TRUE /\ full' = FALSE
    /\ uid' \in Uids
    /\ upClosed' = FALSE /\ sent' = {} /\ owed' = {}
    /\ UNCHANGED <<disk, upAcked, delivered, acked, fails, errors>>

Next ==
    \/ \E transactional \in BOOLEAN : OnEvent(transactional)
    \/ OnEventReadFails
    \/ OnEventStoreFails
    \/ \E overBytes \in BOOLEAN : OnSignal(overBytes) \/ OnSignalReadFails(overBytes)
    \/ OnOpen
    \/ OnClose
    \/ \E e \in sent : OnAck(e) \/ OnFail(e)
    \/ Flush
    \/ Restart

Spec == Init /\ [][Next]_vars

----------------------------------------------------------------------------
(* Properties                                                              *)

TypeOK ==
    /\ tree \subseteq Entry /\ IsFiniteSet(tree)
    /\ disk.tree \subseteq Entry /\ IsFiniteSet(disk.tree)
    /\ disk = [tree |-> disk.tree, state |-> disk.state]
    /\ {state, confirmed, disk.state} \subseteq Nat \cup {None}
    /\ nextId \in Nat /\ read \in Nat /\ cnt \in 0 .. Word - 1
    /\ broken \in BOOLEAN /\ full \in BOOLEAN /\ upClosed \in BOOLEAN
    /\ uid \in Uids
    /\ upAcked \subseteq Entry /\ sent \subseteq Entry /\ delivered \subseteq Entry
    /\ owed \subseteq Entry /\ acked \subseteq Nat
    /\ fails \in Nat /\ crashes \in Nat /\ errors \in Nat

\* The sinks acknowledged e, directly or by acknowledging a later entry:
\* "All messages prior to and including this will be considered delivered".
Covered(e) == \E a \in acked : e.id <= a

\* With flush_on_evnt, an event the WAL acknowledged to its source survives
\* any crash: it is in the tree and flushed until the sinks acknowledge it or
\* a later one.  Errors do not weaken this.
AckedUpstreamIsDurable ==
    FlushOnEvent =>
        \A e \in upAcked : (e \in tree /\ e \in disk.tree) \/ Covered(e)

\* At-least-once: with flush_on_evnt and no I/O error, an event acknowledged
\* upstream is still stored or was emitted to the operators behind the WAL.
\* The cumulative confirm and the rewinding read position never skip one.
AckedUpstreamIsDelivered ==
    FlushOnEvent /\ errors = 0 => \A e \in upAcked : e \in tree \/ e \in delivered

\* The read position never runs over a stored entry without emitting it, and
\* what is emitted never overtakes a stored entry.
NothingSkipped ==
    errors = 0 => \A e \in tree :
        (e.id < read \/ \E d \in delivered : e.id < d.id) => e \in delivered

\* cnt, which decides whether the WAL is full, is the number of entries
\* stored, although it is counted by hand at every insert, gc and restart; and
\* the source was last told to stop exactly when the WAL found itself full.
BreakerMatchesFull == errors = 0 => cnt = Cardinality(tree) /\ upClosed = full

\* "In case of delivery failure the WAL operator will replay the failed
\* events": a failed entry stays stored until it is emitted again or
\* acknowledged.
FailedStaysStored == owed \subseteq tree

\* "events are only removed from disk once they're acknowledged": no step but
\* a restart takes an entry out of the tree that no Ack covers.
RemovedOnlyOnceAcked ==
    [][crashes' = crashes => \A e \in tree \ tree' : Covered(e)]_vars

Log == INSTANCE ReliableLog WITH stored <- tree, promised <- upAcked

\* Without I/O errors and with flush_on_evnt, the operator with its two sled
\* trees, positions and breaker, flushing and crashing, is a reliable log.
ImplementsReliableLog == Log!LogSpec

\* With the ticks going on (weak fairness of OnSignal) and the breaker in the
\* end open, every stored entry is eventually emitted, whatever is failed and
\* confirmed meanwhile.
FairSpec == Spec /\ WF_vars(\E o \in BOOLEAN : OnSignal(o))
StoredIsEmitted ==
    <>[](~broken) => \A i \in 0 .. MaxId :
        (\E e \in tree : e.id = i) ~> (\E e \in delivered : e.id = i)

\* Under the same fairness a failed entry is eventually emitted again, or
\* acknowledged, provided a batch is large enough for the whole backlog.
FailedIsReplayed ==
    <>[](~broken) => \A i \in 0 .. MaxId :
        (\E e \in owed : e.id = i) ~> ~(\E e \in owed : e.id = i)
============================================================================
