---------------------------- MODULE KafkaSource ----------------------------
(***************************************************************************)
(* The kafka source (src/source/kafka.rs, and what SourceManager::run does *)
(* with a message), transactional unless enable.auto.commit is set.        *)
(*                                                                         *)
(* A message becomes zero or more events with consecutive ids; the source  *)
(* remembers the offset of the message under the first of them.  An Ack    *)
(* commits, and forgets, everything up to its id; a Fail seeks.  The       *)
(* broker keeps the committed offsets, and after a restart the consumer    *)
(* starts from them.  The actions are composed with a sink in Delivery.    *)
(***************************************************************************)
EXTENDS Integers, FiniteSets, FiniteSetsExt

CONSTANTS
    Partitions,
    LogSize,        \* messages in each partition
    Retries,        \* values of config.retry_failed_events to check
    MaxId,          \* bound: events
    MaxFaults       \* bound: Fails, errors of the broker and restarts together

ASSUME KafkaAssumption ==
    /\ LogSize \in [Partitions -> Nat] /\ Retries \subseteq BOOLEAN
    /\ MaxId \in Nat /\ MaxFaults \in Nat

VARIABLES
    retry,      \* config.retry_failed_events
    pos,        \* the next offset the consumer reads
    committed,  \* the offsets the broker has
    messages,   \* Int.messages: offsets by event id
    nextId,     \* SourceManager.id
    emitted,    \* history: the message of every event of this process
    covered,    \* history: messages an Ack spoke for
    empty,      \* history: messages that became no event
    owed,       \* history: failed messages that were not read or acknowledged since
    fails, errors, restarts     \* how much of the bound is used

source == <<retry, pos, committed, messages, nextId, emitted, covered, empty, owed>>
sourceBounds == <<fails, errors, restarts>>

SourceInit ==
    /\ retry \in Retries
    /\ pos = [p \in Partitions |-> 0] /\ committed = [p \in Partitions |-> 0]
    /\ messages = {} /\ nextId = 0
    /\ emitted = {} /\ covered = {} /\ empty = {} /\ owed = {}
    /\ fails = 0 /\ errors = 0 /\ restarts = 0

----------------------------------------------------------------------------

Message(x) == <<x.p, x.o>>
MayFault == fails + errors + restarts < MaxFaults

\* Faulty variants: the message itself is left out, and one offset too many.
TopicMapBefore(ms, id) ==
    LET split == {x \in ms : x.id < id}
    IN  [p \in {x.p : x \in split} |-> Max({x.o : x \in {y \in split : y.p = p}}) + 1]
TopicMapTooFar(ms, id) ==
    LET split == {x \in ms : x.id <= id}
    IN  [p \in {x.p : x \in split} |-> Max({x.o : x \in {y \in split : y.p = p}}) + 2]

\* get_topic_map_for_id: for every partition one past the highest offset
\* remembered up to and including id
TopicMap(ms, id) ==
    LET split == {x \in ms : x.id <= id}
    IN  [p \in {x.p : x \in split} |-> Max({x.o : x \in {y \in split : y.p = p}}) + 1]

Override(f, g) == [p \in Partitions |-> IF p \in DOMAIN g THEN g[p] ELSE f[p]]

\* fail(id), with the offsets ms remembered and the consumer at position at:
\* what was remembered up to id is forgotten, then the consumer seeks one
\* partition after the other, up to an error.
FailAt(id, ms, at) ==
    LET tm == TopicMap(ms, id)
    IN  /\ MayFault /\ fails' = fails + 1
        /\ owed' = IF retry THEN owed \cup {Message(x) : x \in {y \in ms : y.id = id}}
                   ELSE owed
        /\ \/ ~retry /\ messages' = ms /\ pos' = at /\ UNCHANGED errors
           \/ /\ retry /\ messages' = {x \in ms : x.id > id}
              /\ \/ pos' = Override(at, tm) /\ UNCHANGED errors
                 \/ \E done \in SUBSET DOMAIN tm :
                      /\ done # DOMAIN tm /\ errors' = errors + 1
                      /\ pos' = Override(at, [p \in done |-> tm[p]])

\* pull_event and the way of the message through SourceManager::run: k events
\* are sent; when a pipeline does not take one of them the message is failed.
\* The id is not advanced when there is no event, so the next message replaces
\* this one in messages.
Pull(p, k, sendFails) ==
    LET m == [id |-> nextId, p |-> p, o |-> pos[p]]
        ms == {x \in messages : x.id # nextId} \cup {m}
        at == [pos EXCEPT ![p] = @ + 1]
    IN  /\ pos[p] < LogSize[p]
        /\ nextId + k <= MaxId
        /\ nextId' = nextId + k
        /\ emitted' = emitted \cup {[m EXCEPT !.id = nextId + i] : i \in 0 .. k - 1}
        /\ empty' = IF k = 0 THEN empty \cup {Message(m)} ELSE empty
        /\ \/ sendFails /\ k > 0 /\ FailAt(nextId, ms, at)
           \/ /\ ~sendFails
              /\ messages' = ms /\ pos' = at
              /\ owed' = owed \ {Message(m)}
              /\ UNCHANGED <<fails, errors>>
        /\ UNCHANGED <<retry, committed, covered, restarts>>

\* With enable.auto.commit the offsets are not remembered and an Ack or a Fail
\* does nothing; librdkafka commits what was read.
PullAutoCommit(p, k) ==
    /\ pos[p] < LogSize[p] /\ nextId + k <= MaxId
    /\ pos' = [pos EXCEPT ![p] = @ + 1] /\ nextId' = nextId + k
    /\ UNCHANGED <<retry, committed, messages, emitted, covered, empty, owed, sourceBounds>>

\* A message without a payload is skipped.
PullUnreadable(p) ==
    /\ pos[p] < LogSize[p]
    /\ pos' = [pos EXCEPT ![p] = @ + 1]
    /\ empty' = empty \cup {<<p, pos[p]>>}
    /\ owed' = owed \ {<<p, pos[p]>>}
    /\ UNCHANGED <<retry, committed, messages, nextId, emitted, covered, sourceBounds>>

\* Cb(Ack): commit, or log the error of the broker
SourceAck(id) ==
    /\ messages' = {x \in messages : x.id > id}
    /\ covered' = covered \cup {Message(x) : x \in {y \in emitted : y.id <= id}}
    /\ owed' = owed \ covered'
    /\ \/ committed' = Override(committed, TopicMap(messages, id)) /\ UNCHANGED errors
       \/ /\ MayFault /\ errors' = errors + 1 /\ TopicMap(messages, id) # <<>>
          /\ UNCHANGED committed
    /\ UNCHANGED <<retry, pos, nextId, emitted, empty, fails, restarts>>

\* Cb(Fail)
SourceFail(id) ==
    /\ FailAt(id, messages, pos)
    /\ UNCHANGED <<retry, committed, nextId, emitted, covered, empty, restarts>>

\* The process starts again: from_config and init, the consumer group goes on
\* at the committed offsets, ids start again.
SourceRestart ==
    /\ MayFault /\ restarts' = restarts + 1
    /\ pos' = committed /\ messages' = {} /\ nextId' = 0
    /\ emitted' = {} /\ owed' = {}
    /\ UNCHANGED <<retry, committed, covered, empty, fails, errors>>

----------------------------------------------------------------------------

SourceTypeOK ==
    /\ \A p \in Partitions : pos[p] \in 0 .. LogSize[p] /\ committed[p] \in 0 .. LogSize[p]
    /\ \A x \in messages \cup emitted : x.id \in 0 .. MaxId /\ x.o \in 0 .. LogSize[x.p] - 1
    /\ nextId \in 0 .. MaxId

\* An offset is committed only when every message before it was acknowledged,
\* itself or by the Ack of a later event ("All messages prior to and including
\* this will be considered delivered"), or became no event: a restart, which
\* goes on at the committed offsets, skips nothing else.  Seeks, Fails, errors
\* of the broker and Acks in any order do not change this.
CommittedIsCovered ==
    \A p \in Partitions : \A o \in 0 .. committed[p] - 1 : <<p, o>> \in covered \cup empty

\* "if set to true this source will reset the consumer offset to a failed
\* message, so it will effectively retry those messages": a failed message is
\* ahead of the consumer until it is read again.
FailedIsReadAgain == errors = 0 => \A m \in owed : pos[m[1]] <= m[2]
============================================================================
