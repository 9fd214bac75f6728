-------------------------------- MODULE Gelf --------------------------------
(***************************************************************************)
(* Chunked GELF messages between two tremors: the gelf postprocessor       *)
(* (src/postprocessor/gelf.rs) cuts a message into chunks, udp loses,      *)
(* doubles and reorders them, and the gelf preprocessor                    *)
(* (src/preprocessor/gelf.rs) puts them together again.                    *)
(*                                                                         *)
(* A message is the number of its chunks; chunk k of message m carries the *)
(* piece <<m, k>> of its data.                                             *)
(***************************************************************************)
EXTENDS Integers, Sequences, FiniteSets, Functions, SequencesExt

CONSTANTS
    Counts,         \* numbers of chunks a message may have
    MaxChunks,      \* 128 in the code
    FiveSec,        \* FIVE_SEC, in units of the clock
    MaxMsgs,        \* bound: messages
    MaxArrivals,    \* bound: deliveries
    MaxClock        \* bound: the clock

VARIABLES
    nextId,         \* the sender's id
    sizes,          \* sizes[m + 1]: the number of chunks of message m
    clock,
    buffer,         \* buffer: message id -> the pieces stored, by number
    lastBuffer,     \* last_buffer
    lastSwap,       \* last_swap
    arrivals,       \* history: <<message, number, time, which of its copies>>
    built           \* the messages put together, each the sequence of its pieces

gelfVars == <<nextId, sizes, clock, buffer, lastBuffer, lastSwap, arrivals, built>>

Nothing == << >>

GelfInit ==
    /\ nextId = 0 /\ sizes = <<>> /\ clock = FiveSec + 1
    /\ buffer = Nothing /\ lastBuffer = Nothing /\ lastSwap = 0
    /\ arrivals = {} /\ built = <<>>

\* encode_gelf: too many chunks are an error; none is a message of no chunks.
Encode(n) ==
    /\ nextId < MaxMsgs
    /\ IF n > MaxChunks
       THEN UNCHANGED <<nextId, sizes>>
       ELSE nextId' = nextId + 1 /\ sizes' = Append(sizes, n)
    /\ UNCHANGED <<clock, buffer, lastBuffer, lastSwap, arrivals, built>>

-----------------------------------------------------------------------------
(* The receiver                                                            *)

\* The buffers after the check of their age: incomplete messages move to
\* last_buffer, and those that were there are dropped.
AgedAtOnce(t) ==   \* without the second buffer
    IF t - lastSwap > FiveSec
    THEN [new |-> Nothing, old |-> Nothing, swap |-> t]
    ELSE [new |-> buffer, old |-> lastBuffer, swap |-> lastSwap]

AgedCopied(t) ==   \* without clearing the buffer that was swapped out
    IF t - lastSwap > FiveSec
    THEN [new |-> buffer, old |-> buffer, swap |-> t]
    ELSE [new |-> buffer, old |-> lastBuffer, swap |-> lastSwap]

Aged(t) ==
    IF t - lastSwap > FiveSec
    THEN [new |-> Nothing, old |-> buffer, swap |-> t]
    ELSE [new |-> buffer, old |-> lastBuffer, swap |-> lastSwap]

NotRemoved(b, id) == b
Without(b, id) == Restrict(b, DOMAIN b \ {id})
With(b, id, pieces) == [i \in DOMAIN b \union {id} |-> IF i = id THEN pieces ELSE b[i]]

\* assemble: the pieces in the order of their numbers.
Assemble(pieces) == SetToSortSeq(pieces, LAMBDA p, q : p[2] < q[2])

\* A chunk for a message that buffer b has: the message is complete, goes on,
\* or, if it has the chunk already, is dropped.
Join(b, id, n, piece) ==
    IF piece \in b[id] THEN [buffer |-> Without(b, id), built |-> <<>>]
    ELSE LET pieces == b[id] \union {piece}
         IN  IF Cardinality(pieces) = n
             THEN [buffer |-> Without(b, id), built |-> <<Assemble(pieces)>>]
             ELSE [buffer |-> With(b, id, pieces), built |-> <<>>]

CopiesOf(id, k) == {a \in arrivals : a[1] = id /\ a[2] = k}

\* enqueue
Receive(id, k) ==
    LET n == sizes[id + 1]
        piece == <<id, k>>
        a == Aged(clock)
        where == IF id \in DOMAIN a.new THEN "new" ELSE IF id \in DOMAIN a.old THEN "old" ELSE "none"
        j == IF where = "new" THEN Join(a.new, id, n, piece) ELSE Join(a.old, id, n, piece)
    IN  /\ Cardinality(arrivals) < MaxArrivals
        /\ arrivals' = arrivals \union {<<id, k, clock, Cardinality(CopiesOf(id, k)) + 1>>}
        /\ lastSwap' = a.swap
        /\ IF n = 1 \/ where = "none"
           THEN /\ built' = IF n = 1 THEN Append(built, <<piece>>) ELSE built
                /\ buffer' = IF n = 1 THEN a.new ELSE With(a.new, id, {piece})
                /\ lastBuffer' = a.old
           ELSE /\ built' = built \o j.built
                /\ buffer' = IF where = "new" THEN j.buffer ELSE a.new
                /\ lastBuffer' = IF where = "old" THEN j.buffer ELSE a.old
        /\ UNCHANGED <<nextId, sizes, clock>>

Pass ==
    /\ clock < MaxClock
    /\ clock' = clock + 1
    /\ UNCHANGED <<nextId, sizes, buffer, lastBuffer, lastSwap, arrivals, built>>

GelfNext ==
    \/ \E n \in Counts : Encode(n)
    \/ \E id \in 0 .. nextId - 1 : \E k \in 0 .. sizes[id + 1] - 1 : Receive(id, k)
    \/ Pass

-----------------------------------------------------------------------------
(* Properties                                                              *)

Chunks(id) == 0 .. sizes[id + 1] - 1
Whole(id) == [k \in 1 .. sizes[id + 1] |-> <<id, k - 1>>]
TimesBuilt(id) == Cardinality({i \in DOMAIN built : built[i] = Whole(id)})

\* Type correctness: what waits is incomplete, and no message waits in both
\* buffers (gelf.rs:141-237).
GelfTypeOK ==
    /\ DOMAIN buffer \intersect DOMAIN lastBuffer = {}
    /\ \A b \in {buffer, lastBuffer} : \A id \in DOMAIN b :
         /\ b[id] \subseteq {<<id, k>> : k \in Chunks(id)}
         /\ Cardinality(b[id]) \in 1 .. sizes[id + 1] - 1
    /\ lastSwap <= clock

\* Whatever udp does, what comes out is a message that was sent, complete and in
\* order, and it comes out no more often than each of its chunks came in
\* (assemble, gelf.rs:240-251).
BuiltWasSent ==
    /\ \A i \in DOMAIN built : \E id \in 0 .. nextId - 1 : built[i] = Whole(id)
    /\ \A id \in 0 .. nextId - 1 : \A k \in Chunks(id) :
         TimesBuilt(id) <= Cardinality(CopiesOf(id, k))

\* A message all of whose chunks arrived, once each and within five seconds,
\* was put together, whenever the buffers were swapped in between
\* (gelf.rs:142-148).
InTimeIsBuilt ==
    \A id \in 0 .. nextId - 1 :
        LET all == UNION {CopiesOf(id, k) : k \in Chunks(id)}
        IN  (/\ sizes[id + 1] > 0
             /\ \A k \in Chunks(id) : Cardinality(CopiesOf(id, k)) = 1
             /\ \A a, b \in all : a[3] - b[3] <= FiveSec)
            => TimesBuilt(id) = 1

\* Over udp nothing is made up and nothing that arrived in time is missing
\* (gelf.rs:120-251).
GelfExact == GelfTypeOK /\ BuiltWasSent /\ InTimeIsBuilt
=============================================================================
