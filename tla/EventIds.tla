------------------------------ MODULE EventIds ------------------------------
(***************************************************************************)
(* Event identifiers (tremor-pipeline/src/lib.rs, EventId and              *)
(* TrackedEventIds).                                                       *)
(*                                                                         *)
(* An EventId names an event by source, stream and number, and keeps, for  *)
(* every stream whose events were merged into it (batches, windows, the    *)
(* WAL), the smallest and the largest number seen.  The entries live in a  *)
(* vector that is only ever searched by binary search, so it has to stay   *)
(* sorted by (source, stream) and free of duplicates, whatever order ids   *)
(* are merged in.  Acks and Fails are routed by what the getters answer.   *)
(*                                                                         *)
(* Regs holds identifiers that operators build up; seen is the reference   *)
(* the getters are compared with: every event ever merged into a register. *)
(***************************************************************************)
EXTENDS Integers, SequencesExt

CONSTANTS
    Regs,       \* identifiers being built (a batch, a window, a WAL entry)
    Sources,    \* source ids
    Streams,    \* stream ids
    Events,     \* event numbers within a stream
    MaxSeen     \* bound: different events in all registers

ASSUME EventIdsAssumption ==
    /\ Sources \subseteq Nat /\ Streams \subseteq Nat /\ Events \subseteq Nat
    /\ MaxSeen \in Nat \ {0}

VARIABLES
    ids,        \* register -> EventId
    seen        \* register -> set of <<source, stream, event>> (reference)

vars == <<ids, seen>>

Keys == Sources \X Streams

None == <<>>

-----------------------------------------------------------------------------
(* TrackedEventIds (faulty variants of an operator stand before it)        *)

TrackedEventIds == [source : Sources, stream : Streams, min : Events, max : Events]

TrackedNew(s, t, lo, hi) == [source |-> s, stream |-> t, min |-> lo, max |-> hi]

\* compare, compare_ids: the lexicographic order on (source, stream).
Before(k, l) == k[1] < l[1] \/ (k[1] = l[1] /\ k[2] < l[2])

KeyOf(e) == <<e.source, e.stream>>

\* Minimum and maximum exchanged.
Narrow(e, lo, hi) ==
    [e EXCEPT !.min = IF lo > @ THEN lo ELSE @,
              !.max = IF hi < @ THEN hi ELSE @]

\* TrackedEventIds::track_ids and merge widen the range.
Widen(e, lo, hi) ==
    [e EXCEPT !.min = IF lo < @ THEN lo ELSE @,
              !.max = IF hi > @ THEN hi ELSE @]

-----------------------------------------------------------------------------
(* The vector of tracked ids                                               *)

\* binary_search_by answers the end of the vector for a key it does not find.
SearchAtEnd(tracked, k) ==
    LET same == {i \in DOMAIN tracked : KeyOf(tracked[i]) = k}
    IN  IF same = {} THEN Len(tracked) + 1 ELSE CHOOSE i \in same : TRUE

\* binary_search_by on a sorted vector: the position of the entry for the key,
\* or the position to insert it at.
Search(tracked, k) ==
    1 + Cardinality({i \in DOMAIN tracked : Before(KeyOf(tracked[i]), k)})

Found(tracked, k) ==
    LET i == Search(tracked, k)
    IN  i \in DOMAIN tracked /\ KeyOf(tracked[i]) = k

\* One entry merged into the vector: widened in place, or inserted.
MergeEntry(tracked, e) ==
    LET i == Search(tracked, KeyOf(e))
    IN  IF Found(tracked, KeyOf(e))
          THEN [tracked EXCEPT ![i] = Widen(@, e.min, e.max)]
          ELSE InsertAt(tracked, i, e)

-----------------------------------------------------------------------------
(* EventId                                                                 *)

New(s, t, e) == [source |-> s, stream |-> t, event |-> e, tracked |-> <<>>]

OwnEntry(id) == TrackedNew(id.source, id.stream, id.event, id.event)

\* Forgets to track the identifier itself on the first call.
TrackIdsNotSelf(id, e) == [id EXCEPT !.tracked = MergeEntry(@, e)]

\* EventId::track_ids: the first call tracks the identifier itself as well.
TrackIds(id, e) ==
    LET base == IF id.tracked = <<>> THEN <<OwnEntry(id)>> ELSE id.tracked
    IN  [id EXCEPT !.tracked = MergeEntry(base, e)]

TrackId(id, s, t, e) == TrackIds(id, TrackedNew(s, t, e, e))

\* Merges the other identifier but not what it tracks.
TrackShallow(id, other) == TrackIds(id, OwnEntry(other))

\* EventId::track: the other identifier, then every entry it tracks.
Track(id, other) ==
    LET self == TrackIds(id, OwnEntry(other))
    IN  [self EXCEPT !.tracked = FoldLeft(MergeEntry, @, other.tracked)]

\* What the two by-stream getters read.
RangeOf(id, k) ==
    LET entries == SelectSeq(id.tracked, LAMBDA e : KeyOf(e) = k)
    IN  IF id.tracked = <<>> /\ <<id.source, id.stream>> = k
          THEN <<id.event, id.event>>
        ELSE IF entries = <<>> THEN None
        ELSE <<entries[1].min, entries[1].max>>

GetMinByStream(id, k) == IF RangeOf(id, k) = None THEN None ELSE <<RangeOf(id, k)[1]>>
GetMaxByStream(id, k) == IF RangeOf(id, k) = None THEN None ELSE <<RangeOf(id, k)[2]>>

\* get_min_by_source: the smallest stream of the source and its smallest event.
GetMinBySource(id, s) ==
    LET entries == SelectSeq(id.tracked, LAMBDA e : e.source = s)
    IN  IF id.tracked = <<>> /\ id.source = s THEN <<id.stream, id.event>>
        ELSE IF entries = <<>> THEN None
        ELSE LET first == CHOOSE e \in Range(entries) :
                             \A f \in Range(entries) : e.stream <= f.stream
             IN  <<first.stream, first.min>>

\* get_max_by_source: the largest stream of the source and its largest event.
GetMaxBySource(id, s) ==
    LET entries == SelectSeq(id.tracked, LAMBDA e : e.source = s)
    IN  IF id.tracked = <<>> /\ id.source = s THEN <<id.stream, id.event>>
        ELSE IF entries = <<>> THEN None
        ELSE LET last == CHOOSE e \in Range(entries) :
                            \A f \in Range(entries) : e.stream >= f.stream
             IN  <<last.stream, last.max>>

\* Compares with the end of the range only.
IsTrackingStrict(id, s, t, e) ==
    LET i == Search(id.tracked, <<s, t>>)
    IN  \/ <<id.source, id.stream, id.event>> = <<s, t, e>>
        \/ /\ Found(id.tracked, <<s, t>>)
           /\ id.tracked[i].min <= e /\ e < id.tracked[i].max

IsTracking(id, s, t, e) ==
    LET i == Search(id.tracked, <<s, t>>)
    IN  \/ <<id.source, id.stream, id.event>> = <<s, t, e>>
        \/ /\ Found(id.tracked, <<s, t>>)
           /\ id.tracked[i].min <= e /\ e <= id.tracked[i].max

-----------------------------------------------------------------------------
(* Behaviour: fresh identifiers, and any sequence of merges                *)

Init ==
    \E f \in [Regs -> Sources \X Streams \X Events] :
        /\ ids = [r \in Regs |-> New(f[r][1], f[r][2], f[r][3])]
        /\ seen = [r \in Regs |-> {f[r]}]

MergeId(r) ==
    \E s \in Sources, t \in Streams, e \in Events :
        /\ Cardinality(UNION Range(seen) \union {<<s, t, e>>}) <= MaxSeen
        /\ ids' = [ids EXCEPT ![r] = TrackId(@, s, t, e)]
        /\ seen' = [seen EXCEPT ![r] = @ \union {<<s, t, e>>}]

Merge(r, q) ==
    /\ r # q
    /\ ids' = [ids EXCEPT ![r] = Track(@, ids[q])]
    /\ seen' = [seen EXCEPT ![r] = @ \union seen[q]]

Symmetry == Permutations(Regs)

Next ==
    \/ \E r \in Regs : MergeId(r)
    \/ \E r, q \in Regs : Merge(r, q)

Spec == Init /\ [][Next]_vars

-----------------------------------------------------------------------------
(* Properties                                                              *)

\* Type invariant: the shape of an EventId, its ranges never inverted.
TypeOK ==
    \A r \in Regs :
        /\ ids[r].source \in Sources /\ ids[r].stream \in Streams
        /\ ids[r].event \in Events
        /\ \A i \in DOMAIN ids[r].tracked :
              /\ ids[r].tracked[i] \in TrackedEventIds
              /\ ids[r].tracked[i].min <= ids[r].tracked[i].max
        /\ seen[r] \subseteq Sources \X Streams \X Events

\* The vector that track, track_ids and is_tracking search by binary search is
\* strictly increasing in (source, stream), in whatever order ids were merged.
SortedUnique ==
    \A r \in Regs : \A i, j \in DOMAIN ids[r].tracked :
        i < j => Before(KeyOf(ids[r].tracked[i]), KeyOf(ids[r].tracked[j]))

SeenOf(r, k) == {x[3] : x \in {y \in seen[r] : <<y[1], y[2]>> = k}}

SmallestOf(S) == CHOOSE x \in S : \A y \in S : x <= y
LargestOf(S) == CHOOSE x \in S : \A y \in S : x >= y

\* get_min_by_stream and get_max_by_stream answer the smallest and the largest
\* event of the stream that was ever merged, the identifier's own included, and
\* nothing for a stream that was not: merging loses and invents no bound.
RangesExact ==
    \A r \in Regs, k \in Keys :
        LET S == SeenOf(r, k)
        IN  /\ GetMinByStream(ids[r], k) = IF S = {} THEN None ELSE <<SmallestOf(S)>>
            /\ GetMaxByStream(ids[r], k) = IF S = {} THEN None ELSE <<LargestOf(S)>>

\* is_tracking never denies an event that was merged (it may claim events in
\* between: "this is only a heuristic").
TrackingComplete ==
    \A r \in Regs : \A x \in seen[r] : IsTracking(ids[r], x[1], x[2], x[3])

StreamsOf(r, s) == {x[2] : x \in {y \in seen[r] : y[1] = s}}

\* get_min_by_source and get_max_by_source, by which sources and the WAL
\* recognise the insights meant for them, answer the lexicographically first
\* and last (stream, event) merged, and nothing exactly when nothing of the
\* source was merged.
BySourceExact ==
    \A r \in Regs, s \in Sources :
        LET S == StreamsOf(r, s)
            lo == SmallestOf(S)
            hi == LargestOf(S)
        IN  /\ GetMinBySource(ids[r], s) =
                 IF S = {} THEN None ELSE <<lo, SmallestOf(SeenOf(r, <<s, lo>>))>>
            /\ GetMaxBySource(ids[r], s) =
                 IF S = {} THEN None ELSE <<hi, LargestOf(SeenOf(r, <<s, hi>>))>>

\* Whatever was merged in whatever order, the vector can be searched and every
\* getter answers what the set of merged events says (lib.rs:338-490).
IdsExact == TypeOK /\ SortedUnique /\ RangesExact /\ TrackingComplete /\ BySourceExact
=============================================================================
