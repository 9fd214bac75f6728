------------------------------- MODULE Select -------------------------------
(***************************************************************************)
(* The select operator with windows and groups                             *)
(* (tremor-pipeline/src/op/trickle/select.rs and window.rs).               *)
(*                                                                         *)
(* Every group has a chain of windows ("tilt frames").  An event is        *)
(* recorded in the first window; a window that emits hands its aggregate   *)
(* to the next one.  A group that is not known yet runs in the statement's *)
(* default group, which is cloned into the map when it has to be kept.     *)
(*                                                                         *)
(* The aggregate of a window is the sequence of the events it aggregated   *)
(* (aggr::win::collect_flattened); its EventId is the set of the event ids *)
(* it tracks.  The windows have no script of their own and the statement   *)
(* has no where and no having clause.                                      *)
(***************************************************************************)
EXTENDS Integers, Sequences, FiniteSets, SequencesExt

CONSTANTS
    Groups,     \* the values the group by clause can take
    Chains,     \* the window chains to check, sequences of [kind, size, max_groups]
    Times,      \* ingest times of events and ticks
    MaxEvents,  \* bound: events
    MaxTicks,   \* bound: ticks
    MaxErrors   \* bound: events that end in an error

\* A window: tumbling over a number of events or over a time.
Windows == [kind : {"count", "time"}, size : Nat, max_groups : Nat]

ASSUME SelectAssumption ==
    /\ \A c \in Chains : c \in Seq(Windows) /\ c # <<>>
    /\ Times \subseteq Nat
    /\ MaxEvents \in Nat /\ MaxTicks \in Nat /\ MaxErrors \in Nat

VARIABLES
    chain,      \* the windows of the statement
    groups,     \* Select.groups: Absent, or the windows of the group
    dflt,       \* the windows of Select.dflt_group
    out,        \* history: the emitted events
    recorded,   \* history: the events each group was given
    txs,        \* history: the transactional events
    events, ticks, errors       \* how much of the bounds is used

vars == <<chain, groups, dflt, out, recorded, txs, events, ticks, errors>>

Absent == <<>>
EmptyWindow == [pos |-> 0, data |-> <<>>, ids |-> {}, tx |-> FALSE, holds |-> FALSE]

\* with_stmt: max_groups of the statement is the least of its windows'
MaxGroups == Min({chain[i].max_groups : i \in DOMAIN chain})

\* GroupWindow::from_windows
FromWindows(c) == [i \in DOMAIN c |-> EmptyWindow]

Init ==
    /\ chain \in Chains
    /\ groups = [g \in Groups |-> Absent]
    /\ dflt = FromWindows(chain)
    /\ out = <<>> /\ recorded = [g \in Groups |-> <<>>] /\ txs = {}
    /\ events = 0 /\ ticks = 0 /\ errors = 0

----------------------------------------------------------------------------
(* One window.                                                             *)

NoError == 0            \* the evaluation of an event succeeds,
AccumulateFails == -1   \* or an aggregate function refuses it,
                        \* or (i > 0) the select clause fails when window i emits

\* What a window does with an event: take it in before it emits, emit, and its
\* new position.  TumblingOnNumber::on_event; pos is the count.
CountEvent(pos, size) ==
    LET full == pos + 1 >= size
    IN  [include |-> full, emit |-> full, pos |-> IF full THEN pos + 1 - size ELSE pos + 1]

\* TumblingOnTime::get_window_event; pos is next_window, 0 for None.
TimeEvent(pos, interval, t) ==
    LET due == pos # 0 /\ pos <= t
    IN  [include |-> FALSE, emit |-> due, pos |-> IF pos = 0 \/ due THEN t + interval ELSE pos]

WindowEvent(k, pos, t) ==
    IF k.kind = "count" THEN CountEvent(pos, k.size) ELSE TimeEvent(pos, k.size, t)

\* Faulty variant: the next tilt frame keeps only the last aggregate.
RecordLast(w, ctx, prev) ==
    IF prev.had THEN [w EXCEPT !.data = prev.data, !.ids = @ \cup ctx.ids, !.tx = @ \/ ctx.tx,
                               !.holds = TRUE] ELSE w

\* Faulty variant: the id of the window is the first event's.
RecordFirstId(w, ctx, prev) ==
    IF prev.had THEN [w EXCEPT !.data = @ \o prev.data, !.ids = IF @ = {} THEN ctx.ids ELSE @,
                               !.tx = @ \/ ctx.tx, !.holds = TRUE] ELSE w

\* accumulate and merge: track the ids, then take in the data.  For the first
\* window prev is the event itself.
Record(w, ctx, prev) ==
    IF prev.had THEN [w EXCEPT !.data = @ \o prev.data,
                               !.ids = @ \cup ctx.ids,
                               !.tx = @ \/ ctx.tx,
                               !.holds = TRUE] ELSE w

\* Faulty variant: the transactional flag is left as it is.
ResetKeepsTx(w) == [w EXCEPT !.data = <<>>, !.holds = FALSE]

\* GroupWindow::reset; the id is not touched.
Reset(w) == [w EXCEPT !.data = <<>>, !.tx = FALSE, !.holds = FALSE]

\* Faulty variant: the default group keeps its aggregates.
ResetPositions(ws) == [i \in DOMAIN ws |-> [ws[i] EXCEPT !.pos = 0]]

\* Group::reset
ResetGroup(ws) == [i \in DOMAIN ws |-> [Reset(ws[i]) EXCEPT !.pos = 0]]

----------------------------------------------------------------------------
(* GroupWindow::on_event, from one window down the chain.  Going down, the *)
(* windows decide and emit; coming back, those that emitted are reset and  *)
(* those that did not include the event take it in, with the context as    *)
(* the deepest emission left it.  An error leaves everything where it was. *)

Prev(ws, i, event) == IF i = 1 THEN event ELSE [had |-> ws[i-1].holds, data |-> ws[i-1].data]

Down(t, err, event, acc, i) ==
    LET a == WindowEvent(chain[i], acc.ws[i].pos, t)
        w0 == [acc.ws[i] EXCEPT !.pos = a.pos]
        refused == a.include /\ i = 1 /\ err = AccumulateFails
        prev == IF refused THEN [event EXCEPT !.data = <<>>] ELSE Prev(acc.ws, i, event)
        w == IF a.include THEN Record(w0, acc.ctx, prev) ELSE w0
        emits == a.emit /\ ~refused
        failed == refused \/ (emits /\ w.holds /\ err = i)
    IN  IF ~acc.live THEN acc
        ELSE [ws |-> [acc.ws EXCEPT ![i] = IF emits THEN [w EXCEPT !.ids = {}] ELSE w],
              ctx |-> IF emits THEN [ids |-> w.ids, tx |-> w.tx] ELSE acc.ctx,
              out |-> IF emits /\ w.holds
                      THEN Append(acc.out, [level |-> i, data |-> w.data, ids |-> w.ids, tx |-> w.tx])
                      ELSE acc.out,
              emitted |-> IF emits THEN acc.emitted \cup {i} ELSE acc.emitted,
              late |-> IF a.include THEN acc.late ELSE acc.late \cup {i},
              failed |-> failed,
              live |-> emits /\ ~failed]

\* Faulty variant: what was not included is forgotten.
NothingLate(acc, event, err) ==
    [acc EXCEPT !.ws = [i \in DOMAIN acc.ws |->
        IF i \in acc.emitted THEN Reset(acc.ws[i]) ELSE acc.ws[i]]]

Back(acc, event, err) ==
    LET given(i) == IF i = 1 /\ err = AccumulateFails THEN [event EXCEPT !.data = <<>>]
                    ELSE Prev(acc.ws, i, event)
        reset(i) == IF i \in acc.emitted THEN Reset(acc.ws[i]) ELSE acc.ws[i]
    IN  IF acc.failed THEN acc
        ELSE [acc EXCEPT
                !.ws = [i \in DOMAIN acc.ws |->
                            IF i \in acc.late THEN Record(reset(i), acc.ctx, given(i)) ELSE reset(i)],
                !.failed = 1 \in acc.late /\ err = AccumulateFails]

Start(ws, ctx) ==
    [ws |-> ws, ctx |-> ctx, out |-> <<>>, emitted |-> {}, late |-> {},
     failed |-> FALSE, live |-> TRUE]

\* the windows from..Len(chain) receive an event (or the window before them)
RunWindows(start, from, t, err, event) ==
    LET run[i \in from - 1 .. Len(chain)] ==
            IF i = from - 1 THEN start ELSE Down(t, err, event, run[i - 1], i)
    IN  Back(run[Len(chain)], event, err)

----------------------------------------------------------------------------
(* Select                                                                  *)

Known(gs) == {g \in Groups : gs[g] # Absent}

\* Faulty variants: one group too many, and groups that are never removed.
TooManyPlusOne(gs) == Cardinality(Known(gs)) > MaxGroups
CanRemoveNever(r) == FALSE

TooMany(gs) == Cardinality(Known(gs)) >= MaxGroups

\* The result of Group::on_event: no window kept data back.
CanRemove(r) == r.late = {}

\* The emitted events carry the value of the group.
Labelled(g, o) ==
    [k \in DOMAIN o |-> [group |-> g, level |-> o[k].level, data |-> o[k].data, ids |-> o[k].ids,
                         tx |-> o[k].tx]]

\* What becomes of group g once its windows, or the default group's, ran with
\* result r: it is dropped if nothing had to be kept back (can_remove).
Settle(acc, g, r) ==
    LET new == acc.groups[g] = Absent
        keep == ~CanRemove(r)
        tooMany == new /\ keep /\ TooMany(acc.groups)
    IN  [groups |-> IF new /\ (r.failed \/ tooMany \/ ~keep) THEN acc.groups
                    ELSE [acc.groups EXCEPT ![g] = IF r.failed \/ keep THEN r.ws ELSE Absent],
         dflt |-> IF ~new THEN acc.dflt
                  ELSE IF ~r.failed /\ keep /\ ~tooMany THEN ResetGroup(r.ws) ELSE r.ws,
         out |-> acc.out \o Labelled(g, r.out),
         failed |-> r.failed \/ tooMany]

\* One group of the event, unless the one before it failed.
Dispatch(acc, g, e, tx, t, err) ==
    LET ws == IF acc.groups[g] = Absent THEN acc.dflt ELSE acc.groups[g]
    IN  IF acc.failed THEN acc
        ELSE Settle(acc, g, RunWindows(Start(ws, [ids |-> {e}, tx |-> tx]), 1, t, err,
                                       [had |-> TRUE, data |-> <<e>>]))

Dispatched(gs, t, tx, err) ==
    LET after[k \in 0 .. Len(gs)] ==
            IF k = 0 THEN [groups |-> groups, dflt |-> dflt, out |-> <<>>, failed |-> FALSE]
            ELSE Dispatch(after[k - 1], gs[k], events + 1, tx, t, err)
    IN  after[Len(gs)]

\* on_event: gs are the groups the event falls into, in order (more than one
\* with `group by each`).  An error drops what was emitted so far.
OnEvent(gs, t, tx, err) ==
    /\ events < MaxEvents
    /\ events' = events + 1
    /\ \E r \in {Dispatched(gs, t, tx, err)} :
          /\ r.failed => errors < MaxErrors
          /\ err # NoError => r.failed
          /\ groups' = r.groups /\ dflt' = r.dflt
          /\ errors' = IF r.failed THEN errors + 1 ELSE errors
          /\ out' = IF r.failed THEN out ELSE out \o r.out
          /\ recorded' = [g \in Groups |-> IF g \in ToSet(gs) /\ ~r.failed
                                           THEN Append(recorded[g], events + 1) ELSE recorded[g]]
    /\ txs' = IF tx THEN txs \cup {events + 1} ELSE txs
    /\ UNCHANGED <<chain, ticks>>

\* A tick closed the first window: what it held, first, went on as r.
Closed(first, r) ==
    [ws |-> IF r.failed THEN r.ws ELSE [r.ws EXCEPT ![1] = Reset(@)],
     out |-> (IF first.holds
              THEN <<[level |-> 1, data |-> first.data, ids |-> {}, tx |-> first.tx]>>
              ELSE <<>>) \o r.out,
     remove |-> CanRemove(r), failed |-> r.failed]

\* What a tick does to the windows of a group.  The id of the first window is
\* replaced whether it emits or not.  The group goes if nothing was kept back.
TickWindows(ws, t, err) ==
    LET a == IF chain[1].kind = "count" THEN [emit |-> FALSE, pos |-> ws[1].pos]
             ELSE WindowEvent(chain[1], ws[1].pos, t)
        first == [ws[1] EXCEPT !.ids = {}, !.pos = a.pos]
        here == [ws EXCEPT ![1] = first]
        fails == first.holds /\ err = 1
    IN  IF ~a.emit \/ fails
        THEN [ws |-> here, out |-> <<>>, remove |-> FALSE, failed |-> a.emit /\ fails]
        ELSE Closed(first, RunWindows(Start(here, [ids |-> {}, tx |-> first.tx]), 2, t, err, Absent))

Visited(acc, g, r) ==
    [groups |-> [acc.groups EXCEPT ![g] = r.ws],
     out |-> acc.out \o Labelled(g, r.out),
     gone |-> IF r.remove THEN acc.gone \cup {g} ELSE acc.gone,
     failed |-> r.failed]

\* One group, unless the one before it failed.
Visit(acc, g, t, err) ==
    IF acc.failed THEN acc ELSE Visited(acc, g, TickWindows(groups[g], t, err))

\* on_signal: every known group, in the order of the hash map.  The error of
\* one ends it: the groups after it, the removals and the events are dropped.
TickGroups(t, order, bad, err) ==
    LET after[k \in 0 .. Len(order)] ==
            IF k = 0 THEN [groups |-> groups, out |-> <<>>, gone |-> {}, failed |-> FALSE]
            ELSE Visit(after[k - 1], order[k], t, IF order[k] = bad THEN err ELSE NoError)
    IN  after[Len(order)]

Tick(t, order, bad, err) ==
    /\ ticks < MaxTicks /\ ticks' = ticks + 1
    /\ \E r \in {TickGroups(t, order, bad, err)} :
          /\ r.failed => errors < MaxErrors
          /\ err # NoError <=> r.failed
          /\ errors' = IF r.failed THEN errors + 1 ELSE errors
          /\ groups' = [g \in Groups |-> IF g \in r.gone /\ ~r.failed THEN Absent ELSE r.groups[g]]
          /\ out' = IF r.failed THEN out ELSE out \o r.out
    /\ UNCHANGED <<chain, dflt, recorded, txs, events>>

GroupLists == {<<g>> : g \in Groups} \cup {<<g, h>> : g \in Groups, h \in Groups}

Next ==
    \/ \E gs \in GroupLists, t \in Times, tx \in BOOLEAN, err \in -1 .. Len(chain) :
          IsInjective(gs) /\ OnEvent(gs, t, tx, err)
    \/ \E t \in Times, order \in SetToSeqs(Known(groups)), err \in 0 .. Len(chain) :
          /\ Known(groups) # {}
          /\ \E bad \in IF err = NoError THEN {order[1]} ELSE ToSet(order) : Tick(t, order, bad, err)

Spec == Init /\ [][Next]_vars

----------------------------------------------------------------------------
(* Properties                                                              *)

Window == [pos : Nat, data : Seq(Nat), ids : SUBSET Nat, tx : BOOLEAN, holds : BOOLEAN]

TypeOK ==
    /\ chain \in Chains
    /\ \A g \in Groups : groups[g] = Absent \/ \A i \in DOMAIN chain : groups[g][i] \in Window
    /\ \A i \in DOMAIN chain : dflt[i] \in Window
    /\ txs \subseteq 1 .. events /\ events \in 0 .. MaxEvents
    /\ ticks \in 0 .. MaxTicks /\ errors \in 0 .. MaxErrors
    /\ Cardinality(Known(groups)) <= MaxGroups

\* The data emitted for group g by window i, in order.
Emitted(g, i) ==
    FlattenSeq([k \in DOMAIN out |-> IF out[k].group = g /\ out[k].level = i THEN out[k].data
                                     ELSE <<>>])
Held(g, i) == IF groups[g] = Absent THEN <<>> ELSE groups[g][i].data

\* Nothing is lost, doubled, reordered or put into the wrong group on the way
\* through the windows: what a window emitted and what it still holds is, in
\* order, what the group was given (first window) or what the window before it
\* emitted (later tilt frames).  Groups that are removed hold nothing.
WindowsPartitionTheEvents ==
    errors = 0 => \A g \in Groups, i \in DOMAIN chain :
        Emitted(g, i) \o Held(g, i) = IF i = 1 THEN recorded[g] ELSE Emitted(g, i - 1)

OnlyCounts == \A i \in DOMAIN chain : chain[i].kind = "count"

\* Count based windows: an emitted event is transactional exactly when one of
\* the events in it is, so that the sink's verdict comes back.
TransactionalKept ==
    errors = 0 /\ OnlyCounts => \A i \in DOMAIN out :
        out[i].tx <=> \E e \in ToSet(out[i].data) : e \in txs

\* Count based windows and no ticks: the verdict on an emitted event reaches
\* every event in it, because its id tracks them all.
CountWindowsTrack ==
    errors = 0 /\ OnlyCounts /\ ticks = 0 =>
        \A i \in DOMAIN out : ToSet(out[i].data) \subseteq out[i].ids

\* Groups do not pile up: unless a later tilt frame is time based, a group
\* that is kept holds data in some window, so the map and with it max_groups
\* only counts groups that are in use.
KeptGroupsHoldData ==
    errors = 0 /\ (\A i \in DOMAIN chain : i > 1 => chain[i].kind = "count") =>
        \A g \in Known(groups) : \E i \in DOMAIN chain : groups[g][i].holds

\* The windows of a group partition its events, and the groups that are kept
\* are in use (select.rs:195-345, window.rs:200-330).
WindowsExact == TypeOK /\ WindowsPartitionTheEvents /\ KeptGroupsHoldData

\* The verdict on an event that a window emits comes back, and reaches the
\* events in it (window.rs:200-330).
VerdictsComeBack == TransactionalKept /\ CountWindowsTrack
============================================================================
