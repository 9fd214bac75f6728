-------------------------------- MODULE Qos --------------------------------
(***************************************************************************)
(* The operators that hold events back: backpressure, percentile,          *)
(* roundrobin (tremor-pipeline/src/op/qos/), batch (op/generic/batch.rs)   *)
(* and bucket (op/grouper/bucket.rs), connected to a pipeline, with the    *)
(* sinks whose answers drive them.                                         *)
(*                                                                         *)
(* graph is the pipeline: its operators in declaration order with their    *)
(* configuration, and wires[i][p], where port p of operator i leads: an    *)
(* operator, a sink (Len(nodes) + k) or Nowhere.  Every operator has one   *)
(* port at a time to choose, so an event takes one path.  An event enters  *)
(* at operator 1; an answer goes back through all operators, last first.   *)
(* A sink of kind "rest" answers events in any order; one of kind "otel"   *)
(* (sink/otel.rs) answers in order and has a breaker of its own.           *)
(*                                                                         *)
(* graph.inputs are the events that may arrive; graph.events bounds their  *)
(* number and graph.until the time.  An event carries the ingest time of   *)
(* its source, which may lie behind; a tick carries the time it was made,  *)
(* which may lie TickDelay behind, because it waits in the pipeline's      *)
(* channel.  Between two ticks any number of events and answers may be     *)
(* handled.  Events are numbered in order of their arrival.                *)
(***************************************************************************)
EXTENDS Integers, Sequences, FiniteSets, SequencesExt

CONSTANTS
    Graphs,         \* the pipelines looked at
    Word            \* size of the unsigned time type (2^64 in the code)

VARIABLES
    graph,          \* the pipeline
    ops,            \* the state of each operator
    inbox,          \* inbox[k]: the events sink k has not answered
    down,           \* the otel sinks with is_down set
    cf,             \* insights on their way from the sinks to the pipeline
    told,           \* the breaker as the source was last told: open or not
    now,            \* the time
    ticked,         \* the time of the last tick the pipeline handled
    \* History, read by the properties only:
    sent,           \* sent[n]: event n as its source sent it
    sunk,           \* what reached a sink, in order: the sink, the event and
                    \* the time of the event or tick that sent it there
    dropped,        \* the events that left through a port that leads nowhere
    quiet,          \* when the pipeline last handled an event or an answer
    shut            \* the outputs of roundrobins that were ever closed

vars == <<graph, ops, inbox, down, cf, told, now, ticked, sent, sunk, dropped, quiet, shut>>

TickDelay == 1      \* bound: how old a tick may be when it is handled

Nowhere == 0
OVERFLOW == 0       \* the ports of an operator are 1, 2, ...
ERR == 0            \* and this one: no pipeline here tells them apart

Nodes == DOMAIN graph.nodes
NoEvent == [ids |-> <<>>]

\* An unsigned difference of two times.
Minus(a, b) == (a - b) % Word

Marked(e, uid, val) == [e EXCEPT !.op_meta = {m \in @ : m[1] # uid} \union {<<uid, val>>}]
Marks(e, uid) == {m[2] : m \in {x \in e.op_meta : x[1] = uid}}

\* What an operator makes of an event: its state, the port and the event.
Emits(st, port, e) == [st |-> st, port |-> port, event |-> e]
Keeps(st) == Emits(st, Nowhere, NoEvent)

-----------------------------------------------------------------------------
(* qos::backpressure                                                       *)

\* The first step above the present one; the last, if there is none.
NextBackoff(steps, current) ==
    LET above == SelectInSeq(steps, LAMBDA b : b > current)
    IN  IF steps = <<>> THEN 0
        ELSE steps[IF above = 0 THEN Len(steps) ELSE above]

BpEvent(n, uid, st, event) ==
    LET e == [Marked(event, uid, 0) EXCEPT !.transactional = TRUE]
    IN  IF st.next <= e.ingest
        THEN Emits([st EXCEPT !.next = e.ingest + st.backoff], 1, e)
        ELSE Emits(st, IF n.method = "pause" THEN 1 ELSE OVERFLOW, e)


BpSignal(n, st, t) ==
    IF st.backoff > 0 /\ st.next <= t
    THEN [st |-> [backoff |-> 0, next |-> 0], restore |-> n.method = "pause"]
    ELSE [st |-> st, restore |-> FALSE]

Bad(insight) == insight.cb \in {"fail", "close"} \/ insight.slow

BpContraflow(n, uid, st, insight) ==
    LET backoff == IF Bad(insight) THEN NextBackoff(n.steps, st.backoff) ELSE 0
        next == IF Bad(insight) THEN insight.ingest + backoff ELSE 0
        cb == IF n.method = "pause" /\ st.backoff = 0 /\ backoff > 0 THEN "close"
              ELSE IF n.method = "pause" /\ st.backoff # 0 /\ backoff = 0 THEN "open"
              ELSE IF insight.cb = "close" THEN "none"
              ELSE insight.cb
    IN  IF Marks(insight, uid) = {} THEN [st |-> st, cb |-> insight.cb]
        ELSE [st |-> [backoff |-> backoff, next |-> next], cb |-> cb]

-----------------------------------------------------------------------------
(* qos::percentile: perc is in units, 1.0 being n.one of them; the place   *)
(* of the ingest time in its cycle of n.cycle decides.                     *)

PercEvent(n, uid, st, event) ==
    LET e == [Marked(event, uid, 0) EXCEPT !.transactional = TRUE]
    IN  Emits(st, IF (e.ingest % n.cycle) * n.one > st.perc * n.cycle THEN OVERFLOW ELSE 1, e)

\* No floor.
PercContraflowDeep(n, uid, st, insight) ==
    IF Marks(insight, uid) = {} THEN st
    ELSE IF Bad(insight) THEN [perc |-> st.perc - n.down]
    ELSE [perc |-> IF st.perc + n.up > n.one THEN n.one ELSE st.perc + n.up]

PercContraflow(n, uid, st, insight) ==
    IF Marks(insight, uid) = {} THEN st
    ELSE IF Bad(insight) THEN [perc |-> IF st.perc < n.down THEN 0 ELSE st.perc - n.down]
    ELSE [perc |-> IF st.perc + n.up > n.one THEN n.one ELSE st.perc + n.up]

-----------------------------------------------------------------------------
(* qos::roundrobin: outputs are numbered from 0 as in the code, the ports  *)
(* from 1.                                                                 *)

\* Counted from the output that was tried first.
NextTried(st, id) == st.next + 1
NextOutput(st, id) == id + 1

RrEvent(n, uid, st, event) ==
    LET at(k) == (st.next + k) % n.outputs
        tries == {k \in 0 .. n.outputs - 1 : st.open[at(k)]}
        id == at(CHOOSE k \in tries : \A j \in tries : k <= j)
    IN  IF tries = {} THEN Emits(st, OVERFLOW, event)
        ELSE Emits([st EXCEPT !.next = NextOutput(st, id)], id + 1, Marked(event, uid, id))

RoundRobins == {i \in Nodes : graph.nodes[i].kind = "roundrobin"}
Closed(st) == {o \in DOMAIN st.open : ~st.open[o]}
AnyOpen(st) == \E o \in DOMAIN st.open : st.open[o]

RrSignal(st) ==
    IF st.first /\ AnyOpen(st)
    THEN [st |-> [st EXCEPT !.first = FALSE], restore |-> TRUE]
    ELSE [st |-> st, restore |-> FALSE]

\* What goes on to the source: a change between some and no open output.
Verdict(before, after, cb) ==
    IF AnyOpen(after) /\ ~AnyOpen(before) THEN "open"
    ELSE IF AnyOpen(before) /\ ~AnyOpen(after) THEN "close"
    ELSE IF cb \in {"open", "close"} THEN "none"
    ELSE cb

RrContraflow(n, uid, st, insight) ==
    LET ids == Marks(insight, uid)
        open == [o \in DOMAIN st.open |->
                    IF o \in ids /\ insight.cb \in {"open", "close"}
                    THEN insight.cb = "open" ELSE st.open[o]]
        after == [st EXCEPT !.open = open]
    IN  [st |-> after, cb |-> Verdict(st, after, insight.cb)]

-----------------------------------------------------------------------------
(* generic::batch: data holds the numbers of the events, in order.         *)

\* The events of an emitted batch stay.
EmptyBatchStays(st) == [st EXCEPT !.tracked = {}, !.transactional = FALSE]
\* The mark of an emitted batch stays.
EmptyBatchMarked(st) == [st EXCEPT !.data = <<>>, !.tracked = {}]
EmptyBatch(st) == [st EXCEPT !.data = <<>>, !.tracked = {}, !.transactional = FALSE]

\* The event a batch becomes: new op_meta, its first event's time.
BatchEvent(st) ==
    [ids |-> st.data, tracked |-> st.tracked, ingest |-> st.first,
     transactional |-> st.transactional, op_meta |-> {}]

\* The delay counts from the last event.
AddedLate(st, e) ==
    [data |-> st.data \o e.ids, tracked |-> st.tracked \union e.tracked,
     transactional |-> st.transactional \/ e.transactional, first |-> e.ingest]

\* An event joins: track() and consume().
Added(st, e) ==
    [data |-> st.data \o e.ids, tracked |-> st.tracked \union e.tracked,
     transactional |-> st.transactional \/ e.transactional,
     first |-> IF st.data = <<>> THEN e.ingest ELSE st.first]

BtEvent(n, st, e) ==
    LET added == Added(st, e)
        flush == \/ n.timeout # 0 /\ Minus(e.ingest, added.first) > n.timeout
                 \/ Len(added.data) = n.count
    IN  IF flush THEN Emits(EmptyBatch(added), 1, BatchEvent(added)) ELSE Keeps(added)

BtSignal(n, st, t) ==
    IF n.timeout # 0 /\ Minus(t, st.first) > n.timeout /\ st.data # <<>>
    THEN Emits(EmptyBatch(st), 1, BatchEvent(st))
    ELSE Keeps(st)

-----------------------------------------------------------------------------
(* grouper::bucket: an LRU cache of windows, most recent first.  A window  *)
(* counts in n.windows slots, each of n.range / n.windows rounded down; at *)
(* is the current slot and counts[d] what it let through d slots ago.      *)

NewWindow(n) == [at |-> 0, counts |-> [d \in 0 .. n.windows - 1 |-> 0]]

\* The slot of a time; n.phase says where the slots begin.
Slot(n, t) == (t + n.phase) \div (n.range \div n.windows)

\* inc_t of the window crate: the window moves forward to the slot of t, never
\* back, and counts there unless its slots hold rate events already.
Moved(n, w, t) ==
    LET by == IF Slot(n, t) > w.at THEN Slot(n, t) - w.at ELSE 0
    IN  [at |-> w.at + by,
         counts |-> [d \in DOMAIN w.counts |-> IF d >= by THEN w.counts[d - by] ELSE 0]]
Full(n, w) == FoldFunction(+, 0, w.counts) >= n.rate
Counted(w) == [w EXCEPT !.counts[0] = @ + 1]

\* Every event gets a new window.
WindowAnew(n, st, at) == NewWindow(n)

\* The window of the group at this place in the cache, or a new one.
WindowOf(n, st, at) == IF at = 0 THEN NewWindow(n) ELSE st[at].window

BuEvent(n, st, e) ==
    LET at == SelectInSeq(st, LAMBDA g : g.dim = e.meta.dim)
        w == Moved(n, WindowOf(n, st, at), e.ingest)
        others == SelectSeq(st, LAMBDA g : g.dim # e.meta.dim)
        kept == IF at = 0 /\ Len(st) = n.cardinality THEN Front(others) ELSE others
        group(v) == <<[dim |-> e.meta.dim, window |-> v]>> \o kept
    IN  IF ~e.meta.class \/ (at = 0 /\ ~e.meta.rate) THEN Emits(st, ERR, e)
        ELSE IF Full(n, w) THEN Emits(group(w), OVERFLOW, e)
        ELSE Emits(group(Counted(w)), 1, e)

-----------------------------------------------------------------------------
(* The pipeline                                                            *)

Fresh(n) ==
    CASE n.kind = "backpressure" -> [backoff |-> 0, next |-> 0]
      [] n.kind = "percentile"   -> [perc |-> n.one]
      [] n.kind = "roundrobin"   -> [open |-> [o \in 0 .. n.outputs - 1 |-> TRUE],
                                     next |-> 0, first |-> TRUE]
      [] n.kind = "batch"        -> [data |-> <<>>, tracked |-> {},
                                     transactional |-> FALSE, first |-> 0]
      [] n.kind = "bucket"       -> <<>>

OnEvent(i, st, e) ==
    LET n == graph.nodes[i]
    IN  CASE n.kind = "backpressure" -> BpEvent(n, i, st, e)
          [] n.kind = "percentile"   -> PercEvent(n, i, st, e)
          [] n.kind = "roundrobin"   -> RrEvent(n, i, st, e)
          [] n.kind = "batch"        -> BtEvent(n, st, e)
          [] n.kind = "bucket"       -> BuEvent(n, st, e)

OnContraflow(i, st, insight) ==
    LET n == graph.nodes[i]
    IN  CASE n.kind = "backpressure" -> BpContraflow(n, i, st, insight)
          [] n.kind = "percentile"   -> [st |-> PercContraflow(n, i, st, insight),
                                         cb |-> insight.cb]
          [] n.kind = "roundrobin"   -> RrContraflow(n, i, st, insight)
          [] OTHER                   -> [st |-> st, cb |-> insight.cb]

Target(i, port) == IF port = OVERFLOW THEN Nowhere ELSE graph.wires[i][port]

\* run() on an event on its way to node at: the operators' states and where
\* the event, or the batch that took it in, ended up.
Run(st, at, event) ==
    FoldLeft(
        LAMBDA r, i :
            IF r.at # i THEN r
            ELSE LET x == OnEvent(i, r.ops[i], r.event)
                 IN  [ops |-> [r.ops EXCEPT ![i] = x.st],
                      at |-> Target(i, x.port), event |-> x.event],
        [ops |-> st, at |-> at, event |-> event],
        [i \in Nodes |-> i])

\* contraflow(skip_to): the operators before skip, last first.
Contraflow(st, skip, insight) ==
    FoldLeft(
        LAMBDA r, i :
            LET x == OnContraflow(i, r.ops[i], r.insight)
            IN  [ops |-> [r.ops EXCEPT ![i] = x.st],
                 insight |-> [r.insight EXCEPT !.cb = x.cb]],
        [ops |-> st, insight |-> insight],
        [k \in 1 .. skip - 1 |-> skip - k])

\* What the source takes from an insight.
Hears(breaker, cb) == IF cb \in {"open", "close"} THEN cb = "open" ELSE breaker

\* An event arrives where its path ends, sent by an event or a tick of time t.
Arrive(r, t) ==
    LET k == r.at - Len(graph.nodes)
    IN  IF r.event = NoEvent THEN UNCHANGED <<inbox, sunk, dropped>>
        ELSE IF r.at = Nowhere
        THEN dropped' = dropped \union Range(r.event.ids) /\ UNCHANGED <<inbox, sunk>>
        ELSE /\ inbox' = [inbox EXCEPT ![k] = Append(@, r.event)]
             /\ sunk' = Append(sunk, [sink |-> k, event |-> r.event, time |-> t])
             /\ UNCHANGED dropped

-----------------------------------------------------------------------------
(* Steps                                                                   *)

Init ==
    /\ graph \in Graphs
    /\ ops = [i \in Nodes |-> Fresh(graph.nodes[i])]
    /\ inbox = [k \in DOMAIN graph.sinks |-> <<>>]
    /\ down = {} /\ cf = <<>> /\ told = TRUE /\ now = 1 /\ ticked = 0
    /\ sent = <<>> /\ sunk = <<>> /\ dropped = {} /\ quiet = 0 /\ shut = {}

\* An event of a source: enqueue() and send_events().
Enqueue(input) ==
    LET id == Len(sent) + 1
        e == [ids |-> <<id>>, tracked |-> {id}, ingest |-> now - input.lag,
              transactional |-> input.transactional, op_meta |-> {}, meta |-> input.meta]
        r == Run(ops, 1, e)
    IN  /\ Len(sent) < graph.events
        /\ sent' = Append(sent, e)
        /\ ops' = r.ops
        /\ Arrive(r, e.ingest)
        /\ quiet' = now
        /\ UNCHANGED <<graph, down, cf, told, now, ticked, shut>>

TimePasses ==
    /\ now < graph.until
    /\ now' = now + 1
    /\ UNCHANGED <<graph, ops, inbox, down, cf, told, ticked, sent, sunk, dropped, quiet, shut>>

\* A tick: every operator hears the signal in turn; then their insights go to
\* the source and what a batch emitted is run.
Signalled(i, st, t) ==
    LET n == graph.nodes[i]
    IN  CASE n.kind = "backpressure" -> BpSignal(n, st, t)
          [] n.kind = "roundrobin"   -> RrSignal(st)
          [] n.kind = "batch"        -> BtSignal(n, st, t)
          [] OTHER                   -> [st |-> st]

\* The insights of a tick, in order: each passes the operators before its own.
Restores(st, from, breaker, t) ==
    FoldLeft(
        LAMBDA r, i :
            IF i \notin from THEN r
            ELSE LET c == Contraflow(r.ops, i, [cb |-> "open", op_meta |-> {},
                                                ingest |-> t, slow |-> FALSE])
                 IN  [ops |-> c.ops, told |-> Hears(r.told, c.insight.cb)],
        [ops |-> st, told |-> breaker],
        [i \in Nodes |-> i])

Tick(t) ==
    LET s == [i \in Nodes |-> Signalled(i, ops[i], t)]
        flushed == {i \in Nodes : graph.nodes[i].kind = "batch" /\ s[i].event # NoEvent}
        i0 == CHOOSE i \in flushed : TRUE
        st == [i \in Nodes |-> s[i].st]
        r == IF flushed = {} THEN [ops |-> st, at |-> Nowhere, event |-> NoEvent]
             ELSE Run(st, Target(i0, 1), s[i0].event)
        c == Restores(r.ops, {i \in Nodes : graph.nodes[i].kind \in {"backpressure", "roundrobin"}
                                            /\ s[i].restore}, told, t)
    IN  /\ ticked' = t
        /\ Arrive(r, t)
        /\ ops' = c.ops /\ told' = c.told
        /\ UNCHANGED <<graph, down, cf, now, sent, quiet, shut>>

\* The pipeline takes an insight of a sink.
Insight ==
    /\ cf # <<>>
    /\ LET c == Contraflow(ops, Len(graph.nodes) + 1, Head(cf))
       IN  ops' = c.ops /\ told' = Hears(told, c.insight.cb)
    /\ cf' = Tail(cf)
    /\ quiet' = now
    /\ shut' = shut \union UNION {{<<i, o>> : o \in Closed(ops'[i])} : i \in RoundRobins}
    /\ UNCHANGED <<graph, inbox, down, now, ticked, sent, sunk, dropped>>

InsightOf(e, cb, slow) ==
    [cb |-> cb, op_meta |-> e.op_meta, ingest |-> e.ingest, slow |-> slow]

\* A rest sink answers any of its events, when the response is there or when
\* the request cannot be made; it answers only transactional ones.
RestAnswer(k, j, insight) ==
    /\ graph.sinks[k] = "rest"
    /\ inbox' = [inbox EXCEPT ![k] = RemoveAt(@, j)]
    /\ cf' = IF inbox[k][j].transactional THEN Append(cf, insight) ELSE cf
    /\ UNCHANGED <<graph, ops, down, told, now, ticked, sent, sunk, dropped, quiet, shut>>

\* The response comes now, in time or late.
RestResponse(k, j, cb, slow) ==
    RestAnswer(k, j, [InsightOf(inbox[k][j], cb, slow) EXCEPT !.ingest = now])

RestRejects(k, j) == RestAnswer(k, j, InsightOf(inbox[k][j], "fail", FALSE))

\* on_event of the otel sink: the event is exported, exporting it fails, or it
\* is none the sink supports, an error that nobody answers.
OtelEvent(k, outcome) ==
    LET e == Head(inbox[k])
        insight == InsightOf(e, IF outcome = "ok" THEN "ack" ELSE "fail", FALSE)
    IN  /\ graph.sinks[k] = "otel" /\ inbox[k] # <<>>
        /\ inbox' = [inbox EXCEPT ![k] = Tail(@)]
        /\ down' = CASE outcome = "ok" -> down \ {k}
                     [] outcome = "failed" -> down \union {k}
                     [] outcome = "unsupported" -> down
        /\ cf' = cf \o (IF e.transactional /\ outcome # "unsupported" THEN <<insight>> ELSE <<>>)
                    \o (IF outcome = "failed" THEN <<InsightOf(e, "close", FALSE)>> ELSE <<>>)
        /\ UNCHANGED <<graph, ops, told, now, ticked, sent, sunk, dropped, quiet, shut>>

\* probe(): nothing ever calls trigger() of the supervisor, so it is never
\* down and the answer is yes without a look at the endpoint.
Probe == TRUE

\* on_signal of the otel sink.
OtelSignal(k) ==
    /\ k \in down /\ Probe
    /\ down' = down \ {k}
    /\ cf' = Append(cf, [cb |-> "open", op_meta |-> {}, ingest |-> now, slow |-> FALSE])
    /\ UNCHANGED <<graph, ops, inbox, told, now, ticked, sent, sunk, dropped, quiet, shut>>

Next ==
    \/ \E input \in graph.inputs : Enqueue(input)
    \/ TimePasses
    \/ \E t \in now - TickDelay .. now : t > ticked /\ Tick(t)
    \/ Insight
    \/ \E k \in DOMAIN graph.sinks :
          \/ \E j \in DOMAIN inbox[k] :
                \/ \E cb \in {"ack", "fail"}, slow \in BOOLEAN : RestResponse(k, j, cb, slow)
                \/ RestRejects(k, j)
          \/ \E outcome \in {"ok", "failed", "unsupported"} : OtelEvent(k, outcome)
          \/ OtelSignal(k)

Spec == Init /\ [][Next]_vars

-----------------------------------------------------------------------------
(* Properties                                                              *)

EventNumbers == DOMAIN sent

\* Type correctness: an operator's backoff is one of its steps, its percentage
\* lies between nothing and everything (percentile.rs:129-137), an output is
\* one there is, a batch is smaller than its count.
TypeOK ==
    /\ \A i \in Nodes :
         LET n == graph.nodes[i] st == ops[i]
         IN  CASE n.kind = "backpressure" -> st.backoff \in {0} \union Range(n.steps)
               [] n.kind = "percentile"   -> st.perc \in 0 .. n.one
               [] n.kind = "roundrobin"   -> st.next \in 0 .. n.outputs
               [] n.kind = "batch"        -> Len(st.data) < n.count
               [] n.kind = "bucket"       -> Len(st) <= n.cardinality
    /\ down \subseteq DOMAIN graph.sinks
    /\ told \in BOOLEAN
    /\ dropped \subseteq EventNumbers
    /\ \A k \in DOMAIN cf : cf[k].cb \in {"open", "close", "ack", "fail"}

Held == LET batches == {i \in Nodes : graph.nodes[i].kind = "batch"}
        IN  IF batches = {} THEN <<>> ELSE ops[CHOOSE i \in batches : TRUE].data

\* Every event that arrived left through an unconnected port, or reached a
\* sink, alone or in a batch, or waits in a batch: once, and in the order of
\* arrival (Batch::on_event and on_signal, batch.rs:74-181).
EachEventOnceInOrder ==
    FlattenSeq([k \in DOMAIN sunk |-> sunk[k].event.ids]) \o Held
        = SelectSeq([n \in EventNumbers |-> n], LAMBDA n : n \notin dropped)

\* The operators that ask for an answer to every event.
Asking == {i \in Nodes : graph.nodes[i].kind \in {"backpressure", "percentile"}}

\* What reaches a sink stands for exactly its events: it tracks their ids, it
\* carries the ingest time of the first, and it wants an answer if and only if
\* one of them did or an operator asked for it (batch.rs:88-139).
StandsForItsEvents ==
    \A k \in DOMAIN sunk :
        LET e == sunk[k].event
        IN  /\ e.tracked = Range(e.ids)
            /\ e.ingest = sent[Head(e.ids)].ingest
            /\ e.transactional <=> (Asking # {} \/ \E n \in Range(e.ids) : sent[n].transactional)

\* No tick leaves an event in a batch longer than the timeout, and no batch
\* leaves before it is full or its timeout is over, except to an event or a
\* tick that is older than its first event (batch.rs:115-118, 154).  Every
\* event of a pipeline with a batch passes it.
BatchOnTime ==
    \A i \in Nodes :
        LET n == graph.nodes[i]
        IN  n.kind = "batch" =>
                /\ ops[i].data # <<>> => ticked - sent[Head(ops[i].data)].ingest <= n.timeout
                /\ \A k \in DOMAIN sunk :
                      LET e == sunk[k].event
                      IN  \/ Len(e.ids) = n.count
                          \/ sunk[k].time - e.ingest > n.timeout
                          \/ sunk[k].time < e.ingest

Holding == RoundRobins \union
           {i \in Nodes : graph.nodes[i].kind = "backpressure" /\ graph.nodes[i].method = "pause"}
LongestStep(i) == CHOOSE b \in Range(graph.nodes[i].steps) : \A c \in Range(graph.nodes[i].steps) : c <= b


\* What a roundrobin sent through one of its outputs and reached a sink.
Share(i, o) == Cardinality({j \in DOMAIN sunk : o \in Marks(sunk[j].event, i)})

\* Outputs that stay open get equal shares, whatever happens to the others
\* (RoundRobin::on_event, rr.rs:91-116).
Balanced ==
    \A i \in RoundRobins : \A o, p \in DOMAIN ops[i].open :
        <<i, o>> \notin shut /\ <<i, p>> \notin shut => Share(i, o) <= 1 + Share(i, p)

\* The passed events of one dimension up to event m, and the latest of their times.
PassedTo(m) == {x \in 1 .. m : x \notin dropped /\ sent[x].meta.dim = sent[m].meta.dim}
LatestTo(m) == CHOOSE t \in {sent[x].ingest : x \in PassedTo(m)} :
                  \A x \in PassedTo(m) : sent[x].ingest <= t

\* A bucket with room for all dimensions lets at most rate events of one through
\* in any stretch that its slots cover wherever they begin, which is one slot
\* less than the windows it was given.  An event that comes late counts for the
\* latest time before it (bucket.rs:145-199).
RateKept ==
    \A i \in Nodes :
        LET n == graph.nodes[i]
        IN  n.kind = "bucket" =>
                \A m \in EventNumbers \ dropped :
                    Cardinality({x \in PassedTo(m) :
                        LatestTo(m) - LatestTo(x) <= (n.windows - 1) * (n.range \div n.windows)})
                    <= n.rate

\* Batches leave in time and stand for the events in them (batch.rs:74-181).
BatchesKept == StandsForItsEvents /\ BatchOnTime

\* The operators that share out or limit keep their measure (rr.rs:91-116,
\* bucket.rs:145-199, percentile.rs:114-140).
LimitsKept == TypeOK /\ Balanced /\ RateKept
=============================================================================
