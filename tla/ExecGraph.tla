----------------------------- MODULE ExecGraph -----------------------------
(***************************************************************************)
(* The executable graph of a pipeline                                      *)
(* (tremor-pipeline/src/executable_graph.rs, built by query.rs).           *)
(*                                                                         *)
(* A graph runs one event, or one signal, at a time.  Deliveries that are  *)
(* still to be made wait on a stack; next() pops one, hands it to its      *)
(* node, and pushes what the node emits.  Deliveries to output nodes are   *)
(* collected in returns, which the stack fills in reverse, so run()        *)
(* reverses it.  Insights go the other way, through every node that        *)
(* handles contraflow, in the reverse of the order the query declares the  *)
(* nodes in.                                                               *)
(*                                                                         *)
(* Nodes are numbered in declaration order.  Operators are arbitrary: each *)
(* call of on_event or on_signal emits any sequence of EmissionSeqs, with  *)
(* or without an insight, or fails.  An event is named by the path that    *)
(* produced it, e \o <<k, d>> being the k-th emission of whoever handled e *)
(* on its way to the d-th target of the port.                              *)
(***************************************************************************)
EXTENDS Integers, SequencesExt

CONSTANTS
    Ops,            \* operator nodes, numbered in declaration order
    OutNode,        \* the node of output port "out"
    MetricsNode,    \* the node of output port "metrics" (metrics_idx)
    Entry,          \* the node the input "in" leads to
    Graphs,         \* possible port_indexes: operator -> targets of its port,
                    \* none if the port is not connected
    ContraHandlers, \* operators with handles_contraflow
    SignalHandlers, \* operators with handles_signal
    EmissionSeqs,   \* what one call may emit: sequences over Emissions
    Interval,       \* metric_interval
    Ingests,        \* possible ingest times of an event
    Word,           \* size of the unsigned time type (2^64 in the code)
    MaxCalls,       \* bound: calls of enqueue and enqueue_signal
    MaxEmit,        \* bound: emissions, over all calls, the first of every
                    \* answer excepted
    MaxInsights,    \* bound: insights raised, over all calls
    MaxErrors       \* bound: failing calls

\* An operator emits events or, on the same port, signal events.
Emissions == {"event", "signal"}

Nodes == Ops \union {OutNode, MetricsNode}

ASSUME ExecGraphAssumption ==
    /\ Ops \subseteq Nat /\ IsFiniteSet(Ops) /\ OutNode \in Nat \ Ops /\ MetricsNode \in Nat \ Ops
    /\ OutNode # MetricsNode /\ Entry \in Ops
    /\ Graphs \subseteq [Ops -> Seq(Ops \union {OutNode})]
    /\ ContraHandlers \subseteq Ops /\ SignalHandlers \subseteq Ops
    /\ EmissionSeqs \subseteq Seq(Emissions) /\ <<>> \in EmissionSeqs
    /\ Word \in Nat /\ Interval \in 0 .. Word - 1 /\ Ingests \subseteq 0 .. Word - 1
    /\ MaxCalls \in Nat /\ MaxEmit \in Nat /\ MaxErrors \in Nat
    /\ MaxInsights \in Nat

VARIABLES
    wires,          \* port_indexes
    stack,          \* stack: deliveries [node, ev, sig] still to be made
    returns,        \* the caller's event set, filled by run()
    insights,       \* insights: [from, num] emitted and not yet propagated
    lastMetrics,    \* last_metrics
    running,        \* a call is between two steps of run()
    calls,          \* calls so far
    budget,         \* emissions left
    errors,         \* calls that failed
    \* History, read by the properties only:
    pushed,         \* paths of all deliveries put on the stack
    handled,        \* the deliveries taken off it, in order
    delivered,      \* what each successful call returned, in order
    raised,         \* the operators that raised an insight, in order
    propagated,     \* the operators whose insight was propagated, in order
    visited,        \* <<origin, handlers visited>> of every insight propagated
    flushes         \* ingest times at which metrics were emitted

vars == <<wires, stack, returns, insights, lastMetrics, running, calls, budget,
          errors, pushed, handled, delivered, raised, propagated, visited, flushes>>

-----------------------------------------------------------------------------
(* Construction (query.rs): a graph with a cycle is refused, and both      *)
(* lists follow the declaration order.                                     *)

Edge(i, j) == \E k \in DOMAIN wires[i] : wires[i][k] = j

\* The operators that reach j through the wires: the smallest set that holds
\* whatever is wired to j or to one of its own.
Upstream(j) ==
    LET Closed(S) == \A i \in Ops : (\E k \in S \union {j} : Edge(i, k)) => i \in S
    IN  {i \in Ops : \A S \in SUBSET Ops : Closed(S) => i \in S}

Acyclic == \A i \in Ops : i \notin Upstream(i)

Ascending(S) ==
    CHOOSE s \in [1 .. Cardinality(S) -> S] : \A i, j \in DOMAIN s : i < j => s[i] < s[j]

\* Declared first, visited first.
DeclarationOrder == Ascending(ContraHandlers)

ContraflowList == Reverse(Ascending(ContraHandlers))

SignalflowList == Ascending(SignalHandlers)

Init ==
    /\ wires \in Graphs /\ Acyclic
    /\ stack = <<>> /\ returns = <<>> /\ insights = <<>>
    /\ lastMetrics = 0
    /\ running = FALSE
    /\ calls = 0 /\ budget = MaxEmit /\ errors = 0
    /\ pushed = {} /\ handled = <<>> /\ delivered = <<>>
    /\ raised = <<>> /\ propagated = <<>> /\ visited = {} /\ flushes = <<>>

-----------------------------------------------------------------------------
(* Pushing                                                                 *)

Delivery(n, e, s) == [node |-> n, ev |-> e, sig |-> s]

\* The deliveries enqueue_events pushes for what node i emitted on handling e.
Pushed(i, e, ems) ==
    FlattenSeq([k \in DOMAIN ems |->
        [d \in DOMAIN wires[i] |->
            Delivery(wires[i][d], e \o <<k, d>>, ems[k] = "signal")]])

\* The deliveries signalflow pushes for signal e: the handlers run in order,
\* ems is what each emits, and the first n of them succeed.
SignalPushed(e, ems, n) ==
    FlattenSeq([h \in 1 .. n |-> Pushed(SignalflowList[h], e \o <<h>>, ems[h])])

Paths(ds) == {ds[i].ev : i \in DOMAIN ds}

\* What an answer takes from the emission bound.  One emission is free: that a
\* chain of events, each answered with one event, ends is left to the graph.
Cost(ems) == IF ems = <<>> THEN 0 ELSE Len(ems) - 1

\* What the handlers of a signal take from it together.
Emitted(ems) == Cost(FlattenSeq(ems))

\* What the handlers of a signal may emit within the emission bound.
SignalEmissions(bound) ==
    {ems \in [DOMAIN SignalflowList -> EmissionSeqs] : Emitted(ems) <= bound}

-----------------------------------------------------------------------------
(* Contraflow                                                              *)

\* contraflow(Some(skip)): the handlers after skip in the list.
VisitedAfter(skip) ==
    LET idx == {i \in DOMAIN ContraflowList : ContraflowList[i] = skip}
    IN  IF idx = {} THEN <<>>
        ELSE SubSeq(ContraflowList, 1 + (CHOOSE i \in idx : TRUE), Len(ContraflowList))

\* An insight from a downstream neighbour: contraflow(None), every handler.
Contraflow ==
    /\ ~running
    /\ visited' = visited \union {<<OutNode, ContraflowList>>}
    /\ UNCHANGED <<wires, stack, returns, insights, lastMetrics, running, calls,
                   budget, errors, pushed, handled, delivered, raised, propagated, flushes>>

-----------------------------------------------------------------------------
(* The end of a call                                                       *)

\* The caller forgets to drain the event set.
HandOverUndrained(rets, ins) ==
    /\ running' = FALSE
    /\ returns' = rets
    /\ insights' = <<>>
    /\ delivered' = Append(delivered, rets)
    /\ propagated' = propagated \o ins
    /\ visited' = visited \union {<<ins[i], VisitedAfter(ins[i])>> : i \in DOMAIN ins}

\* The caller propagates the insights and drains the event set.
HandOver(rets, ins) ==
    /\ running' = FALSE
    /\ returns' = <<>>
    /\ insights' = <<>>
    /\ delivered' = Append(delivered, rets)
    /\ propagated' = propagated \o ins
    /\ visited' = visited \union {<<ins[i], VisitedAfter(ins[i])>> : i \in DOMAIN ins}

\* run() without its reversal of returns.
ReturnUnreversed(st, rets, ins) ==
    IF st = <<>> THEN HandOver(rets, ins)
    ELSE /\ returns' = rets /\ insights' = ins
         /\ UNCHANGED <<running, delivered, propagated, visited>>

\* run() ends when next() leaves the stack empty, else goes on.
ContinueOrReturn(st, rets, ins) ==
    IF st = <<>> THEN HandOver(Reverse(rets), ins)
    ELSE /\ returns' = rets /\ insights' = ins
         /\ UNCHANGED <<running, delivered, propagated, visited>>

\* An error inside run() that clears the insights as well.
FailForgets(new) ==
    /\ running' = FALSE
    /\ stack' = <<>>
    /\ insights' = <<>>

\* An error inside run() clears the stack; returns and insights stay, the new
\* ones of the failed step included.
Fail(new) ==
    /\ running' = FALSE
    /\ stack' = <<>>
    /\ insights' = insights \o new

\* An operator, or the handlers of a signal, answer with insights.
Raise(new) ==
    /\ Len(raised \o new) <= MaxInsights
    /\ raised' = raised \o new

-----------------------------------------------------------------------------
(* Calls                                                                   *)

\* Without the reset of last_metrics.
EmitMetricsNoReset(t) ==
    /\ lastMetrics' = lastMetrics
    /\ flushes' = Append(flushes, t)

\* enqueue_metrics, at ingest time t.
EmitMetrics(t) ==
    /\ lastMetrics' = t
    /\ flushes' = Append(flushes, t)

\* The difference is taken in unsigned arithmetic.
MetricsDue(t) == (t - lastMetrics) % Word > Interval

MetricDeliveries(c, m) == [j \in 1 .. m |-> Delivery(MetricsNode, <<c, 0, j>>, FALSE)]

\* enqueue: metrics if they are due (the statistics of nodes that saw no event
\* are empty, so there may be none), then the event, on top of them.  An
\* unknown input name is an error that leaves the metrics on the stack.
Enqueue ==
    /\ ~running /\ calls < MaxCalls
    /\ \E t \in Ingests, m \in {0, 1}, known \in BOOLEAN :
          LET c == calls + 1
              metrics == IF MetricsDue(t) THEN MetricDeliveries(c, m) ELSE <<>>
              event == IF known THEN <<Delivery(Entry, <<c, 1>>, FALSE)>> ELSE <<>>
          IN  /\ IF MetricsDue(t) THEN EmitMetrics(t)
                                  ELSE m = 0 /\ UNCHANGED <<lastMetrics, flushes>>
              /\ known \/ errors < MaxErrors
              /\ stack' = stack \o metrics \o event
              /\ pushed' = pushed \union Paths(metrics \o event)
              /\ running' = known
              /\ errors' = IF known THEN errors ELSE errors + 1
    /\ calls' = calls + 1
    /\ UNCHANGED <<wires, returns, insights, budget, handled, delivered, raised, propagated,
                   visited>>

\* Only the answer of the last handler is kept.
HasEventsLast(ems) == ems[Len(ems)] # <<>>

\* signalflow's answer: some handler emitted something, connected or not.
HasEvents(ems) == \E h \in DOMAIN ems : ems[h] # <<>>

\* Attributed to every handler of the signal.
SignalInsightsAll(ins) == IF ins = {} THEN <<>> ELSE SignalflowList

\* The handlers of a signal that answer with an insight, as they are called.
SignalInsights(ins) == Ascending(ins)

\* enqueue_signal, all handlers succeeding: run() only if one of them emitted.
EnqueueSignal ==
    /\ ~running /\ calls < MaxCalls
    /\ \E ems \in SignalEmissions(budget),
          ins \in SUBSET (SignalHandlers \intersect ContraHandlers) :
          LET ds == SignalPushed(<<calls + 1>>, ems, Len(SignalflowList))
              all == insights \o SignalInsights(ins)
          IN  /\ stack' = stack \o ds
              /\ Raise(SignalInsights(ins))
              /\ pushed' = pushed \union Paths(ds)
              /\ budget' = budget - Emitted(ems)
              /\ IF HasEvents(ems)
                   THEN /\ running' = TRUE
                        /\ insights' = all
                        /\ UNCHANGED <<returns, delivered, propagated, visited>>
                   ELSE HandOver(returns, all)
    /\ calls' = calls + 1
    /\ UNCHANGED <<wires, lastMetrics, errors, handled, flushes>>

\* The n-th handler of the signal fails: what the ones before it emitted stays
\* on the stack, and enqueue_signal returns the error.
EnqueueSignalFails ==
    /\ ~running /\ calls < MaxCalls /\ errors < MaxErrors
    /\ \E ems \in SignalEmissions(budget), n \in 1 .. Len(SignalflowList),
          ins \in SUBSET (SignalHandlers \intersect ContraHandlers) :
          LET ds == SignalPushed(<<calls + 1>>, ems, n - 1)
          IN  /\ \A h \in n .. Len(SignalflowList) :
                    ems[h] = <<>> /\ SignalflowList[h] \notin ins
              /\ insights' = insights \o SignalInsights(ins)
              /\ Raise(SignalInsights(ins))
              /\ stack' = stack \o ds
              /\ pushed' = pushed \union Paths(ds)
              /\ budget' = budget - Emitted(ems)
    /\ errors' = errors + 1
    /\ calls' = calls + 1
    /\ UNCHANGED <<wires, returns, lastMetrics, running, handled, delivered,
                   propagated, visited, flushes>>

-----------------------------------------------------------------------------
(* next()                                                                  *)

NextDelivery == Last(stack)

\* The delivery is read but not removed.
RestKept == stack

RestOfStack == Front(stack)

Take(d) == handled' = Append(handled, d)

\* The event reached an output node.
NextOutput ==
    LET d == NextDelivery
    IN  /\ running /\ stack # <<>> /\ ~d.sig /\ d.node \notin Ops
        /\ stack' = RestOfStack
        /\ ContinueOrReturn(RestOfStack, Append(returns, d), insights)
        /\ Take(d)
        /\ UNCHANGED <<wires, lastMetrics, calls, budget, errors, pushed, raised, flushes>>

\* An operator handles the event.
NextEvent ==
    LET d == NextDelivery
    IN  /\ running /\ stack # <<>> /\ ~d.sig /\ d.node \in Ops
        /\ \E ems \in EmissionSeqs, insight \in BOOLEAN :
              LET st == RestOfStack \o Pushed(d.node, d.ev, ems)
                  new == IF insight THEN <<d.node>> ELSE <<>>
              IN  /\ Cost(ems) <= budget
                  /\ insight => d.node \in ContraHandlers
                  /\ stack' = st
                  /\ pushed' = pushed \union Paths(Pushed(d.node, d.ev, ems))
                  /\ budget' = budget - Cost(ems)
                  /\ Raise(new)
                  /\ ContinueOrReturn(st, returns, insights \o new)
        /\ Take(d)
        /\ UNCHANGED <<wires, lastMetrics, calls, errors, flushes>>

\* An emitted signal event goes through the signal handlers.
NextSignal ==
    LET d == NextDelivery
    IN  /\ running /\ stack # <<>> /\ d.sig
        /\ \E ems \in SignalEmissions(budget),
              ins \in SUBSET (SignalHandlers \intersect ContraHandlers) :
              LET ds == SignalPushed(d.ev, ems, Len(SignalflowList))
                  st == RestOfStack \o ds
              IN  /\ stack' = st
                  /\ pushed' = pushed \union Paths(ds)
                  /\ budget' = budget - Emitted(ems)
                  /\ Raise(SignalInsights(ins))
                  /\ ContinueOrReturn(st, returns, insights \o SignalInsights(ins))
        /\ Take(d)
        /\ UNCHANGED <<wires, lastMetrics, calls, errors, flushes>>

\* The operator fails, or the n-th handler of an emitted signal does: the stack
\* is cleared, what the handlers before it emitted included, but their insights
\* stay.
NextFails ==
    LET d == NextDelivery
    IN  /\ running /\ stack # <<>> /\ errors < MaxErrors
        /\ \E ins \in SUBSET (SignalHandlers \intersect ContraHandlers) :
              /\ \/ ~d.sig /\ d.node \in Ops /\ ins = {}
                 \/ d.sig /\ \E n \in 1 .. Len(SignalflowList) :
                       \A h \in n .. Len(SignalflowList) : SignalflowList[h] \notin ins
              /\ Fail(SignalInsights(ins))
              /\ Raise(SignalInsights(ins))
        /\ Take(d)
        /\ errors' = errors + 1
        /\ UNCHANGED <<wires, returns, lastMetrics, calls, budget, pushed, delivered,
                       propagated, visited, flushes>>

\* Answers that there is more to do.
NextOnEmptySpins ==
    /\ running /\ stack = <<>>
    /\ UNCHANGED vars

\* "next was called on an empty graph stack, this should never happen".
NextOnEmpty ==
    /\ running /\ stack = <<>>
    /\ HandOver(Reverse(returns), insights)
    /\ UNCHANGED <<wires, stack, lastMetrics, calls, budget, errors, pushed, handled,
                   raised, flushes>>

Step == NextOutput \/ NextEvent \/ NextSignal \/ NextFails \/ NextOnEmpty

Next == Enqueue \/ EnqueueSignal \/ EnqueueSignalFails \/ Contraflow \/ Step

Spec == Init /\ [][Next]_vars /\ WF_vars(Step)

-----------------------------------------------------------------------------
(* Properties                                                              *)

\* Type invariant.
TypeOK ==
    /\ wires \in Graphs
    /\ \A i \in DOMAIN stack : stack[i].node \in Nodes /\ stack[i].sig \in BOOLEAN
    /\ \A i \in DOMAIN returns : returns[i].node \in Nodes \ Ops /\ ~returns[i].sig
    /\ insights \in Seq(ContraHandlers)
    /\ lastMetrics \in Ingests \union {0}
    /\ running \in BOOLEAN
    /\ calls \in 0 .. MaxCalls /\ errors \in 0 .. MaxErrors /\ budget \in 0 .. MaxEmit

Earlier(p, q) ==
    \E k \in (DOMAIN p) \intersect (DOMAIN q) :
        p[k] < q[k] /\ SubSeq(p, 1, k - 1) = SubSeq(q, 1, k - 1)

\* Whatever the operators emit, as long as none fails, a call hands its output
\* events over in the order in which the emissions that led to them were made:
\* the LIFO stack inverts the order at every level and the reversal of returns
\* undoes exactly that.  (The metrics of a call precede its events.)
OutputsInOrder ==
    errors = 0 => \A c \in DOMAIN delivered : \A i, j \in DOMAIN delivered[c] :
        i < j => Earlier(delivered[c][i].ev, delivered[c][j].ev)

\* No event is handled twice, and when no call failed and none is running,
\* every event that was emitted to a connected port has been handled: the early
\* exits of run() and of enqueue_signal leave nothing behind.
HandledExactlyOnce ==
    /\ \A i, j \in DOMAIN handled : i # j => handled[i].ev # handled[j].ev
    /\ ~running /\ errors = 0 => Paths(handled) = pushed

Outputs(ds) == {ds[i] : i \in {k \in DOMAIN ds : ~ds[k].sig /\ ds[k].node \notin Ops}}

\* An event that reached an output node is handed over exactly once, by its own
\* call or, when that call fails later on, by the next one that succeeds.
OutputsNeitherLostNorDoubled ==
    LET all == FlattenSeq(delivered) \o returns
    IN  /\ Range(all) = Outputs(handled)
        /\ \A i, j \in DOMAIN all : i # j => all[i] # all[j]

Precedes(s, i, j) ==
    \E a, b \in DOMAIN s : a < b /\ s[a] = i /\ s[b] = j

\* Handler i is declared before the node an insight comes from; everything is
\* declared before the output.
DeclaredBefore(i, origin) == origin = OutNode \/ i < origin

\* Every insight an operator raises is propagated exactly once and in the order
\* in which they were raised, also those of a call that failed afterwards; and of
\* the contraflow handlers upstream of its origin it passes exactly those the
\* query declares before the origin, no handler twice, and each before the
\* handlers above it that are declared earlier ("since contraflow is the reverse
\* we need to reverse it").  A WAL or a backpressure operator that is upstream
\* but declared later hears nothing: the wiring is not consulted.
InsightsGoUpstream ==
    /\ propagated \o insights = raised
    /\ \A v \in visited :
        LET above == Upstream(v[1]) \intersect ContraHandlers
            passed == {v[2][k] : k \in DOMAIN v[2]}
        IN  /\ \A i \in above : i \in passed <=> DeclaredBefore(i, v[1])
            /\ \A a, b \in DOMAIN v[2] : a # b => v[2][a] # v[2][b]
            /\ \A i, j \in above \intersect passed :
                  i \in Upstream(j) /\ i < j => Precedes(v[2], j, i)

\* Metrics are more than an interval apart, unless the event that brings them
\* is older than the last ones (the difference wraps around, see MetricsDue).
MetricsPaced ==
    \A i \in 1 .. Len(flushes) - 1 :
        flushes[i + 1] >= flushes[i] => flushes[i + 1] - flushes[i] > Interval

\* Every call ends, whatever the operators answer: an event that is passed on
\* one for one for ever would have to meet an operator again, and a graph with a
\* cycle is refused when the query is turned into a graph.
CallsEnd == running ~> ~running

\* What leaves the graph is exactly what reached its outputs, in the order in
\* which it was emitted, and the metrics among it are as far apart as configured
\* (executable_graph.rs:428-567).
OutputsExact == TypeOK /\ OutputsNeitherLostNorDoubled /\ OutputsInOrder /\ MetricsPaced
=============================================================================
