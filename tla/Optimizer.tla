----------------------------- MODULE Optimizer -----------------------------
(***************************************************************************)
(* The graph optimizer (tremor-pipeline/src/executable_graph.rs, optimize) *)
(* that runs once on every compiled query.  It takes passthrough operators *)
(* (streams, mostly) out of the way of events: whatever sends to one sends *)
(* to where that one sends.                                                *)
(*                                                                         *)
(* Nodes are numbered as in the graph; wires is port_indexes, a function   *)
(* from <<node, port>> to a sequence of <<node, port>>.  A query has no    *)
(* cycles (query.rs:626).  An operator is wired at ports it emits to,      *)
(* which is "out" for a passthrough.  Passthroughs handle neither signals  *)
(* nor contraflow (op.rs:92, 113), so that optimize_ finds none of them to *)
(* take out of the lists of the operators that do: both stay as they are.  *)
(***************************************************************************)
EXTENDS Integers, Sequences, FiniteSets, Functions, SequencesExt

CONSTANTS
    Queries,        \* the graphs: [wires, skip]
    InputNode,      \* the node of the input "in", a passthrough
    OutputNode      \* an output, a passthrough too

VARIABLES
    query,          \* the graph before
    wires,          \* port_indexes
    target,         \* inputs["in"]
    passes,         \* calls of optimize_ so far
    done            \* optimize returned

\* The passes after which optimize gives up.
MaxPasses == 1000

optimizerVars == <<query, wires, target, passes, done>>

\* Nodes that may be taken out: the operator and the kind of the node are
\* skippable.  The operator of an input or output is, the kind is not.
Skippables == query.skip
SkippableOps == query.skip \union {InputNode, OutputNode}

PortsOf(w, n) == {k \in DOMAIN w : k[1] = n}

\* Where a node sends to, at all its ports.
OutputsOf(w, n) == FlattenSeq([i \in 1 .. Cardinality(PortsOf(w, n)) |-> w[SetToSeq(PortsOf(w, n))[i]]])

OptimizerStart ==
    /\ wires = query.wires
    /\ target = InputNode
    /\ passes = 0
    /\ done = FALSE

OptimizerInit == query \in Queries /\ OptimizerStart

\* An input goes straight to the only place its node sends to, if that place
\* is a port with the name of the input; whatever the port.
NextTargetAnyPort(w) ==
    LET dsts == OutputsOf(w, target)
    IN  IF target \in SkippableOps /\ Cardinality(PortsOf(w, target)) = 1 /\ Len(dsts) = 1
        THEN dsts[1][1] ELSE target

NextTarget(w) ==
    LET dsts == OutputsOf(w, target)
    IN  IF /\ target \in SkippableOps
           /\ Cardinality(PortsOf(w, target)) = 1
           /\ Len(dsts) = 1 /\ dsts[1][2] = "in"
        THEN dsts[1][1] ELSE target

SendsTo(w, n) == {k \in DOMAIN w : \E i \in DOMAIN w[k] : w[k][i][1] = n}

\* Every wire to n is replaced by the wires of n, in place.
Bypass(w, n) ==
    [k \in DOMAIN w |->
        FlattenSeq([i \in DOMAIN w[k] |-> IF w[k][i][1] = n THEN OutputsOf(w, n) ELSE <<w[k][i]>>])]

\* optimize: optimize_ until nothing changes; one node after the other, by number.
Optimize ==
    LET order == SetToSortSeq(Skippables, <)
        step(acc, n) == [w |-> Bypass(acc.w, n), changed |-> acc.changed \/ SendsTo(acc.w, n) # {}]
        r == FoldLeft(step, [w |-> wires, changed |-> FALSE], order)
    IN  /\ ~done
        /\ target' = NextTarget(wires)
        /\ wires' = r.w
        /\ passes' = passes + 1
        /\ done' = (~r.changed \/ passes' > MaxPasses)
        /\ UNCHANGED query

-----------------------------------------------------------------------------
(* Properties                                                              *)

\* The deliveries that follow from dsts when passthroughs hand on what they
\* get, in the order of execution.
RECURSIVE Deliveries(_, _)
Deliveries(w, dsts) ==
    FlattenSeq([i \in DOMAIN dsts |->
        IF dsts[i][1] \notin Skippables \union {InputNode} THEN <<dsts[i]>>
        ELSE IF <<dsts[i][1], "out">> \in DOMAIN w THEN Deliveries(w, w[<<dsts[i][1], "out">>])
        ELSE <<>>])

\* What the operators and the outputs get, at which port and in which order, is
\* at every moment what the query says, for events of the input and of every
\* operator that stays; and two passes are enough, after which no event meets
\* a passthrough operator (executable_graph.rs:280-427).
OptimizedAlike ==
    /\ Deliveries(wires, <<<<target, "in">>>>) = Deliveries(query.wires, <<<<InputNode, "in">>>>)
    /\ \A k \in DOMAIN wires : k[1] \notin Skippables =>
         Deliveries(wires, wires[k]) = Deliveries(query.wires, query.wires[k])
    /\ passes <= 2
    /\ done => \A k \in DOMAIN wires : SendsTo(wires, k[1]) # {} => k[1] \notin Skippables
=============================================================================
