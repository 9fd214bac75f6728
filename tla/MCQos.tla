------------------------------- MODULE MCQos -------------------------------
(* The pipelines.                                                          *)
EXTENDS Qos

X == [class |-> TRUE, dim |-> "x", rate |-> TRUE]
Y == [class |-> TRUE, dim |-> "y", rate |-> TRUE]
Inputs(lags, txs, metas) == [lag : lags, transactional : txs, meta : metas]

Bp(method) == [kind |-> "backpressure", method |-> method, steps |-> <<1, 2>>]
Rr(n) == [kind |-> "roundrobin", outputs |-> n]
\* two slots of 5 \div 2
Bu(rate, phase) == [kind |-> "bucket", rate |-> rate, range |-> 5, windows |-> 2,
                    cardinality |-> 2, phase |-> phase]
Bt(count, timeout) == [kind |-> "batch", count |-> count, timeout |-> timeout]

\* bp -> rr -> an otel and a rest sink
Paused == [nodes |-> <<Bp("pause"), Rr(2)>>, wires |-> <<<<2>>, <<3, 4>>>>,
           sinks |-> <<"otel", "rest">>,
           inputs |-> Inputs({0}, {FALSE}, {X}), events |-> 2, until |-> 4]
\* bp -> otel
Guarded == [nodes |-> <<Bp("pause")>>, wires |-> <<<<2>>>>,
            sinks |-> <<"otel">>, inputs |-> Inputs({0}, {FALSE}, {X}), events |-> 3, until |-> 4]
\* bucket -> bp -> batch -> rest, as in demo/configs/tremor/config/demo.trickle
Demo == [nodes |-> <<Bu(2, 0), Bp("discard"), Bt(2, 1)>>,
         wires |-> <<<<2>>, <<3>>, <<4>>>>, sinks |-> <<"rest">>,
         inputs |-> Inputs({0}, {FALSE}, {X, Y, [Y EXCEPT !.rate = FALSE],
                                          [X EXCEPT !.class = FALSE]}), events |-> 3, until |-> 3]
\* bp -> rest
Discarding == [nodes |-> <<Bp("discard")>>, wires |-> <<<<2>>>>, sinks |-> <<"rest">>,
               inputs |-> Inputs({0, 1}, {FALSE}, {X}), events |-> 3, until |-> 3]
\* percentile -> rest
Sampled == [nodes |-> <<[kind |-> "percentile", one |-> 2, down |-> 2, up |-> 1, cycle |-> 2]>>,
            wires |-> <<<<2>>>>, sinks |-> <<"rest">>,
            inputs |-> Inputs({0}, {FALSE}, {X}), events |-> 3, until |-> 3]
\* rr -> an otel and two rest sinks
Spread == [nodes |-> <<Rr(3)>>, wires |-> <<<<2, 3, 4>>>>,
           sinks |-> <<"otel", "rest", "rest">>,
           inputs |-> Inputs({0}, {FALSE}, {X}), events |-> 5, until |-> 2]
\* rr -> two otel sinks
Closing == [nodes |-> <<Rr(2)>>, wires |-> <<<<2, 3>>>>, sinks |-> <<"otel", "otel">>,
            inputs |-> Inputs({0}, {FALSE}, {X}), events |-> 4, until |-> 2]
\* batch -> a sink that answers nothing
Batched == [nodes |-> <<Bt(3, 1)>>, wires |-> <<<<2>>>>, sinks |-> <<"silent">>,
            inputs |-> Inputs({0, 1}, BOOLEAN, {X}), events |-> 4, until |-> 4]
\* rr -> two bps -> an otel and a rest sink
Fanned == [nodes |-> <<Rr(2), Bp("pause"), Bp("pause")>>, wires |-> <<<<2, 3>>, <<4>>, <<5>>>>,
           sinks |-> <<"otel", "rest">>,
           inputs |-> Inputs({0}, {FALSE}, {X}), events |-> 3, until |-> 3]
\* bucket -> a sink that answers nothing
Limited(phase) ==
    [nodes |-> <<Bu(2, phase)>>, wires |-> <<<<2>>>>, sinks |-> <<"silent">>,
     inputs |-> Inputs({0, 2}, {FALSE}, {X, Y}), events |-> 4, until |-> 5]

MCGraphs == {Limited(0), Limited(1)} \union
            {Paused, Guarded, Fanned, Demo, Discarding, Sampled, Spread, Closing, Batched}
=============================================================================
