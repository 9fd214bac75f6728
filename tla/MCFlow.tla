------------------------------- MODULE MCFlow -------------------------------
(***************************************************************************)
(* Small deployments of a source, two pipelines and two sinks.             *)
(***************************************************************************)
EXTENDS Flow

Plan(k1, k2, src, p1, p2, b) ==
    [kind |-> [s \in {"s1", "s2"} |-> IF s = "s1" THEN k1 ELSE k2],
     outs |-> [t \in {"src", "p1", "p2"} |->
                  CASE t = "src" -> src [] t = "p1" -> p1 [] t = "p2" -> p2],
     bound |-> b]

UpTo(e, t, f, d, s) ==
    [maxEvents |-> e, maxTicks |-> t, maxFlips |-> f, maxDrops |-> d, maxStops |-> s]

\* src -> p1 -> p2 -> s1
Chain(k, b) == Plan(k, "auto", <<"p1">>, <<"p2">>, <<"s1">>, b)

\* src -> p1 -> s1, s2
Fork(k1, k2, b) == Plan(k1, k2, <<"p1">>, <<"s1", "s2">>, <<>>, b)

\* src -> p1 -> s1, src -> p2 -> s2
Split(k1, k2, b) == Plan(k1, k2, <<"p1", "p2">>, <<"s1">>, <<"s2">>, b)

\* src -> p1 -> p2, s1 and p2 -> s2, s1: two paths to s1
Meet(k1, k2, b) == Plan(k1, k2, <<"p1">>, <<"p2", "s1">>, <<"s2", "s1">>, b)

\* src -> p1 -> s1
Short(k, b) == Plan(k, "auto", <<"p1">>, <<"s1">>, <<>>, b)

\* Long queues behind each other; connections of one or of both branches lost and
\* regained; an offramp that stops beside another; paths that meet.
SmallPlans ==
    { Chain("auto", UpTo(3, 0, 0, 1, 0)), Chain("tcp", UpTo(2, 1, 1, 0, 0)),
      Chain("async", UpTo(1, 0, 0, 0, 0)), Short("tcp", UpTo(3, 0, 1, 0, 0)),
      Fork("tcp", "async", UpTo(2, 0, 0, 0, 0)), Fork("auto", "auto", UpTo(2, 0, 0, 0, 1)),
      Split("async", "async", UpTo(0, 1, 4, 0, 0)),
      Meet("auto", "auto", UpTo(1, 0, 0, 0, 0)),
      Fork("async", "tcp", UpTo(1, 0, 2, 0, 0)), Split("tcp", "auto", UpTo(2, 0, 1, 1, 0)) }

\* One sink that loses its connection once, and ticks for ever.
TcpPlan == {Short("tcp", UpTo(2, 1, 1, 0, 0))}

=============================================================================
