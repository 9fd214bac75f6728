---------------------------- MODULE MCExecGraph ----------------------------
(***************************************************************************)
(* Small graphs for the executable graph: operators 1 to 3, output node 4, *)
(* metrics node 5.                                                         *)
(***************************************************************************)
EXTENDS ExecGraph

\* Operators that feed both their successor and the output, a chain that is
\* declared against the flow, and a loop, which is refused.
SmallGraphs ==
    { <<<<2, 4>>, <<3, 4>>, <<>>>>, <<<<3>>, <<4>>, <<2>>>>, <<<<2>>, <<1, 4>>, <<>>>> }

AnyEmission == {<<>>, <<"event">>, <<"event", "event">>, <<"event", "signal">>}

=============================================================================
