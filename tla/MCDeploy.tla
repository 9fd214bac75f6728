------------------------------ MODULE MCDeploy ------------------------------
(* One client works with two bindings that share their onramp and their    *)
(* offramp and with one whose pipeline leads to two offramps; or two       *)
(* clients work at the same time, with the same, overlapping or different  *)
(* bindings.                                                               *)
EXTENDS Deploy

CONSTANTS b1, b2, fan, s1, s2, s3

Link(f, tos) == [from |-> f, port |-> "out", tos |-> tos]
MCLinks == [b \in Bindings |->
    CASE b = b1  -> <<Link("o", <<"p">>), Link("p", <<"f">>)>>
      [] b = b2  -> <<Link("o", <<"q">>), Link("q", <<"f">>)>>
      [] b = fan -> <<Link("r", <<"f", "g">>)>>
      [] b = s1  -> <<Link("p", <<"f">>)>>
      [] b = s2  -> <<Link("q", <<"f">>)>>
      [] b = s3  -> <<Link("r", <<"g">>)>>]

Makes(n, bs) == [requests |-> n, bindings |-> bs]
MCSessions == {<<Makes(3, {b1, b2, fan}), Makes(0, {})>>,
               <<Makes(2, {s1}), Makes(2, {s3})>>,
               <<Makes(2, {s1}), Makes(1, {s1})>>,
               <<Makes(2, {s1}), Makes(1, {s2})>>}
============================================================================
