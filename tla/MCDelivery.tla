----------------------------- MODULE MCDelivery -----------------------------
(* Two partitions, with two messages and with one, and the sinks.          *)
EXTENDS Delivery

CONSTANTS p1, p2
MCLogSize == [p \in Partitions |-> IF p = p1 THEN 2 ELSE 1]
MCKinds == {<<"rest", 1>>, <<"rest", 2>>, <<"elastic", 1>>, <<"kafka", 1>>}
============================================================================
