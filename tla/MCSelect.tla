------------------------------ MODULE MCSelect ------------------------------
(* Select on count and time based windows, alone and as tilt frames.       *)
EXTENDS Select

Count(n) == [kind |-> "count", size |-> n, max_groups |-> 2]
Time(n) == [kind |-> "time", size |-> n, max_groups |-> 2]
Small(w) == [w EXCEPT !.max_groups = 1]

MCChains == {<<Time(2)>>, <<Small(Count(2))>>, <<Count(1), Count(2)>>, <<Time(1), Time(2)>>,
             <<Time(1), Small(Count(2))>>, <<Count(2), Time(1)>>}
============================================================================
