SPECIFICATION Spec
CONSTANTS
    Graphs <- MCGraphs
    Word = 8
CHECK_DEADLOCK FALSE
INVARIANT LimitsKept
INVARIANT EachEventOnceInOrder
INVARIANT BatchesKept
 
