SPECIFICATION Spec
CONSTANTS
    p1 = p1
    p2 = p2
    Partitions = {p1, p2}
    LogSize <- MCLogSize
    Retries = {TRUE, FALSE}
    MaxId = 2
    MaxFaults = 1
    Kinds <- MCKinds
    ErrorRoom = 1
    SinkIds = {0, 1}
CHECK_DEADLOCK FALSE
INVARIANT FailedIsReadAgain
