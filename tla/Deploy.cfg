SPECIFICATION Spec
CONSTANTS
    b1 = b1
    b2 = b2
    fan = fan
    s1 = s1
    s2 = s2
    s3 = s3
    Onramps = {"o"}
    Pipelines = {"p", "q", "r"}
    Offramps = {"f", "g"}
    Bindings = {b1, b2, fan, s1, s2, s3}
    Links <- MCLinks
    Clients = {1, 2}
    Removable = {"f"}
    Sessions <- MCSessions
    MaxTasks = 8
    MaxFaults = 1
INVARIANT RegistryRight
INVARIANT LinksRight
INVARIANT InputsAreAlive
INVARIANT SomeoneAnswers
CHECK_DEADLOCK FALSE
