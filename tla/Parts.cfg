SPECIFICATION PartsSpec
SYMMETRY PartsSymmetry
CONSTANTS
    Regs = {r1, r2}
    Sources = {1, 2}
    Streams = {0, 1}
    Events = {0, 1, 2}
    MaxSeen = 4
    Queries <- MCQueries
    InputNode = 1
    OutputNode = 5
    Wires <- MCWires
    HeaderLen = 3
    WireLen = 6
    Counts = {0, 1, 2, 3, 4}
    MaxChunks = 3
    FiveSec = 1
    MaxMsgs = 2
    MaxArrivals = 5
    MaxClock = 4
    Scripts <- MCScripts
    Targets <- MCTargets
    Valuations <- MCValuations
    MIN_BTREE_SIZE = 2
    Samples <- MCSamples
    MaxSamples = 5
    HIST_MAX_CACHE_SIZE = 3
    Clients = {c1, c2}
    QSIZE = 1
    MaxSent = 1
    MaxReplies = 2
    Entries = {e1, e2}
    Schedules <- MCSchedules
    Second = 2
    MaxTime = 4
INVARIANT IdsAgree
INVARIANT MessagesAgree
INVARIANT QueriesAgree
INVARIANT ClausesAgree
INVARIANT AggregatesAgree
INVARIANT RepliesRight
INVARIANT TriggersExact
CHECK_DEADLOCK FALSE
