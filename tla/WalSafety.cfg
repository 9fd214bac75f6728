SPECIFICATION Spec
CONSTANTS
    u1 = u1
    u2 = u2
    ReadCount = 1
    MaxElements = 2
    UseMaxBytes = TRUE
    FlushOnEvent = TRUE
    Uids = {u1, u2}
    Word = 16
    MaxId = 3
    MaxFails = 1
    MaxCrashes = 1
    MaxErrors = 1
INVARIANT TypeOK
INVARIANT AckedUpstreamIsDurable
INVARIANT AckedUpstreamIsDelivered
INVARIANT NothingSkipped
INVARIANT BreakerMatchesFull
PROPERTY RemovedOnlyOnceAcked
