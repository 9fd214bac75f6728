SPECIFICATION Spec
CONSTANTS
    u1 = u1
    ReadCount = 1
    MaxElements = 2
    UseMaxBytes = FALSE
    FlushOnEvent = TRUE
    Uids = {u1}
    Word = 16
    MaxId = 3
    MaxFails = 2
    MaxCrashes = 0
    MaxErrors = 0
INVARIANT FailedStaysStored
