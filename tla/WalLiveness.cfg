SPECIFICATION FairSpec
CONSTANTS
    u1 = u1
    ReadCount = 2
    MaxElements = 2
    UseMaxBytes = FALSE
    FlushOnEvent = TRUE
    Uids = {u1}
    Word = 16
    MaxId = 3
    MaxFails = 1
    MaxCrashes = 1
    MaxErrors = 0
PROPERTY StoredIsEmitted
PROPERTY FailedIsReplayed
PROPERTY ImplementsReliableLog
