SPECIFICATION FairSpec
CONSTANTS
    Src = "src"
    Pipes = {"p1", "p2"}
    Sinks = {"s1", "s2"}
    Plans <- SmallPlans
    QSize = 1
    MaxEvents = 3
INVARIANT ChannelsBounded
INVARIANT DeliveredInOrder
INVARIANT VerdictsGenuine
INVARIANT ResumesWhenAllOpen
INVARIANT OnePullPastClose
PROPERTY EveryEventAnswered
CHECK_DEADLOCK FALSE
