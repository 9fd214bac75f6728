SPECIFICATION FairSpec
CONSTANTS
    Src = "src"
    Pipes = {"p1", "p2"}
    Sinks = {"s1", "s2"}
    Plans <- TcpPlan
    QSize = 1
    MaxEvents = 2
PROPERTY BreakerRecovers
CHECK_DEADLOCK FALSE
