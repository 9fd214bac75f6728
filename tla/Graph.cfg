SPECIFICATION Spec
CONSTANTS
    Ops = {1, 2, 3}
    OutNode = 4
    MetricsNode = 5
    Entry = 1
    Graphs <- SmallGraphs
    ContraHandlers = {2, 3}
    SignalHandlers = {2, 3}
    EmissionSeqs <- AnyEmission
    Interval = 1
    Ingests = {0, 2}
    Word = 16
    MaxCalls = 2
    MaxEmit = 1
    MaxInsights = 2
    MaxErrors = 1
INVARIANT OutputsExact
INVARIANT HandledExactlyOnce
INVARIANT InsightsGoUpstream
PROPERTY CallsEnd
