SPECIFICATION AnalyticsSpec
CONSTANTS
    Events = {"e1", "e2", "e3", "e4"}
    Errors = {"e1", "e3"}
    Capacity = 2
    BatchSize = 2
INVARIANTS Accounted SummaryConsistent
PROPERTIES AcceptedSettles LoopEnds
CHECK_DEADLOCK FALSE
