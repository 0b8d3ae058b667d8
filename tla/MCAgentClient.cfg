SPECIFICATION AgentSpec
CONSTANTS
    Handlers = {"h1"}
    SendBuffer = 1
    Stalls = TRUE
    MaxConns = 2
INVARIANTS OneOpen
PROPERTIES LostIsRedialled StopsUnlessStalled
CHECK_DEADLOCK FALSE
