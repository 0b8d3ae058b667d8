SPECIFICATION Spec
CONSTANTS
    r1 = r1
    r2 = r2
    Requests <- TwoRequests
    None = None
    Failed = Failed
    Disconnect = Disconnect
    SocketBuf = 1
INVARIANTS NoCrossTalk PendingExact AnswerUnderWay CapturedIffForwarded
PROPERTIES EveryCallEnds KeepsPromise
CHECK_DEADLOCK FALSE
