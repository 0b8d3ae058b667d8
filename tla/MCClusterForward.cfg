SPECIFICATION Spec
CONSTANTS
    r1 = r1
    r2 = r2
    i1 = i1
    i2 = i2
    Requests <- MCRequests
    Instances <- MCInstances
    None = None
    Failed = Failed
INVARIANTS PendingExact 
 
CHECK_DEADLOCK FALSE
