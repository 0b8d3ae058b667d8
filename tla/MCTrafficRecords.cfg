SPECIFICATION Spec
CONSTANTS
    Exchanges = {"e1", "e2"}
    Failing = {"e1"}
    Tunnels = {"t1", "t2"}
    Calls = {"k1", "k2"}
    External = 2
    None = None
INVARIANTS NoDangling ToldAsKept
PROPERTIES CallsEnd
CHECK_DEADLOCK FALSE
