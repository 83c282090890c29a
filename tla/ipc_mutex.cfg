SPECIFICATION FairSpec
CONSTANTS
    p1 = p1
    p2 = p2
    p3 = p3
    a1 = a1
    a2 = a2
    b1 = b1
    c1 = c1
    None = None
    Procs = {p1,p2}
    Threads = {a1,a2,b1}
    ProcOf <- MCProcOf
    TidOf <- MCTidOf
    Lease = 2
    MayCrash = {p1,p2}
    TimedCalls = TRUE
    StrayUnlocks = {a2}
    MaxTime = 1
INVARIANTS Exclusive CrashReported
PROPERTY SomebodyEnters
CHECK_DEADLOCK FALSE
