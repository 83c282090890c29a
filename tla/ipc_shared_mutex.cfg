SPECIFICATION FairSpec
CONSTANTS
    p1 = p1
    p2 = p2
    a1 = a1
    a2 = a2
    b1 = b1
    None = None
    Procs = {p1, p2}
    Threads = {a1, a2, b1}
    ProcOf <- MCProcOf
    TidOf <- MCTidOf
    MaxReaders = 2
    MayCrash = {p1, p2}
    Upgraders = {a1}
    MaxLate = 2
INVARIANTS WriterAlone RegistrationExact
PROPERTY DeadDoNotBlock
CHECK_DEADLOCK FALSE
