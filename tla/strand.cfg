SPECIFICATION FairSpec
CONSTANTS
    w1 = w1
    w2 = w2
    v1 = v1
    c1 = c1
    p1 = p1
    p2 = p2
    t1 = t1
    t2 = t2
    t3 = t3
    t4 = t4
    t5 = t5
    None = None
    Threads = {w1, w2, v1, c1}
    Pools = {p1, p2}
    PoolOf <- MCPoolOf
    Default = p1
    Tasks = {t1, t2, t3, t4, t5}
    BoundPool <- MCBoundPool
INVARIANT InvokerSound
PROPERTIES ImplementsSerialQueue EveryTaskRuns
CHECK_DEADLOCK FALSE
