SPECIFICATION MCSpec
CONSTANTS
    Threads = {t1, t2, t3}
    Addrs = {a1, a2}
    Null = Null
    Tasks = {u1, u2, u3, u4}
INVARIANTS
    NoDoubleFree
    NoUseAfterFree
    NoLeak
    CompletesOnce
    ReturnedMeansDone
PROPERTIES
    JoinReturns
    SpinEnds
CHECK_DEADLOCK FALSE
