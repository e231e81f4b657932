SPECIFICATION MutexFairSpec
CONSTANTS
    Tasks = {t1, t2, t3, t4, t5}
    NoTask = NoTask
INVARIANTS
    NoStrandedWaiter
    NoUseAfterDestroy
PROPERTIES
    ImplementsMutex
