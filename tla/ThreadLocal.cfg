SPECIFICATION Spec
CONSTANTS
    Threads = {t1}
    OtherTasks = {main}
    MaxKeys = 2
    Iterations = 4
    MaxObjs = 5
INVARIANTS
    DestroyedOnce
PROPERTIES
    ReverseOrder
    NothingLeftBehind
CHECK_DEADLOCK FALSE
