SPECIFICATION FairSpec
CONSTANTS
    Tasks = {t1, t2, t3}
    NoTask = NoTask
PROPERTIES
    NotifiedWaiterReturns
CHECK_DEADLOCK FALSE
