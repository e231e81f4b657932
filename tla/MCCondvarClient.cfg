\* Two producers and two consumers use the condition variable with a predicate.
SPECIFICATION ClientSpec
CONSTANTS
    Tasks = {p1, p2, c1, c2}
    Producers = {p1, p2}
    Consumers = {c1, c2}
    NoTask = NoTask
    MaxItems = 3
INVARIANTS
    CvAccounting
    MutualExclusion
    NoLostWakeup
PROPERTIES
    ItemsAreTaken
    TimedWaitEnds
CHECK_DEADLOCK FALSE
