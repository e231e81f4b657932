\* A broker that sends anything at any time, or nothing at all: the client keeps its own
\* state in order, and what it has begun comes to an end.
SPECIFICATION SystemFairSpec
CONSTANTS
    KeepAlive = 1
    ResendTimeout = 1
    PingTimeout = 1
    SendTries = 2
    TickMod = 4
    IdMod = 3
    SocketBuffer = 1
    LoopTicks = 0
    MaxOut = 1
    MaxIn = 0
    MaxConnects = 1
    BrokerSends = 1
    BrokerBuffer = 1
    InIds = 1
    CleanSession = TRUE
    Faulty = TRUE
INVARIANTS
    SocketMatchesStatus
    TimerMatchesStatus
PROPERTIES
    PingEnds
    RequestsSettle
