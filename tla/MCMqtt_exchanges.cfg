\* Requests of the application, with identifiers and ticks that wrap, or messages of the
\* broker, some of them sent twice, over two connections.
SPECIFICATION SystemSpec
CONSTANTS
    KeepAlive = 0
    ResendTimeout = 1
    PingTimeout = 1
    SendTries = 2
    TickMod = 6
    IdMod = 3
    SocketBuffer = 2
    LoopTicks = 1
    MaxOut = 3
    MaxIn = 2
    MaxConnects = 2
    BrokerSends = 2
    BrokerBuffer = 2
    InIds = 1
    CleanSession = TRUE
    Faulty = FALSE
CONSTRAINT OneDirection
INVARIANTS
    QueueSorted
    AtLeastOnce
    AtMostOnce
    InboundDelivered
    InboundOnce
