SPECIFICATION SystemSpec
CONSTANTS
    KeepAlive = 0
    ResendTimeout = 1
    PingTimeout = 1
    SendTries = 2
    TickMod = 6
    IdMod = 3
    SocketBuffer = 2
    LoopTicks = 1
    MaxOut = 0
    MaxIn = 1
    MaxConnects = 2
    BrokerSends = 2
    BrokerBuffer = 2
    InIds = 1
    CleanSession = FALSE
    Faulty = FALSE
INVARIANT InboundOnce
