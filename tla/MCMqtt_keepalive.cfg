SPECIFICATION SystemSpec
CONSTANTS
    KeepAlive = 1
    ResendTimeout = 1
    PingTimeout = 1
    SendTries = 2
    TickMod = 6
    IdMod = 3
    SocketBuffer = 2
    LoopTicks = 1
    MaxOut = 1
    MaxIn = 0
    MaxConnects = 1
    BrokerSends = 2
    BrokerBuffer = 2
    InIds = 1
    CleanSession = TRUE
    Faulty = FALSE
INVARIANT KeepAliveArmed
