SPECIFICATION Spec
CONSTANTS
    Exchanges <- MCExchanges
    Cards <- MCCards
    CertMax = 5
    MaxContent = 2
    FrameBuffer = 3
    LineMax = 3
    MaxRequests = 2
    MaxCuts = 1
INVARIANTS
    ContentIntact
    ServerAuthenticated
PROPERTY
    ProgramHalts
