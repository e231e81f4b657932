SPECIFICATION Spec
CONSTANTS
    Exchanges <- StatusExchanges
    Cards <- MCCards
    CertMax = 5
    MaxContent = 2
    FrameBuffer = 3
    LineMax = 3
    MaxRequests = 1
    MaxCuts = 0
INVARIANT
    StatusChecked
