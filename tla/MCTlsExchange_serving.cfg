SPECIFICATION Spec
CONSTANTS
    Suites <- MCSuites
    Scenarios <- MCScenarios
    KnownCurves <- MCCurves
    MaxContent = 8
    FragLens = {4}
    LineLen = 2
    GetLen = 7
    ResponseLen = 3
    IoBufLen = 8
    MaxRequest = 11
    CurveMax = 2
    PskMax = 2
    MaxLinks = 3
    MaxBreaks = 2
PROPERTY ServerKeepsServing
