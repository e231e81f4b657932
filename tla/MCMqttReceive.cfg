SPECIFICATION FairSpec
CONSTANTS
    FrameSize = 6
    MaxPacketSize = 5
    MaxPacketsQueued = 1
    Kinds <- MCKinds
    MaxPackets = 4
INVARIANTS
    InStep
    RoomForQueued
PROPERTIES
    PacketsHandled
