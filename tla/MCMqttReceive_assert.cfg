SPECIFICATION Spec
CONSTANTS
    FrameSize = 6
    MaxPacketSize = 5
    MaxPacketsQueued = 1
    Kinds <- MCKinds
    MaxPackets = 5
INVARIANT CompleteAsserted
