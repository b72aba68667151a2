CONSTANTS
    Bytes = {0, 2, 87}
    DevIds = {1}
    IdSize = 1
    MaxRun = 3
    Stations <- Espressif
    LastBytes <- HalfBytes
    Sightings <- Boundaries
    Junk = {0, 85}
    CountMod = 4
    NoPacket = NoPacket
SPECIFICATION Spec
INVARIANTS TypeOK FrameStartsAfterZero FrameEndsAtZero ServerDecodesPacket
PROPERTIES HandlesIdFrames OneIdPerStation
