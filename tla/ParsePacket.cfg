CONSTANTS
    FrameLen = 3
    BlockLen = 3
    NoPacket = NoPacket
SPECIFICATION FairSpec
INVARIANTS TypeOK PacketInPlace
PROPERTY CallReturns
CHECK_DEADLOCK FALSE
