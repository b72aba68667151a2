CONSTANTS
    FrameChars = 3
    MaxFrames = 2
    MaxLost = 0
    Kinds = {"ascii", "lead", "cont"}
    IdKind = "cont"
SPECIFICATION CutSpec
INVARIANT UnsplitFrameDecoded
CHECK_DEADLOCK FALSE
