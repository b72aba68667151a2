CONSTANTS
    FrameChars = 3
    MaxFrames = 3
    MaxLost = 3
    Kinds = {"ascii", "lead", "cont"}
    IdKind = "cont"
SPECIFICATION CutSpec
INVARIANT DecodesFrames
CHECK_DEADLOCK FALSE
