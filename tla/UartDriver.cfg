SPECIFICATION DriverSpec
CONSTANTS
    Tasks = {t1, t2, t3}
    TxDepth = 5
    TxLimit = 3
    RxDepth = 3
    FullThresh = 3
    EmptyThresh = 2
    EmptyChars = 2
    SayChars = 1
    MaxBytes = 4
INVARIANTS
    NothingDropped
    ReadFindsChar
PROPERTIES
    WaitingCharsServed
