CONSTANTS
    Size = 4
    Zero = 0
    Byte <- MCByte
SPECIFICATION Spec
INVARIANTS TypeOK PointersAgree
PROPERTY ImplementsFifo
