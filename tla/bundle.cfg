SPECIFICATION InTurnSpec
CONSTANTS
    LocalLength = 4
    CircleLength = 5
    FetchLength = 3
    Byte <- MCByte
    Zero = 0
    NoByte = NoByte
INVARIANTS
    TypeOK
    CopiesStayInside
PROPERTY StreamSpec
CHECK_DEADLOCK FALSE
