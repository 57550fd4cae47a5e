SPECIFICATION InTurnSpec
CONSTANTS
    element_length = 4
    buff_length = 35
    Names = {0, 1, 2, 3, 4, 5, 6, 7, 8, 9, 10}
    Items <- MCItems
    Cell <- MCCell
    Zero <- MCZero
    NoItem = NoItem
    Window = 8
INVARIANTS
    TypeOK
    EmptyMeansNothingPending
    PendingIntact
PROPERTY FifoSpec
