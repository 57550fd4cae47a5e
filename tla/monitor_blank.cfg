SPECIFICATION Spec
CONSTANTS
    Last = 2
    Value = {0, 1, 2}
    Items <- MCItems
    SM = {1, 2, 3, 5}
    NoItem = NoItem
INVARIANT FrameHasCoreState
