SPECIFICATION OneByOneSpec
CONSTANTS
    CLIENT_BUFF_SIZE = 4
    MAX_SIZE = 35
    MaxSent = 9
    Zero <- MCZero
    NoItem = NoItem
    Transient = {}
    InterruptsAt = {0}
PROPERTY PipelineSpec
CHECK_DEADLOCK FALSE
