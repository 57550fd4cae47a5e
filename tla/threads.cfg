SPECIFICATION FairSpec
CONSTANTS
    CLIENT_BUFF_SIZE = 2
    MAX_SIZE = 6
    MaxSent = 4
    Zero <- MCZero
    NoItem = NoItem
    Transient = {"EINTR", "EAGAIN"}
    InterruptsAt = {0}
INVARIANTS
    TypeOK
    PushesNextCommand
PROPERTIES
    PipelineSpec
    ArrivedIsRead
    UploadWaitsForPc
    EndsAfterDisconnect
CHECK_DEADLOCK FALSE
