SPECIFICATION Spec
CONSTANTS
    MaxConns = 2
    MaxCmds = 2
    MaxSamples = 2
    Forces = {"rest", "f"}
    Rest = "rest"
    Buttons <- ForceOnly
    NoValue = NoValue
INVARIANTS
    NetqAtMostOne
    CommandsInOrder
    OneUploader
    SamplesInOrder
PROPERTY ServiceSpec
CHECK_DEADLOCK FALSE
