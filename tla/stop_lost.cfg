SPECIFICATION Spec
CONSTANTS
    MaxConns = 1
    MaxCmds = 2
    MaxSamples = 0
    Forces = {"rest", "f"}
    Rest = "rest"
    Buttons <- ForceOnly
    NoValue = NoValue
INVARIANT ReleaseReachesCore
CHECK_DEADLOCK FALSE
