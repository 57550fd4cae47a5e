SPECIFICATION FairSpec
CONSTANTS
    MaxConns = 2
    MaxCmds = 2
    MaxSamples = 1
    Forces = {"rest"}
    Rest = "rest"
    Buttons <- StateOnly
    NoValue = NoValue
INVARIANT TypeOK
PROPERTIES
    ClientServed
    CommandsHandled
    UploaderEnds
    SampleTaken
    ServiceSpec
CHECK_DEADLOCK FALSE
