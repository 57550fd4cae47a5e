SPECIFICATION FairSpec
CONSTANTS
    FrameSize = 3
    MaxFrames = 3
    MaxConns = 2
    MaxClicks = 4
INVARIANTS
    TypeOK
    StopFollowsStart
    ButtonsFollowSocket
PROPERTIES
    FeedSpec
    LoneFrameShown
