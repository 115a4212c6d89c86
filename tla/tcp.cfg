SPECIFICATION FairSpec
CONSTANTS
    MaxSeg = 2
    CwndUnit = 4
    AlphaUnit = 4
    GDivisor = 2
    InitAlpha = 4
    ecn_ = TRUE
    iss_ = 0
    DupThresh = 1
    Setups <- SetupsOK
INVARIANTS
    AcksAreTrue
    TimersArmed
    WithinReceiverWindow
    EchoIsExact
PROPERTIES
    FlowsComplete
CHECK_DEADLOCK FALSE
