\* Rotations of the active lists, packets of two sizes.  A small packet takes no time
\* and a large one 1 ns, so the bucket holds a large one back and a tick releases it.
SPECIFICATION FairSpec
CONSTANTS
    FcsBytes = 1  MinPktBytes = 2  GapBytes = 0
    RateMult = 1  RateDiv = 3  BucketBytes = 4
    RoundAlpha = 4  AlphaUnit = 4  MaxIteration = 2  IdleInterval = 0
    SqrtUnit = 4  CodelUnit = 1  CodelTarget = 1  CodelInterval = 2  MaxPktBytes = 3
    NumQueues = 2  NumPrios = 2
    PktLens = {1, 2}
    Dscps = {0, 1}  QueueDscp <- OneDscpPerQueue
    PrioChoices <- LastAnyPrio  QuantumChoices <- Last3Or4
    EcnSchemes = {"none"}
    EnableWrr = FALSE  DequeueEcn = FALSE
    SharedBuffer = TRUE  SharedBufferBytes = 6  QueueBufferBytes <- StaticBuffers
    ChildLimit = 3
    PortThresh = 4  QueueThresh <- QueueThresholds
    RateBps = 8  RateScale = 9
    TcnThresh = 1
    TickSteps = {1}  MaxTime = 1
INVARIANTS ActiveListsExact AccountingExact DeficitBound
PROPERTIES ImplementsPort DequeueTerminates
