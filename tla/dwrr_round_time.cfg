\* One queue and a bucket of 4 ns.  At time 8 a large and a small packet leave at
\* once in two turns: the second turn starts when the large one would have been on
\* the wire for 3 ns and ends when the small one would have been for 2.
SPECIFICATION Spec
CONSTANTS
    FcsBytes = 1  MinPktBytes = 2  GapBytes = 0
    RateMult = 1  RateDiv = 1  BucketBytes = 4
    RoundAlpha = 3  AlphaUnit = 4  MaxIteration = 2  IdleInterval = 0
    SqrtUnit = 4  CodelUnit = 1  CodelTarget = 1  CodelInterval = 2  MaxPktBytes = 3
    NumQueues = 1  NumPrios = 1
    PktLens = {1, 2}
    Dscps = {0}  QueueDscp <- OneDscpPerQueue
    PrioChoices <- LastAnyPrio  QuantumChoices <- Quantum3
    EcnSchemes = {"mq_ecn"}
    EnableWrr = FALSE  DequeueEcn = FALSE
    SharedBuffer = TRUE  SharedBufferBytes = 8  QueueBufferBytes <- StaticBuffers
    ChildLimit = 6
    PortThresh = 4  QueueThresh <- QueueThresholds
    RateBps = 8  RateScale = 9
    TcnThresh = 1
    TickSteps = {4}  MaxTime = 8
INVARIANT RoundTimeNonNegative
