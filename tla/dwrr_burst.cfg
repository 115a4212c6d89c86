\* One queue, a bucket of 2 ns.
SPECIFICATION ServiceSpec
CONSTANTS
    FcsBytes = 1  MinPktBytes = 2  GapBytes = 0
    RateMult = 1  RateDiv = 2  BucketBytes = 4
    RoundAlpha = 4  AlphaUnit = 4  MaxIteration = 2  IdleInterval = 0
    SqrtUnit = 4  CodelUnit = 1  CodelTarget = 1  CodelInterval = 2  MaxPktBytes = 3
    NumQueues = 1  NumPrios = 1
    PktLens = {1, 3}
    Dscps = {0}  QueueDscp <- OneDscpPerQueue
    PrioChoices <- DistinctPrios  QuantumChoices <- Quantum4
    EcnSchemes = {"none"}
    EnableWrr = FALSE  DequeueEcn = FALSE
    SharedBuffer = TRUE  SharedBufferBytes = 8  QueueBufferBytes <- StaticBuffers
    ChildLimit = 6
    PortThresh = 4  QueueThresh <- QueueThresholds
    RateBps = 8  RateScale = 9
    TcnThresh = 1
    TickSteps = {1}  MaxTime = 6
INVARIANT BurstWithinBucket
