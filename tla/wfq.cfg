\* Two bytes per ns, a bucket of 3 ns: packets that take one ns.
SPECIFICATION FairnessSpec
CONSTANTS
    FcsBytes = 1  MinPktBytes = 2  GapBytes = 0
    RateMult = 1  RateDiv = 2  BucketBytes = 6
    SqrtUnit = 4  CodelUnit = 1  CodelTarget = 1  CodelInterval = 2  MaxPktBytes = 3
    NumQueues = 2  NumPrios = 2
    PktLens = {1}
    Dscps = {0, 1}  QueueDscp <- OneDscpPerQueue
    PrioChoices <- SecondDemoted  WeightChoices <- SecondOneOrTwo
    EcnSchemes = {"none"}
    DequeueEcn = FALSE
    SharedBuffer = TRUE  SharedBufferBytes = 6  QueueBufferBytes <- StaticBuffers
    ChildLimit = 3
    PortThresh = 4  QueueThresh <- QueueThresholds
    TcnThresh = 1  TimeWrap = 8
    TickSteps = {3}  MaxTime = 6
INVARIANTS FinishTimesTogether WeightedFairness
PROPERTIES ImplementsPort NeverStalls
