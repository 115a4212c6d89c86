\* sch_prio: two queues, a shared buffer smaller than the child limits of both, and a
\* rate replaced store by store: half a ns per byte to one, with a transient of one.
SPECIFICATION ServiceSpec
CONSTANTS
    FcsBytes = 1  MinPktBytes = 2  GapBytes = 0
    NumQueues = 2  NumPrioQueues = 2
    PktLens = {1, 2}
    Dscps = {0, 1}  QueueDscp <- OneDscpPerQueue
    EcnSchemes = {"deque"}
    SharedBuffer = TRUE  SharedBufferBytes = 5  QueueBufferBytes <- StaticBuffers
    ChildLimit = 3
    PortThresh = 2  QueueThresh <- QueueThresholds
    BucketNs = 3
    Rates = {4}  ChangeRates = {2}
    RateScale = 4  RateDiv = 2  MultWrap = 16
    TickSteps = {1, 2}  MaxTime = 5
INVARIANT RateConformance
PROPERTIES ImplementsPort NeverStalls
