\* sch_prio_wfq: a priority queue and two WFQ queues, one of whose weights is rewritten
\* at any time, virtual times of 4 bits; a large packet takes one ns, a small one none;
\* a bucket of 2 ns.
SPECIFICATION Spec
CONSTANTS
    FcsBytes = 1  MinPktBytes = 2  GapBytes = 0
    NumQueues = 3  NumPrioQueues = 1
    PktLens = {1, 2}
    Dscps = {0, 1, 2}  QueueDscp <- OneDscpPerQueue
    EcnSchemes = {"port"}
    SharedBuffer = TRUE  SharedBufferBytes = 5  QueueBufferBytes <- StaticBuffers
    ChildLimit = 3
    PortThresh = 4  QueueThresh <- QueueThresholds
    BucketNs = 2
    Rates = {1}  ChangeRates = {}
    RateScale = 3  RateDiv = 8  MultWrap = 16
    WeightChoices <- Weight1Or2  TimeWrap = 16
    TickSteps = {1}  MaxTime = 2
PROPERTIES ImplementsPort EarliestFinishFirst
