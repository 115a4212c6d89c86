\* Two bytes per ns, a bucket of one large packet, two queues, each a priority of its
\* own: a packet of the higher one may arrive while the watchdog waits for the lower
\* one.  Weighted round robin; idle slots of 2 ns of which two are counted.
SPECIFICATION TimedService
CONSTANTS
    FcsBytes = 1  MinPktBytes = 2  GapBytes = 0
    RateMult = 1  RateDiv = 2  BucketBytes = 4
    RoundAlpha = 0  AlphaUnit = 4  MaxIteration = 2  IdleInterval = 2
    SqrtUnit = 16  CodelUnit = 1  CodelTarget = 1  CodelInterval = 2  MaxPktBytes = 1
    NumQueues = 2  NumPrios = 2
    PktLens = {1, 3}
    Dscps = {0, 1}  QueueDscp <- OneDscpPerQueue
    PrioChoices <- DistinctPrios  QuantumChoices <- Quantum4
    EcnSchemes = {"mq_ecn", "tcn", "codel"}
    EnableWrr = TRUE  DequeueEcn = FALSE
    SharedBuffer = TRUE  SharedBufferBytes = 5  QueueBufferBytes <- StaticBuffers
    ChildLimit = 3
    PortThresh = 2  QueueThresh <- QueueThresholds
    RateBps = 8  RateScale = 4
    TcnThresh = 1
    TickSteps = {1}  MaxTime = 3
INVARIANTS ThrottledIsArmed RateConformance
PROPERTIES MqEcnNeverLaxer SojournMarksTrue NeverStalls
