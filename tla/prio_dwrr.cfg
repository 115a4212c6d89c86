\* sch_prio_dwrr: a priority queue and two DWRR queues, one of whose quanta is
\* rewritten at any time; one ns per byte, a bucket of one large packet and a ns more.
SPECIFICATION Spec
CONSTANTS
    FcsBytes = 1  MinPktBytes = 2  GapBytes = 0
    NumQueues = 3  NumPrioQueues = 1
    PktLens = {1, 2}
    Dscps = {0, 1, 2}  QueueDscp <- OneDscpPerQueue
    EcnSchemes = {"mq_ecn_rr", "mq_ecn_gener"}
    SharedBuffer = TRUE  SharedBufferBytes = 6  QueueBufferBytes <- StaticBuffers
    ChildLimit = 3
    PortThresh = 2  QueueThresh <- QueueThresholds
    BucketNs = 4
    Rates = {2}  ChangeRates = {}
    RateScale = 4  RateDiv = 2  MultWrap = 16
    QuantumChoices <- Quantum3Or4
    RoundAlpha = 3  QuantumAlpha = 2  AlphaUnit = 4
    IdleInterval = 2  MaxIteration = 2
    BitsPerSecond = 2  U32Wrap = 1024
    TickSteps = {2, 3}  MaxTime = 6
INVARIANTS QuantumSumExact CreditOncePerTurn
PROPERTIES SampleOfThisTurn ImplementsPort
