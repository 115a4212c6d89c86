SPECIFICATION FairSpec
CONSTANTS
    Setups <- MCSetups
    RateUnit = 8
    RateAlpha = 3
    AlphaUnit = 4
    FinishUnit = 2
INVARIANTS ActiveListExact LongestWaitFirst ShareSumExact FinishTimesTogether DrainRateWithinCapacity
PROPERTIES ThresholdBetweenShareAndPort ImplementsPort DequeEnds
