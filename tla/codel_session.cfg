\* A clock of 256 codel times (SqrtUnit = 16) of 2 ns each, which must be more than
\* twice 16 intervals for a marking period to resume the previous one; the target
\* is 2 and the interval 3, a large packet has 3 bytes.
SPECIFICATION SessionSpec
CONSTANTS
    SqrtUnit = 16  CodelUnit = 2  CodelTarget = 2  CodelInterval = 3  MaxPktBytes = 3
    Delays = {0, 4}  Lefts = {3, 4}  Steps = {1, 6}  Horizon = 32
INVARIANTS MarksOnlyPersistentQueue
PROPERTIES NextMarkWithinInterval
