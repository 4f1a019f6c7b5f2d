SPECIFICATION UtilFairSpec
CONSTANT MaxThreads = 4
INVARIANTS MovedIsNew SpinsUntilReset
PROPERTY CallsReturn
CHECK_DEADLOCK FALSE
