\* Each counter is initialised once.
SPECIFICATION FairSpec
CONSTANT MaxInits = 1
PROPERTY ReleaseReturns
CHECK_DEADLOCK FALSE
