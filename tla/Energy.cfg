\* The CPUs counter is initialised up to three times.
SPECIFICATION FairSpec
CONSTANT MaxInits = 3
INVARIANTS OneStopEndsOne NoSleepThroughStop
PROPERTIES RefreshGoesOn ReleaseReturnsUnlessLost
CHECK_DEADLOCK FALSE
