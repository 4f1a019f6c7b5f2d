SPECIFICATION ProxySpec
CONSTANTS
  W = 4
  Machines <- MCMachines
  Objects = {1, 2}
  MaxBegun = 4
  MaxTicks = 3
INVARIANTS OwnResetCounts IdleSinceReset FailuresAreKnown CapsRestored
CHECK_DEADLOCK FALSE
