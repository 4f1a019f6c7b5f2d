\* Every grouping of four cores is built; operations are explored on two machines.
SPECIFICATION Spec
CONSTANTS
  Machines <- MCMachines
  CalledMachines <- MCCalledMachines
  MCCores = {0, 1, 2, 3}
  MCPackages = {0, 1}
  MCCoreIds = {0, 1}
  ClkModLowBit = 1
  CallValues = {2, 5, 8}
  Garbage = {0, 31}
  MaxCalls = 4
  MaxToggles = 1
INVARIANTS GroupsFollowHardware RemoteMirrorsServer ReportsWhatWasSet RollbackRestoresCores
CHECK_DEADLOCK FALSE
