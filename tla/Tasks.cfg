SPECIFICATION TasksSpec
CONSTANTS
  Pid = 1
  Tid = 2
  Tids = {1, 2, 3}
  Machines <- MCMachines
  Moves <- MCMoves
  Priorities = {0, 40, 41}
  Hertz = 2
  MaxCalls = 2
  MaxTicks = 4
  MaxChurn = 3
INVARIANTS EveryThreadReached UsageWithinASecond InstructionsNotLost
CHECK_DEADLOCK FALSE
