\* Any use of the handlers: shared processes, release while throttled, a process
\* that may not be signalled, an identifier that is used again, two requests per
\* interval.
SPECIFICATION Spec
CONSTANTS
    h1 = h1
    h2 = h2
    p1 = p1
    p2 = p2
    NoHandler = NoHandler
    Handlers <- MCHandlers
    Pids <- MCPids
    Recycled <- MCRecycled
    ClientSignals = {"SIGSTOP"}
    Unpermitted <- MCUnpermitted
    Percentages = {50}
    MaxPending = 2
    MaxDrift = 0
INVARIANTS
    BudgetNotExceeded
    SlotsFitInterval
    DanglingOnlyUntilDrain
    ServedAreStopped
    ResumedAtShutdown
    OnlyAskedAreStopped
SYMMETRY Symmetry
CHECK_DEADLOCK FALSE
