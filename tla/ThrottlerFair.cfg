\* Progress of the thread, whatever clients do with the handlers of one process.
SPECIFICATION FairSpec
CONSTANTS
    h1 = h1
    h2 = h2
    p1 = p1
    p2 = p2
    NoHandler = NoHandler
    Handlers <- MCHandlers
    Pids = {p1}
    Recycled <- MCRecycled
    ClientSignals = {}
    Unpermitted = {}
    Percentages = {40}
    MaxPending = 1
    MaxDrift = 0
PROPERTIES
    RemovalTakesEffect
    ServedInTurn
    StopCompletes
CHECK_DEADLOCK FALSE
