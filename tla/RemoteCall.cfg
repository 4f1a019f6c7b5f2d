SPECIFICATION FairSpec
CONSTANTS
    c1 = c1
    c2 = c2
    t1 = t1
    t2 = t2
    t3 = t3
    None = None
    Clients <- MCClients
    Threads <- MCThreads
    ClientOf <- MCClientOf
    FrameLen = 2
    MaxCalls = 1
INVARIANTS OwnResponse ExecutedOnce
PROPERTIES CallEnds ServerIsFreed
CHECK_DEADLOCK FALSE
