\* Two counters of other ranges than package 0, read and reset while the
\* refresher reads them.
SPECIFICATION Spec
CONSTANTS
    dram = dram
    core = core
    NoDomain = NoDomain
    Client = client
    refresher = refresher
    Domains <- MCDomains
    RangeOf <- MCRange
    Threads <- MCThreads
    MaxValue = 3
    MaxEnergy = 3
INVARIANTS
    NothingIsLost
    NothingOlderThanReset
