SPECIFICATION Spec
CONSTANTS
    c1 = c1
    c2 = c2
    c3 = c3
    CoresOf <- MCCoresOf
    Frequencies <- TurboInside
    KernelGovernors = {"userspace", "performance", "schedutil"}
    Unpluggable = {c2}
    RejectCrossed = FALSE
    MaxCalls = 3
INVARIANTS DomainCoherent FrequenciesConserved
PROPERTIES  VoltageTableRestores
CHECK_DEADLOCK FALSE
