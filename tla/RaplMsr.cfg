\* A register of 5 values: MaxEnergy is more than one turn of it.
SPECIFICATION Spec
CONSTANTS
    pkg = pkg
    dram = dram
    NoDomain = NoDomain
    Domains <- MCDomains
    CpuOf <- MCCpuOf
    Modulus = 5
    Latency = 1
    MaxEnergy = 5
INVARIANTS
    NoWrapIsMissed
PROPERTY IsEnergyMeter
CHECK_DEADLOCK FALSE
SYMMETRY Symmetry
