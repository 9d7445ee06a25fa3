CONSTANTS
    t1 = t1  t2 = t2  t3 = t3  k1 = k1  k2 = k2  k3 = k3  e = e
    EmptyKey = e
    NotFound = NotFound  Diverges = Diverges
    Cap = 4
    Lanes = 2
    Keys <- ThreeKeys
    Queries <- ThreeKeys
    Vals <- Bits
    Home <- Crowded
    Probes <- RobinHoodOnly
    Threads <- TwoThreads
    StaleReads = FALSE
    FreshKeysOnly = FALSE
    MaxLaunches = 2
SPECIFICATION Spec
INVARIANT LookupsMatchInserts
CHECK_DEADLOCK FALSE
