SPECIFICATION FairSpec
CONSTANTS
    t1 = t1
    t2 = t2
    t3 = t3
    Threads <- ThreeThreads
    MaxEntries = 4
INVARIANTS
    CounterInv
PROPERTIES
    ImplementsGate
    StopEnds
CHECK_DEADLOCK FALSE
