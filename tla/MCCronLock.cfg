CONSTANTS
    a = a
    b = b
    a1 = a1
    a2 = a2
    b1 = b1
    Processes = {a, b}
    Calls = {a1, a2, b1}
    On <- MCOn
    NoCall = NoCall
    MaxFaults = 2
SPECIFICATION FairSpec
INVARIANTS
    TypeOK
    ProcessRunsOnce
    OverlapOnlyPastLease
PROPERTIES
    JobKeepsRunning
