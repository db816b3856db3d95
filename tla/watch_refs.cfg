\* An apply that failed to start the watch is taken back after another started it.
SPECIFICATION Spec
CONSTANTS
    l1 = l1
    l2 = l2
    l3 = l3
    Leases = {l1, l2, l3}
    NoFeed = NoFeed
    Overlap = TRUE
    MaxFaults = 2
SYMMETRY Interchangeable
INVARIANT LeaseObserved
CHECK_DEADLOCK FALSE
