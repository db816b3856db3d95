\* Leases on three resources, a watch that fails to start or dies.
SPECIFICATION FairSpec
CONSTANTS
    l1 = l1
    l2 = l2
    l3 = l3
    Leases = {l1, l2, l3}
    NoFeed = NoFeed
    Overlap = FALSE
    MaxFaults = 2
INVARIANTS TypeOK LeaseObserved LastLeaseStops
PROPERTY ChangeNoticed
CHECK_DEADLOCK FALSE
