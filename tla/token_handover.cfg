\* A pass waits for the token of a lease across the start of the next one.
SPECIFICATION Spec
CONSTANTS
    l1 = l1
    l2 = l2
    Leases = {l1, l2}
    Worker = Worker
    NoLease = NoLease
    Prompt = FALSE
    MaxCalls = 3
    MaxEvents = 1
    MaxDefers = 1
SYMMETRY Interchangeable
INVARIANT PassExclusive
CHECK_DEADLOCK FALSE
