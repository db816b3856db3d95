\* Two leases in succession, the worker between passes when the second starts.
SPECIFICATION FairSpec
CONSTANTS
    l1 = l1
    l2 = l2
    Leases = {l1, l2}
    Worker = Worker
    NoLease = NoLease
    Prompt = TRUE
    MaxCalls = 3
    MaxEvents = 1
    MaxDefers = 1
INVARIANTS TypeOK PassExclusive
PROPERTY ChangesReconciled
CHECK_DEADLOCK FALSE
