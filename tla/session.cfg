\* Three threads in two processes over three resources; a lease over three; the
\* delays in proportion, with three doublings for seven; a watch of two resources.
SPECIFICATION SessionSpec
CONSTANTS
    t1 = t1
    t2 = t2
    t3 = t3
    p1 = p1
    p2 = p2
    Free = Free
    Threads = {t1, t2, t3}
    Processes = {p1, p2}
    Resources = {1, 2, 3}
    ProcessOf <- Placement
    N = 3
    Plans = {"p", "q"}
    Others = {"p", "x"}
    None = None
    MaxCalls = 3
    MaxFaults = 2
    MaxWrites = 1
    ErrorRetry = 1
    UnstableRetry = 1
    IdentityRetry = 5
    MaxErrorRetry = 6
    MaxShift = 3
    MaxErrors = 5
    BreakerWindow = 4
    BreakerThreshold = 3
    BreakerCooldown = 2
    Watched = {1, 2}
    Ours = Ours
    Gone = Gone
    MaxChanges = 2
    QueueSize = 1
INVARIANTS TypeOK Exclusive RegistryAccurate NoCircularWait
INVARIANTS Accounted NeverMixed OneConfiguration FailureKeepsClaim
INVARIANTS RetryBounded BreakerBounds ExternalSeen StopProceeds
PROPERTIES Spaced QuietAfterStop
