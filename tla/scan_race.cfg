\* recover_stale loses the resource between its scan and its lock.
SPECIFICATION Spec
CONSTANTS
    Servers = {"host", "vpn", "corp", "dhcp"}
    Routes = {"none", "on"}
    NoRoute = "none"
    Plans <- TwoPlans
    Foreign <- Rivals
    Initial <- HostState
    Ownership = "Durable"
    Guard = "CompareAndMutate"
    Enforce = TRUE
    ScanBeforeLock = TRUE
    MaxCalls = 3
    MaxEvents = 1
    MaxFaults = 1
INVARIANT NoClobber
CHECK_DEADLOCK FALSE
