\* An external change between verification and finalization of a mutation.
SPECIFICATION FairSpec
CONSTANTS
    Servers = {"host", "vpn", "corp", "dhcp"}
    Routes = {"none", "on"}
    NoRoute = "none"
    Plans <- TwoPlans
    Foreign <- Others
    Initial <- HostState
    Ownership = "Durable"
    Guard = "CompareAndMutate"
    Enforce = TRUE
    ScanBeforeLock = FALSE
    MaxCalls = 1
    MaxEvents = 1
    MaxFaults = 1
PROPERTY EnforceReconciles
CHECK_DEADLOCK FALSE
