\* Enforce leases beside a recover_stale whose scan may be stale.
SPECIFICATION FairSpec
CONSTANTS
    Servers = {"host", "vpn", "corp", "dhcp"}
    Routes = {"none", "on"}
    NoRoute = "none"
    Plans <- TwoPlans
    Foreign <- Rivals
    Initial <- HostState
    Ownership = "Durable"
    Guard = "CompareAndMutate"
    Enforce = TRUE
    ScanBeforeLock = TRUE
    MaxCalls = 3
    MaxEvents = 2
    MaxFaults = 1
INVARIANT JournalMirrorsLease
PROPERTY EnforceProgress
CHECK_DEADLOCK FALSE
