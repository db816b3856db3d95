\* Backend without compare-and-mutate and without mutation identities, Enforce.
SPECIFICATION Spec
CONSTANTS
    Servers = {"host", "vpn", "corp", "dhcp"}
    Routes = {"none", "on"}
    NoRoute = "none"
    Plans <- TwoPlans
    Foreign <- Others
    Initial <- HostState
    Ownership = "BestEffort"
    Guard = "Unconditional"
    Enforce = TRUE
    ScanBeforeLock = FALSE
    MaxCalls = 3
    MaxEvents = 2
    MaxFaults = 2
INVARIANTS NoClobber Recoverable SingleClaim JournalMirrorsLease
CHECK_DEADLOCK FALSE
