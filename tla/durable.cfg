\* Compare-and-mutate backend with durable identities, Enforce.
SPECIFICATION Spec
CONSTANTS
    Servers = {"host", "vpn", "corp", "dhcp"}
    Routes = {"none", "on"}
    NoRoute = "none"
    Plans <- TwoPlans
    Foreign <- Rivals
    Initial <- HostState
    Ownership = "Durable"
    Guard = "CompareAndMutate"
    Enforce = TRUE
    ScanBeforeLock = FALSE
    MaxCalls = 3
    MaxEvents = 2
    MaxFaults = 2
INVARIANTS TypeOK NoClobber Recoverable SingleClaim EvidenceSound JournalMirrorsLease
CHECK_DEADLOCK FALSE
