\* An update whose plan the applied state already satisfies.
SPECIFICATION Spec
CONSTANTS
    Servers = {"host", "vpn", "corp", "dhcp"}
    Routes = {"none", "on"}
    NoRoute = "none"
    Plans <- Looser
    Foreign <- Others
    Initial <- HostState
    Ownership = "Durable"
    Guard = "CompareAndMutate"
    Enforce = TRUE
    ScanBeforeLock = FALSE
    MaxCalls = 2
    MaxEvents = 1
    MaxFaults = 0
PROPERTY ReappliesLatest
CHECK_DEADLOCK FALSE
