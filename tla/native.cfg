\* One host of every kind, its backend, other programs, failing operations.
SPECIFICATION Spec
CONSTANTS
    a4 = a4
    b4 = b4
    a6 = a6
    any4 = any4
    root = root
    corp = corp
    lab = lab
    bad = bad
    V4 <- MCV4
    V6 <- MCV6
    Unspecified <- MCUnspecified
    Spellings <- MCSpellings
    Canonical <- MCCanonical
    Invalid = bad
    Root = root
    NoState = NoState
    Requests <- MCRequests
    ForeignServers <- MCServers
    ForeignConfs <- MCConfs
    KeyNamespaces <- MCNamespaces
    MaxCalls = 4
    MaxEvents = 2
    MaxFaults = 2
INVARIANTS GivesBack  NoHalfRule
PROPERTIES Contract UnmanagedKept NoSecondWriter
CHECK_DEADLOCK FALSE
