SPECIFICATION Spec
CONSTANTS
    Nil = Nil
    MaxByte = 2
    Namespaces <- MCNamespaces
    Keys <- MCKeys
    RawKeys <- MCRawKeys
    Bounds <- MCBounds
    Accounts <- MCAccounts
    Slash = 1
    Values = {"x", "y"}
    Iters = {"i"}
    DbKeys = {"k", "l"}
    MaxCalls = 4
INVARIANTS
    StoresIsolated
    IteratorExact
    BatchWritten
CHECK_DEADLOCK FALSE
