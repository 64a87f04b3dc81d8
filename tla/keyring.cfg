\* Two goroutines call everything; the cache holds one of two signers.
SPECIFICATION FairSpec
CONSTANTS
    p1 = p1
    p2 = p2
    Procs = {p1, p2}
    Names = {"n", "m"}
    CacheSizes = {0, 1}
    MaxSigners = 2
    Faults = {"has", "get", "put", "delete", "list", "close"}
    Old = Old
    Sealed = Sealed
    None = None
INVARIANTS
    CacheListed
    SignsWithLiveKey
    CloseWipes
PROPERTIES
    NeverReplaced
    CallsReturn
