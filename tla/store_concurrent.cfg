\* Two goroutines call everything, the cache holds one entry, the tree may fail.
SPECIFICATION FairSpec
CONSTANTS
    p1 = p1
    p2 = p2
    Procs = {p1, p2}
    Ops <- TwoCallers
    Keys <- MCKeys
    Values = {v1}
    Capacity = 1
    Faults = {"read", "write", "save"}
    Nil = Nil
    Absent = Absent
INVARIANTS
    LruListsCache
    FlushExcludesClose
PROPERTIES
    CallsReturn
