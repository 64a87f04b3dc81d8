\* One goroutine writes and flushes, another asks Has and iterates.
SPECIFICATION Spec
CONSTANTS
    p1 = p1
    p2 = p2
    Procs = {p1, p2}
    Ops <- ExecutorAndReader
    Keys <- MCKeys
    Values = {v1}
    Capacity = 2
    Faults = {"write", "save"}
    Nil = Nil
    Absent = Absent
PROPERTIES
    
    ImplementsObjectStore
