\* One or two users of a cached key store, over each kind of backend.
SPECIFICATION Spec
CONSTANTS
    p1 = p1
    p2 = p2
    Procs = {p1, p2}
    OpsChoices <- MCOps
    Names = {"a", "b"}
    Keys = {"k", "l"}
    Parts <- PlainNames
    Starts = {"memory", "file", "keychain"}
    Capacity = 1
    Faults = {"write", "read", "remove", "get", "set", "unset", "getIndex", "setIndex"}
    None = None
    Partial = Partial
INVARIANTS
    LruListsCache
    FreshForOneCaller
    KeysListed
PROPERTIES
    NeverReplaced
