\* Every list of three effects, scheduled and executed; the call then returns.
SPECIFICATION FairSpec
CONSTANTS
    Accounts = {"a", "b", "c", "d"}
    RawKeys = {"k"}
    EffectLists <- MCLists
    InitialBalances <- MCBalances
    MaxAmount = 3
    MaxBatchSize = 0
INVARIANTS
    NoLostUpdate
    ConflictsInOrder
    ParallelIsSequential
PROPERTIES
    Returns
CHECK_DEADLOCK FALSE
