CONSTANTS
    Nil = Nil
    Names = {"staking"}
    Grants = {1}
    Procs <- MCProcs
    Accounts = {"alice", "bob"}
    Denoms = {"u"}
    PubKeys = {"v"}
    Amounts <- MCAmounts
    MaxAmount <- MCMaxAmount
    MaxCalls = 3
    Serialized = TRUE
SPECIFICATION Spec
CHECK_DEADLOCK FALSE
INVARIANTS
    
    IterationExact
    
