\* Messages of the bank, staking and auth modules, validated, handled and executed.
SPECIFICATION Spec
CHECK_DEADLOCK FALSE
CONSTANTS
    Accounts = {"alice", "bob"}
    NoName = "No Name"
    Denoms <- MCDenoms
    MaxAmount = 3
    Amounts <- MCAmounts
    Sides <- MCSides
    MaxSides = 2
    PubKeys = {"v"}
    Authorities = {"keys", "none"}
    ValidAuthorities = {"keys"}
    InitialFunds <- MCInitialFunds
    InitialHeld <- MCInitialHeld
    InitialShares <- MCInitialShares
    InitialAccounts <- MCInitialAccounts
    MaxTxs = 1
    Nil = Nil
INVARIANTS
    EffectsValid
    
    TransfersExact
