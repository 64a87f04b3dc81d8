\* MsgSend transactions through saves that fail and crashes.
SPECIFICATION Spec
CONSTANTS
    Accounts <- MCAccounts
    RawKeys = {}
    Txs = {"t1", "t2", "t3"}
    TxOf <- SendTxs
    Decodable = {"t1", "t2", "t3"}
    BeginEffects <- NoEffects
    EndEffects <- NoEffects
    Faults = {"save"}
    MaxAmount = 2
    InitialAmounts <- TwoCoins
    MaxHeight = 1
    MaxVersion = 6
    Nil = Nil
INVARIANTS
    
    SupplyConserved

    
