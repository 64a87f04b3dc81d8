SPECIFICATION FairSpec
CONSTANTS
    alice = alice
    bob = bob
    carol = carol
    k1 = k1
    k2 = k2
    Nil = Nil
    Accounts = {alice, bob, carol}
    PubKeys = {k1, k2}
    Authorities <- MCAuthorities
    Delegations <- MCDelegations
    MaxWeight = 4
    MaxRecursionDepth = 2
    MaxSignatures = 2
    MaxChanges = 2
INVARIANTS
    MarkedInProgress
    
    VerdictIsExact

    
CHECK_DEADLOCK FALSE
