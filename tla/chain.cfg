SPECIFICATION Spec
CONSTANTS
    Nil = Nil
    Names = {1, 2, 3}
    MsgTypes = {1}
    QueryPaths = {1}
    Hooks = {"init", "export"}
    MaxCalls = 2
    Catalogues <- MCCatalogues
    ChainID = "c"
    Genesis <- MCGenesis
    Values = {"x", "y"}
    MaxHeight = 1
    MaxInits = 2
INVARIANTS
    LeastOrder
    HandlersReached
    InitIsComplete
    ExportRoundTrips
CHECK_DEADLOCK FALSE
