SPECIFICATION FairSpec
CONSTANTS
    Hash <- MCHash
    Kind <- MCKind
    Key <- MCKey
    Isin = {"GOOG", "ETF"}
    NoIsin = NoIsin
    IsinOf <- MCIsinOf
    Txn <- TwoSecurities
    NoTxn = NoTxn
    Vest <- MCVest
    Vested <- MCVested
    VestIsin <- MCVestIsin
    LinkOf <- MCLinkOf
    File <- PlanFiles
    RowId <- ThreeIds
    Unused = Unused
    Deleted = Deleted
    TickerMap = {"GOOG"}
    Importer = {p1, p2}
    MaxImports = 2
    Deletes = TRUE
    GoalFunds = TRUE
    Faults = {"security", "lookup", "list", "update", "insert", "vest", "history", "refresh", "timeout", "crash"}
INVARIANTS
    HashMatchesContent
    VestLinksSibling
PROPERTIES
    ViewCatchesUp
CHECK_DEADLOCK FALSE
