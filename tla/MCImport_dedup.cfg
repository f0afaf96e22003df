SPECIFICATION Spec
CONSTANTS
    Hash <- MCHash
    Kind <- MCKind
    Key <- MCKey
    Isin = {"GOOG", "ETF"}
    NoIsin = NoIsin
    IsinOf <- MCIsinOf
    Txn <- MCTxn
    NoTxn = NoTxn
    Vest <- NoVests
    Vested <- NoVests
    VestIsin <- NoVestIsin
    LinkOf <- NoLinks
    File <- WholeDays
    RowId <- MCRowId
    Unused = Unused
    Deleted = Deleted
    TickerMap = {}
    Importer = {p1, p2}
    MaxImports = 4
    Deletes = FALSE
    GoalFunds = FALSE
    Faults = {}
INVARIANTS
    NoDuplicates
    NoLoss
CHECK_DEADLOCK FALSE
