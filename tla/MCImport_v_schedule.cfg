SPECIFICATION Spec
CONSTANTS
    Hash <- MCHash
    Kind <- MCKind
    Key <- MCKey
    Isin = {"GOOG", "ETF"}
    NoIsin = NoIsin
    IsinOf <- MCIsinOf
    Txn <- Sales
    NoTxn = NoTxn
    Vest <- MCVest
    Vested <- MCVested
    VestIsin <- MCVestIsin
    LinkOf <- MCLinkOf
    File <- Schedules
    RowId <- TwoIds
    Unused = Unused
    Deleted = Deleted
    TickerMap = {"GOOG"}
    Importer = {p1, p2}
    MaxImports = 2
    Deletes = FALSE
    GoalFunds = FALSE
    Faults = {}
INVARIANTS
    ScheduleFresh
CHECK_DEADLOCK FALSE
