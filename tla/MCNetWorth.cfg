SPECIFICATION FairSpec
CONSTANTS
    Txn <- MCTxn
    DayOf <- MCDayOf
    AccountOf <- MCAccountOf
    SourceOf <- MCSourceOf
    Fx = "FX"
    Worker = {boot, w1}
    Boot = boot
    FirstToday = 1
    LastDay = 3
    InitLog <- Bought
    Beginnings <- MCBeginnings
    Deletes = TRUE
    Faults = {"upsert", "fetch", "refresh", "balance", "security"}
INVARIANTS
    SettledExact
    NoLookAhead
PROPERTIES
    BackfillsComplete
CHECK_DEADLOCK FALSE
