SPECIFICATION Spec
CONSTANTS
    Isin = {"x", "y", "p", "q", "u"}
    NoIsin = NoIsin
    Account <- MCAccount
    Cash = {"giro", "s", "n", "r", "v"}
    AccountOf <- MCAccountOf
    Today = 6
    DaysPerMonth = 2
    Close <- MCClose
    Window = 2
    Year = 5
    MaxSnapshots = 5
    LeastValue = 1
    Percent = {0, 10, 20, 40, 50, 60, 100}
    Deposit = {0, 100}
    MaxSets = 2
    Faults = 1
    Files <- MCFiles
    Requests <- MCRequests
    Workloads <- OnlySorting
INVARIANTS
    NetIsWhatMoved
CHECK_DEADLOCK FALSE
