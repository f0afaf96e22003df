SPECIFICATION Spec
CONSTANTS
    Sec = {"ETF", "GOOG"}
    NoSec = "none"
    Fund = {"ETF"}
    Account = {"a1", "a2"}
    Menu <- MCMenu
    LastYear = 3
    Target = 2
    Allowance = 25000
    MaxLog = 4
INVARIANTS
    LotsAreNewest
    LotsMatchPosition
    SimulationAgrees
    CarryIsWorstRun
    WalksAgree
    AccountsAddUp
    BalanceMirroredThisYear
CHECK_DEADLOCK FALSE
