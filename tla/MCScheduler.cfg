SPECIFICATION Spec
CONSTANTS
    DaysPerWeek = 3
    DaysPerMonth = 4
    MonthsPerYear = 3
    Event = {"pre-tax", "return"}
    DueOn <- Dates
    Institution = {"ing", "ing-diba"}
    Extends <- Names
    Security = {"s1"}
    Alert = {"a1", "a2"}
    AlertType <- Types
    Channel = {"phone", "mail"}
    Channels <- Initial
    Ahead = 2
    ListEvents = 2
    ListCash = 1
    ListHealth = 1
    HealthGap = 2
    Symbol = {"x", "y"}
    Currency = {"USD"}
    Etf = {"e"}
    Constituent = {"k1", "k2"}
    Goroutine = {g1, g2, g3}
    DailyKeep = 3
    Attempts = 2
    Workloads <- AllWorkloads
SYMMETRY Swap
INVARIANTS
    RepeatsExplained
    DueStored
    SilenceExplained
    RunningRuns
    DumpsKept
CHECK_DEADLOCK FALSE
