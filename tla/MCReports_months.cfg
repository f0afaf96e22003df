SPECIFICATION FairSpec
CONSTANTS
    FirstMonth = 1
    LastMonth = 3
    YearLength = 2
    QuarterLength = 2
    InitSnaps <- Installed
    Requester = {r1}
    Workloads <- All
INVARIANTS
    DigestHasReport
    NoGapAfterStart
PROPERTIES
    OnlyRacersRepeat
    ScheduledAfterPeriod
    EveryMonthReported
CHECK_DEADLOCK FALSE
