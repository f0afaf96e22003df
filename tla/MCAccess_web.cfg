SPECIFICATION Spec
CONSTANTS
    Client = {c1}
    Limiter = {"api", "upload", "report"}
    Rate <- Rates
    Window <- Windows
    MaxFails = 2
    LoginWindow = 2
    LastTime = 3
    MaxUsers = 2
    Name = {"admin", "eve"}
    AccountId = {a1, a2}
    Legacy = {a1}
    Column = {"name"}
    GoalId = {g1}
    MaxSecrets = 2
    Req = {r1, r2}
    MaxCeremonies = 3
    SessionLife = 3
    Names <- InitialNames
    Workloads <- AllWorkloads
INVARIANTS
    AttemptsBounded
    SecondFactorUsable
    AnsweredOnce
PROPERTIES
    QuotaKept
    RefusedOnlyIfShared
CHECK_DEADLOCK FALSE
