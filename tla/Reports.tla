------------------------------ MODULE Reports -------------------------------
(***************************************************************************)
(* The stored wealth reports and the digests sent with them                *)
(* (internal/scheduler/jobs.go, internal/handler/reports.go).              *)
(*                                                                         *)
(* Three parties write reports: the cron jobs on the first of a month and  *)
(* on January 2nd, the backfill every start of the process ends with, and  *)
(* users over HTTP.  Each looks whether the period has a report, computes  *)
(* one and inserts it, in separate statements.  Nothing but the tables     *)
(* survives a restart, and a cron time that passes while the process is    *)
(* down is not made up for.                                                *)
(*                                                                         *)
(* Time is the number of the current month; a year has YearLength of them  *)
(* and a quarter QuarterLength.  What a report says is abstracted to the   *)
(* month in which it was computed.                                         *)
(***************************************************************************)
EXTENDS Integers, Sequences, FiniteSets

CONSTANTS
    FirstMonth,     \* the month the model starts in
    LastMonth,      \* bound: the last month of any workload
    YearLength,     \* 12
    QuarterLength,  \* 3
    InitSnaps,      \* numbers of snapshots per month to start from
    Requester,      \* concurrent POST /api/reports requests
    Workloads       \* what may happen in a behaviour, see Workload

ASSUME ReportsAssumption ==
    /\ FirstMonth \in Nat \ {0} /\ LastMonth \in Nat
    /\ FirstMonth <= LastMonth
    /\ YearLength \in Nat \ {0} /\ QuarterLength \in Nat \ {0}
    /\ InitSnaps \subseteq [0 .. LastMonth -> 0 .. 2]
    /\ \A w \in Workloads :
          /\ DOMAIN w = {"faults", "requests", "crashes", "last"}
          /\ w.faults \subseteq {"exists", "snapshots", "insert", "channels"}
          /\ w.requests \in Nat /\ w.crashes \in Nat
          /\ w.last \in FirstMonth .. LastMonth

Month == 0 .. LastMonth

YearOf(m) == m \div YearLength
IsJanuary(m) == m % YearLength = 0
IsQuarterStart(m) == m % QuarterLength = 0

Monthly(m) == [type |-> "monthly", label |-> m]
Annual(y)  == [type |-> "annual", label |-> y]

Period == {Monthly(m) : m \in Month} \cup {Annual(YearOf(m)) : m \in Month}

(* period_end *)
EndOf(p) == IF p.type = "monthly" THEN p.label
            ELSE (p.label + 1) * YearLength - 1

Frequency == {"monthly", "quarterly"}

VARIABLES
    load,       \* the queries that may fail, and how many requests and crashes
                \* and months there are at most
    up,         \* whether the process runs
    month,      \* time.Now()
    due,        \* the next cron time of this month
    snapDays,   \* net_worth_snapshots rows per month; 2 stands for any more
    reports,    \* wealth_reports: per period the months they were computed in
    digests,    \* digests sent, per month and frequency
    job,        \* the cron goroutine
    boot,       \* the runInitialFetch goroutine
    web,        \* the requests
    requests,   \* requests made so far
    crashes,    \* restarts so far
    covered     \* ghost: months the last finished backfill was to cover

vars == <<load, up, month, due, snapDays, reports, digests, job, boot, web,
          requests, crashes, covered>>

clock  == <<month, due>>
counts == <<requests, crashes>>

Idle == [phase |-> "idle"]

Init ==
    /\ load \in Workloads
    /\ up = TRUE
    /\ month = FirstMonth
    /\ due = "none"
    /\ snapDays \in InitSnaps
    /\ reports = [p \in Period |-> <<>>]
    /\ digests = [d \in Month \X Frequency |-> 0]
    /\ job = Idle
    /\ boot = [phase |-> "fetch"]
    /\ web = [r \in Requester |-> Idle]
    /\ requests = 0
    /\ crashes = 0
    /\ covered = {}

Exists(p) == reports[p] # <<>>

(* InsertWealthReport: no constraint keeps a period from a second row. *)
Store(p, asOf) == reports' = [reports EXCEPT ![p] = Append(@, asOf)]

-----------------------------------------------------------------------------
(* Time *)

(* Midnight before the first. Every job of the month before ended long     *)
(* ago: jobs run under a timeout of one or two minutes.                    *)
NewMonth ==
    /\ due = "none" /\ job = Idle
    /\ month < load.last
    /\ month' = month + 1
    /\ due' = "monthly"
    /\ UNCHANGED <<load, up, snapDays, reports, digests, job, boot, web,
                   counts, covered>>

DueAfter(cron) ==
    IF cron = "monthly" /\ IsJanuary(month) THEN "annual" ELSE "none"

(* Mutant: the report is labelled with the month it is made in. *)
PreviousThis(cron) ==
    IF cron = "monthly" THEN Monthly(month) ELSE Annual(YearOf(month) - 1)

(* The period a cron job is about: the previous month or year. *)
Previous(cron) ==
    IF cron = "monthly" THEN Monthly(month - 1) ELSE Annual(YearOf(month) - 1)

(* 06:00 on the first, and on January 2nd. *)
Cron ==
    /\ due # "none" /\ job = Idle
    /\ due' = DueAfter(due)
    /\ job' = IF up /\ Previous(due) \in Period
              THEN [phase |-> "check", period |-> Previous(due), asOf |-> 0]
              ELSE Idle
    /\ UNCHANGED <<load, up, month, snapDays, reports, digests, boot, web,
                   counts, covered>>

(* Daily 19:00 and after every price update. *)
Snapshot ==
    /\ up /\ snapDays[month] < 2
    /\ snapDays' = [snapDays EXCEPT ![month] = @ + 1]
    /\ UNCHANGED <<load, up, clock, reports, digests, job, boot, web,
                   counts, covered>>

-----------------------------------------------------------------------------
(* generateMonthlyReport and generateAnnualReport *)

(* ReportExistsForPeriod, whose error reads as "no", and what is computed   *)
(* when there is no report.                                                *)
JobCheck ==
    /\ job.phase = "check"
    /\ \/ /\ Exists(job.period)
          /\ job' = Idle
       \/ /\ ~Exists(job.period) \/ "exists" \in load.faults
          /\ job' = [job EXCEPT !.phase = "insert", !.asOf = month]
    /\ UNCHANGED <<load, up, clock, snapDays, reports, digests, boot, web,
                   counts, covered>>

(* Mutant: the digest goes out although the report was not stored. *)
JobInsertAnyway ==
    /\ job.phase = "insert"
    /\ \/ Store(job.period, job.asOf)
       \/ "insert" \in load.faults /\ UNCHANGED reports
    /\ job' = IF job.period.type = "monthly"
              THEN [job EXCEPT !.phase = "monthly"] ELSE Idle
    /\ UNCHANGED <<load, up, clock, snapDays, digests, boot, web, counts,
                   covered>>

(* Only the monthly job goes on to send digests. *)
JobInsert ==
    /\ job.phase = "insert"
    /\ \/ /\ Store(job.period, job.asOf)
          /\ job' = IF job.period.type = "monthly"
                    THEN [job EXCEPT !.phase = "monthly"] ELSE Idle
       \/ /\ "insert" \in load.faults
          /\ job' = Idle
          /\ UNCHANGED reports
    /\ UNCHANGED <<load, up, clock, snapDays, digests, boot, web, counts,
                   covered>>

(* dispatchMessage: when the channels cannot be listed the digest is lost. *)
Dispatch(frequency) ==
    \/ digests' = [digests EXCEPT ![<<job.period.label, frequency>>] = @ + 1]
    \/ "channels" \in load.faults /\ UNCHANGED digests

SendMonthly ==
    /\ job.phase = "monthly"
    /\ Dispatch("monthly")
    /\ job' = IF IsQuarterStart(month)
              THEN [job EXCEPT !.phase = "quarterly"] ELSE Idle
    /\ UNCHANGED <<load, up, clock, snapDays, reports, boot, web, counts,
                   covered>>

SendQuarterly ==
    /\ job.phase = "quarterly"
    /\ Dispatch("quarterly")
    /\ job' = Idle
    /\ UNCHANGED <<load, up, clock, snapDays, reports, boot, web, counts,
                   covered>>

JobStep == JobCheck \/ JobInsert \/ SendMonthly \/ SendQuarterly

-----------------------------------------------------------------------------
(* backfillReports, at the end of runInitialFetch *)

SnapMonths == {m \in Month : snapDays[m] > 0}

EnoughSnaps ==
    \/ \E m \in Month : snapDays[m] = 2
    \/ Cardinality(SnapMonths) >= 2

Earliest == CHOOSE m \in SnapMonths : \A k \in SnapMonths : m <= k

Months(from, upTo) == [i \in 1 .. upTo - from + 1 |-> Monthly(from + i - 1)]

Years(from, upTo) == [i \in 1 .. upTo - from + 1 |-> Annual(from + i - 1)]

(* Mutant: the loop stops before the last month. *)
MissingUpToShort(now) ==
    Months(Earliest, now - 2) \o Years(YearOf(Earliest), YearOf(now) - 1)

(* The months up to the last one, then the years up to the last one. *)
MissingUpTo(now) ==
    Months(Earliest, now - 1) \o Years(YearOf(Earliest), YearOf(now) - 1)

(* The fetches before it may add history: the net worth replay writes a    *)
(* snapshot for each day from the first transaction to yesterday.          *)
BootReplay ==
    /\ up /\ boot.phase = "fetch"
    /\ \E from \in 0 .. month :
          snapDays' = [m \in Month |-> IF m \in from .. month - 1
                                       THEN 2 ELSE snapDays[m]]
    /\ UNCHANGED <<load, up, clock, reports, digests, job, boot, web,
                   counts, covered>>

(* ListNetWorthSnapshots, whose error reads as "none". *)
BootList ==
    /\ up /\ boot.phase = "fetch"
    /\ \/ /\ EnoughSnaps
          /\ boot' = [phase |-> "check", todo |-> MissingUpTo(month),
                      asOf |-> 0, from |-> Earliest, upTo |-> month - 1]
       \/ /\ ~EnoughSnaps \/ "snapshots" \in load.faults
          /\ boot' = Idle
    /\ UNCHANGED <<load, up, clock, snapDays, reports, digests, job, web,
                   counts, covered>>

BootNext == boot' = [boot EXCEPT !.phase = "check", !.todo = Tail(@)]

BootCheck ==
    /\ boot.phase = "check" /\ boot.todo # <<>>
    /\ \/ Exists(Head(boot.todo)) /\ BootNext
       \/ /\ ~Exists(Head(boot.todo)) \/ "exists" \in load.faults
          /\ boot' = [boot EXCEPT !.phase = "insert", !.asOf = month]
    /\ UNCHANGED <<load, up, clock, snapDays, reports, digests, job, web,
                   counts, covered>>

(* A report that cannot be stored is left out, without a word. *)
BootInsert ==
    /\ boot.phase = "insert"
    /\ \/ Store(Head(boot.todo), boot.asOf)
       \/ "insert" \in load.faults /\ UNCHANGED reports
    /\ BootNext
    /\ UNCHANGED <<load, up, clock, snapDays, digests, job, web, counts,
                   covered>>

BootDone ==
    /\ boot.phase = "check" /\ boot.todo = <<>>
    /\ boot' = Idle
    /\ covered' = boot.from .. boot.upTo
    /\ UNCHANGED <<load, up, clock, snapDays, reports, digests, job, web,
                   counts>>

BootStep ==
    BootList \/ BootCheck \/ BootInsert \/ BootDone

-----------------------------------------------------------------------------
(* HandleGenerateReport: any month or year, whether it is over or not.     *)
Request(r) ==
    /\ up /\ web[r] = Idle
    /\ requests < load.requests
    /\ requests' = requests + 1
    /\ \E p \in Period :
          web' = [web EXCEPT ![r] = [phase |-> "check", period |-> p, asOf |-> 0]]
    /\ UNCHANGED <<load, up, clock, snapDays, reports, digests, job, boot,
                   crashes, covered>>

(* Mutant: a report that exists is not looked for. *)
WebCheckNot(r) ==
    /\ web[r].phase = "check"
    /\ web' = [web EXCEPT ![r].phase = "insert", ![r].asOf = month]
    /\ UNCHANGED <<load, up, clock, snapDays, reports, digests, job, boot,
                   counts, covered>>

(* 409 when there is one. *)
WebCheck(r) ==
    /\ web[r].phase = "check"
    /\ \/ /\ Exists(web[r].period)
          /\ web' = [web EXCEPT ![r] = Idle]
       \/ /\ ~Exists(web[r].period) \/ "exists" \in load.faults
          /\ web' = [web EXCEPT ![r].phase = "insert", ![r].asOf = month]
    /\ UNCHANGED <<load, up, clock, snapDays, reports, digests, job, boot,
                   counts, covered>>

WebInsert(r) ==
    /\ web[r].phase = "insert"
    /\ \/ Store(web[r].period, web[r].asOf)
       \/ "insert" \in load.faults /\ UNCHANGED reports
    /\ web' = [web EXCEPT ![r] = Idle]
    /\ UNCHANGED <<load, up, clock, snapDays, digests, job, boot, counts,
                   covered>>

WebStep(r) == WebCheck(r) \/ WebInsert(r)

-----------------------------------------------------------------------------
(* The process ends, for a deployment or by a crash, and with it every     *)
(* goroutine.                                                              *)
Crash ==
    /\ up /\ crashes < load.crashes
    /\ crashes' = crashes + 1
    /\ up' = FALSE
    /\ job' = Idle /\ boot' = Idle /\ web' = [r \in Requester |-> Idle]
    /\ UNCHANGED <<load, clock, snapDays, reports, digests, requests,
                   covered>>

(* Mutant: a start does not look for missing reports. *)
StartNoBackfill ==
    /\ ~up
    /\ up' = TRUE
    /\ UNCHANGED <<load, clock, snapDays, reports, digests, job, boot, web,
                   counts, covered>>

(* Scheduler.Start: the initial fetch runs again. *)
Start ==
    /\ ~up
    /\ up' = TRUE
    /\ boot' = [phase |-> "fetch"]
    /\ UNCHANGED <<load, clock, snapDays, reports, digests, job, web,
                   counts, covered>>

Next ==
    \/ NewMonth \/ Cron \/ Snapshot
    \/ JobStep
    \/ BootReplay \/ BootStep
    \/ \E r \in Requester : Request(r) \/ WebStep(r)
    \/ Crash \/ Start

Spec == Init /\ [][Next]_vars

(* Months pass, jobs and handlers run on, a process that ended is started  *)
(* again (docker-compose.yml: restart: unless-stopped).                    *)
FairSpec ==
    /\ Spec
    /\ WF_vars(NewMonth) /\ WF_vars(Cron)
    /\ WF_vars(JobStep) /\ WF_vars(BootStep)
    /\ \A r \in Requester : WF_vars(WebStep(r))
    /\ WF_vars(Start)

-----------------------------------------------------------------------------
(* Properties *)

(* A digest is about a report that is stored, and is sent once: whatever   *)
(* crashes and whoever else writes reports.                                *)
DigestHasReport ==
    \A m \in Month, f \in Frequency :
        digests[<<m, f>>] > 0 => digests[<<m, f>>] = 1 /\ Exists(Monthly(m))

(* "Always backfill missing reports on startup" (jobs.go:308): when a      *)
(* start has run to its end every month from the first snapshot to the     *)
(* last month has a report, unless an insert failed.                       *)
NoGapAfterStart ==
    "insert" \notin load.faults => \A m \in covered : Exists(Monthly(m))

(* The writers that have found no report of p and are about to store one. *)
Storing(p) ==
    {w \in {"job"} : job.phase = "insert" /\ job.period = p}
      \cup {w \in {"boot"} : boot.phase = "insert" /\ Head(boot.todo) = p}
      \cup {r \in Requester : web[r].phase = "insert" /\ web[r].period = p}

(* "report already exists for" a period (reports.go:145): nothing in the   *)
(* database keeps a period from a second report, and two may come of a     *)
(* race.  But only writers that looked before the first one was stored can *)
(* add to it: as long as look-ups succeed nobody joins them.               *)
OnlyRacersRepeat ==
    [][\A p \in Period :
         Exists(p) /\ "exists" \notin load.faults
            => Storing(p)' \subseteq Storing(p)]_vars

(* "monthly wealth reports on the 1st of each month" (ARCHITECTURE.md:742) *)
(* are about the month before: what the jobs and the backfill store was    *)
(* computed after its period had ended.  A request may not wait for that.  *)
ScheduledAfterPeriod ==
    [][job' # job \/ boot' # boot =>
         \A p \in Period : reports'[p] # reports[p] =>
             reports'[p][Len(reports'[p])] > EndOf(p)]_vars

(* Every month from the first one on gets its report, though the cron time *)
(* may pass while the process is down, unless the history cannot be read   *)
(* or a report not be stored.                                              *)
EveryMonthReported ==
    \A m \in Month : m >= FirstMonth =>
        (month > m /\ load.faults \cap {"snapshots", "insert"} = {}
            ~> Exists(Monthly(m)))
=============================================================================
