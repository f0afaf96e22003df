------------------------------- MODULE Scheduler -------------------------------
(***************************************************************************)
(* The scheduler as one process (Scheduler.Start in scheduler/jobs.go):    *)
(* cron starts the jobs of Notices and Jobs at their slots, requests start *)
(* some of them by hand, a start of the server runs the first fetches, and *)
(* the process may end between any two queries.  A slot may come while     *)
(* jobs of an earlier one, of a request or of the start are at work.       *)
(***************************************************************************)
EXTENDS Notices, Jobs

CONSTANTS
    Workloads,      \* bounds, see Workload
    Channels        \* the channels a behaviour starts with

VARIABLES
    up,         \* the server runs
    crashes, requests, moves,   \* so far
    workload    \* the bounds of this behaviour

vars == <<clock, faults, noticeVars, jobVars, up, crashes, requests, moves, workload>>

NoticeJobs == {"calendar", "loss", "health", "alerts", "digest"}
DataJobs == {"prices", "prices-live", "fx", "etf", "networth", "backup"}

RequestKind == {"create alert", "toggle alert", "delete alert", "mark read", "channels",
                "check alerts", "refresh prices", "refresh etf"}

(* What cron runs and when, what users ask for, what may go wrong and how  *)
(* often.                                                                  *)
Workload == [jobs : SUBSET (NoticeJobs \cup DataJobs), slots : (SUBSET Slot) \ {{}}, days : Nat,
             kinds : SUBSET RequestKind, requests : Nat, crashes : Nat, faults : Nat,
             moves : Nat, initial : BOOLEAN, symbols : SUBSET Symbol, path : BOOLEAN,
             accounts : SUBSET Institution]

ASSUME SchedulerAssumption ==
    /\ Workloads \subseteq Workload
    /\ Channels \subseteq ChannelRow

TypeOK ==
    /\ day \in Nat \ {0} /\ hour \in 0 .. 23 /\ faults \in Nat
    /\ NoticesTypeOK /\ JobsTypeOK
    /\ up \in BOOLEAN
    /\ {crashes, requests, moves} \subseteq Nat
    /\ workload \in Workloads

(* runInitialFetch runs its jobs one after the other; its backfills and    *)
(* reports are in NetWorth and Reports.                                    *)
InitialFetch == [job |-> "etf", step |-> "start", then |-> <<"prices", "fx">>]

Init ==
    /\ workload \in Workloads
    /\ day = 1 /\ hour = 0
    /\ NoticesInit(Channels) /\ faults = workload.faults
    /\ JobsInit
    /\ up = TRUE /\ crashes = 0 /\ requests = 0 /\ moves = 0

others == <<up, crashes, requests, moves, workload>>

-----------------------------------------------------------------------------
(* Cron *)

(* The record of a job as cron begins it, once the slot has come.          *)
Begun(j) ==
    IF j = "backup" THEN [job |-> j, step |-> "start", then |-> <<>>, day |-> day']
    ELSE [job |-> j, step |-> "start", then |-> <<>>]

(* Each due job gets a goroutine that is free; the others go on with what  *)
(* they are at.  A backup reads the clock first of all.                    *)
Started(jobs) ==
    \E g \in [jobs -> {h \in Goroutine : go[h] = Off}] :
        /\ IsInjective(g)
        /\ go' = [h \in Goroutine |->
              IF \E j \in jobs : g[j] = h THEN Begun(CHOOSE j \in jobs : g[j] = h) ELSE go[h]]

(* A slot waits for nothing but the one job of the notifications that cron *)
(* began: its queries have at most a minute.  All others may be at work    *)
(* still: first fetches and what users started begin at any time, and      *)
(* nothing bounds a dump.  Goroutine bounds how many there are at once.    *)
Fire ==
    /\ task["cron"] = Idle /\ day <= workload.days
    /\ NextSlot(workload.slots)
    /\ LET due == IF up THEN Table' \cap workload.jobs ELSE {}
           told == due \cap NoticeJobs
       IN  /\ task' = IF told = {} THEN task ELSE
                 [task EXCEPT !["cron"] = [job |-> CHOOSE j \in told : TRUE, step |-> "start"]]
           /\ Started(due \cap DataJobs)
    /\ IF day' = day THEN UNCHANGED <<checked, untold>> ELSE checked' = {} /\ untold' = {}
    /\ UNCHANGED <<rows, serial, unread, alerts, channels, sent, faults, status, market, pages,
                   quotes, rates, weights, listed, files, dumps, others>>

-----------------------------------------------------------------------------
(* The jobs.  Only the evaluation of alerts keeps a status among the jobs  *)
(* of Notices.                                                             *)

NoticeStep ==
    /\ \/ CheckTaxCalendar \/ CheckDepositInsurance(workload.accounts)
       \/ CheckTaxLossHarvesting(Security)
       \/ WeeklyDataHealth \/ SendWeeklyDigest
       \/ \E w \in Worker : InsertNotification(w) \/ DispatchMessage(w)
       \/ \E w \in Worker : Finish(w) /\ task[w].job # "alerts"
    /\ UNCHANGED jobVars

AlertsRun(w) ==
    /\ \/ EvaluateAlerts(w) /\ SetJobStatus("alerts", "running")
       \/ AlertsFail(w) /\ SetJobStatus("alerts", "error")
       \/ Finish(w) /\ task[w].job = "alerts" /\ SetJobStatus("alerts", "ok")
    /\ UNCHANGED <<go, market, pages, quotes, rates, weights, listed, files, dumps>>

JobStep ==
    \/ /\ NoticeStep \/ \E w \in Worker : AlertsRun(w)
       /\ UNCHANGED <<clock, others>>
    \/ /\ \E g \in Goroutine : GoroutineStep(g, workload.symbols, workload.path)
       /\ UNCHANGED <<clock, noticeVars, others>>

-----------------------------------------------------------------------------
(* Requests.  The three triggers start a goroutine and return.             *)

NoticeRequest ==
    /\ \E k \in workload.kinds :
        \/ k = "create alert" /\ \E a \in Alert : HandleCreateAlert(a)
        \/ k = "toggle alert" /\ \E a \in Alert : HandleToggleAlert(a)
        \/ k = "delete alert" /\ \E a \in Alert : HandleDeleteAlert(a)
        \/ k = "mark read" /\ HandleMarkRead
        \/ k = "channels" /\ \E c \in Channel :
              \/ \E for \in {"", "alerts", "digest"}, freq \in {"", "weekly"} :
                     HandleCreateChannel(c, TRUE, for, freq)
              \/ HandleDeleteChannel(c)
    /\ UNCHANGED jobVars

RunAlertCheck ==
    /\ "check alerts" \in workload.kinds /\ task["manual"] = Idle
    /\ task' = [task EXCEPT !["manual"] = [job |-> "alerts", step |-> "start"]]
    /\ UNCHANGED <<faults, rows, serial, unread, alerts, channels, sent, checked, untold, jobVars>>

RunUpdate ==
    /\ \E k \in workload.kinds \cap {"refresh prices", "refresh etf"}, g \in Goroutine :
        /\ go[g] = Off
        /\ Goto(g, [job |-> IF k = "refresh prices" THEN "prices" ELSE "etf",
                    step |-> "start", then |-> <<>>])
    /\ UNCHANGED <<faults, noticeVars, status, market, pages, quotes, rates, weights, listed,
                   files, dumps>>

Request ==
    /\ up /\ requests < workload.requests
    /\ NoticeRequest \/ RunAlertCheck \/ RunUpdate
    /\ requests' = requests + 1
    /\ UNCHANGED <<clock, up, crashes, moves, workload>>

-----------------------------------------------------------------------------
(* The process ends: its goroutines and statuses are gone, the files that  *)
(* were being written stay as they are.                                    *)
Crash ==
    /\ up /\ crashes < workload.crashes
    /\ up' = FALSE /\ crashes' = crashes + 1
    /\ task' = [w \in Worker |-> Idle]
    /\ go' = [g \in Goroutine |-> Off]
    /\ status' = [j \in JobName |-> "never"]
    /\ \E half \in SUBSET {go[g].day : g \in {h \in Goroutine :
                               go[h].job = "backup" /\ go[h].step = "dump"}} :
           files' = {f \in files : f.day \notin half}
                      \cup {[day |-> d, full |-> FALSE] : d \in half}
    /\ UNCHANGED <<clock, rows, serial, unread, alerts, channels, sent, checked, untold, faults,
                   market, pages, quotes, rates, weights, listed, dumps,
                   requests, moves, workload>>

Start ==
    /\ ~up /\ up' = TRUE
    /\ IF workload.initial
       THEN \E g \in Goroutine : go[g] = Off /\ Goto(g, InitialFetch)
       ELSE UNCHANGED go
    /\ UNCHANGED <<clock, faults, noticeVars, status, market, pages, quotes, rates, weights, listed, files,
                   dumps, crashes, requests, moves, workload>>

(* Prices and the constituents of ETFs change outside.                     *)
Move ==
    /\ moves < workload.moves /\ moves' = moves + 1
    /\ \E page \in [Etf -> (SUBSET Constituent) \ {{}}] : MarketMoves(page)
    /\ UNCHANGED <<clock, noticeVars, up, crashes, requests, workload>>

Next == Fire \/ JobStep \/ Request \/ Crash \/ Start \/ Move

Spec == Init /\ [][Next]_vars

-----------------------------------------------------------------------------
(* Properties *)

(* A reminder is repeated within its month, and the data health digest     *)
(* within its days, only when so many notifications were stored in between *)
(* that the first one had left the list the job reads, or when that list   *)
(* could not be read.                                                      *)
Recent(n, m) ==
    IF n.topic.kind = "health" THEN m.day - n.day < HealthGap
    ELSE Month(n.day) = Month(m.day) /\ Year(n.day) = Year(m.day)

ReadBy(t) == CASE t.kind = "event" -> ListEvents
               [] t.kind = "cash" -> ListCash
               [] OTHER -> ListHealth

RepeatsExplained ==
    \A n, m \in rows :
        /\ n.serial < m.serial /\ n.topic = m.topic
        /\ n.topic.kind \in {"event", "cash", "health"}
        /\ Recent(n, m)
        => m.blind \/ m.serial - n.serial > ReadBy(n.topic)

Reminded(e) ==
    \E n \in rows : n.topic = [kind |-> "event", of |-> e] /\ SameMonth(n.day)

(* Once the calendar job of a day is through, every event of the year that *)
(* is due has been notified this month or could not be stored today: a     *)
(* reminder lost to a fault or a crash is made up for on the next day.     *)
DueStored ==
    "event" \in checked =>
        \A e \in Event : Due(e, 8) =>
            Reminded(e) \/ [kind |-> "event", of |-> e] \in untold

(* A notification that was stored and never handed to the channels is due  *)
(* to a crash between the two (one for each worker), or to a list of       *)
(* channels that could not be read: the next evaluation finds it told and  *)
(* does not send it.                                                       *)
Unsent == {n \in rows : ~\E m \in sent : m.row = n.serial}

SilenceExplained ==
    Cardinality(Unsent) <= crashes * Cardinality(Worker) + (workload.faults - faults)
                             + Cardinality({w \in Worker : task[w].step = "send"})

(* The status page says "running" of a job only while it runs, except that *)
(* a price update without any symbol never says that it has ended.         *)
RunningRuns ==
    /\ \A j \in {"prices", "prices-live", "fx", "backup"} :
         status[j] = "running" =>
             \/ \E g \in Goroutine : go[g].job = j
             \/ j \in {"prices", "prices-live"} /\ workload.symbols = {}
    /\ status["alerts"] = "running" => \E w \in Worker : task[w].job = "alerts"

(* Every complete dump of the last DailyKeep days, and of the first of a   *)
(* month within a year, is still there.                                    *)
DumpsKept ==
    \A d \in dumps :
        \/ day - d < DailyKeep
        \/ DayOfMonth(d) = 1 /\ day - d < DaysPerYear
        => [day |-> d, full |-> TRUE] \in files

=============================================================================
