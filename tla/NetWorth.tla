------------------------------ MODULE NetWorth ------------------------------
(***************************************************************************)
(* The net worth history: net_worth_snapshots, the goroutines that write   *)
(* it and the backfill jobs of a start (internal/scheduler/jobs.go).       *)
(*                                                                         *)
(* A replay reads the transactions, then the market data, and then writes  *)
(* one day after the other; every import starts one beside the ones that   *)
(* still run.  Today's snapshot is taken from the transactions and from    *)
(* the view of the holdings, as it was last refreshed.  A start of the     *)
(* process runs the backfills that backfill_jobs does not call completed.  *)
(*                                                                         *)
(* A day's net worth is abstracted to what it was computed from: the       *)
(* transactions counted in its cash and in its holdings, and the sources   *)
(* of market data that had a history.  The computation itself is the       *)
(* subject of Replay.                                                      *)
(***************************************************************************)
EXTENDS Integers, FiniteSets

CONSTANTS
    Txn,         \* the transactions files may hold
    DayOf,       \* the day of each
    AccountOf,   \* the account of each
    SourceOf,    \* the security of each: where its prices come from
    Fx,          \* the other source: exchange rates
    Worker,      \* goroutines that replay
    Boot,        \* the one of them the initial fetch runs on
    FirstToday,  \* the day the model starts on
    LastDay,     \* bound: the last day
    InitLog,     \* transactions to start from
    Beginnings,  \* whether the backfills were completed before, and the
                 \* bounds: requests of a user, crashes, snapshots of today
    Deletes,     \* whether accounts are deleted
    Faults       \* what may fail

Source == {SourceOf[t] : t \in Txn} \cup {Fx}
Day    == 0 .. LastDay
NoDay  == -1

Bounds == [user: Nat, crash: Nat, live: Nat]

ASSUME NetWorthAssumption ==
    /\ LastDay \in Nat /\ FirstToday \in Day
    /\ DayOf \in [Txn -> Day]
    /\ DOMAIN AccountOf = Txn /\ DOMAIN SourceOf = Txn
    /\ \A t \in Txn : SourceOf[t] # Fx
    /\ Boot \in Worker
    /\ InitLog \subseteq Txn
    /\ Beginnings \subseteq [done: BOOLEAN, bounds: Bounds]
    /\ Deletes \in BOOLEAN
    /\ Faults \subseteq {"fetch", "upsert", "refresh", "balance", "security"}

VARIABLES
    up,        \* whether the process runs
    today,     \* time.Now()
    log,       \* table transactions
    arrived,   \* ghost: the day each transaction was first imported
    view,      \* what the materialized view current_holdings was refreshed from
    market,    \* the sources market_data and exchange_rates have a history of
    snaps,     \* net_worth_snapshots
    backfills, \* table backfill_jobs: the status of each
    boot,      \* the runInitialFetch goroutine
    manual,    \* the RunHistoricalPricesBackfill goroutine
    replay,    \* BackfillNetWorthSnapshots in each goroutine
    live,      \* updateNetWorthSnapshot
    bounds,    \* requests, crashes and live snapshots still to come
    alone,     \* ghost: the replay nothing interfered with
    settled    \* ghost: the last day of a history nothing interfered with

vars == <<up, today, log, arrived, view, market, snaps, backfills, boot, manual, replay,
          live, bounds, alone, settled>>

rows   == <<log, arrived, view>>
tables == <<rows, market, snaps, backfills>>
ghosts == <<alone, settled>>

-----------------------------------------------------------------------------
Upto(txns, d) == {t \in txns : DayOf[t] <= d}

(* What may be known of day d: what is dated then and what was there.      *)
Known(d) == {t \in Txn : DayOf[t] <= d \/ arrived[t] \in 0 .. d}

First(txns) == CHOOSE d \in {DayOf[t] : t \in txns} :
                  \A t \in txns : d <= DayOf[t]

Snapshot == [cash: SUBSET Txn, held: SUBSET Txn, market: SUBSET Source]

NoSnap == [none |-> TRUE]

(* Mutant: a day's events are applied after it was valued. *)
ValueBefore(txns, m, d) ==
    [cash |-> Upto(txns, d - 1), held |-> Upto(txns, d - 1), market |-> m]

(* What the replay's day loop has applied when it values day d. *)
ValueAt(txns, m, d) ==
    [cash |-> Upto(txns, d), held |-> Upto(txns, d), market |-> m]

Job == {"historical_prices", "historical_fx", "historical_networth"}

(* The order of runInitialFetch; after the last one it is done. *)
After(job) == CASE job = "historical_prices" -> "historical_fx"
                [] job = "historical_fx" -> "historical_networth"
                [] OTHER -> "done"

AtJob(job, phase) == [job |-> job, phase |-> phase]

BootDone == AtJob("done", "idle")

Idle == [phase |-> "idle"]

(* An upload whose rows are in the table and whose refresh is not made.    *)
Importing == [phase |-> "import"]

Reading == [phase |-> "read"]

TypeOK ==
    /\ up \in BOOLEAN
    /\ today \in Day
    /\ log \subseteq Txn /\ view \subseteq Txn
    /\ arrived \in [Txn -> Day \cup {NoDay}]
    /\ market \subseteq Source
    /\ snaps \in [Day -> Snapshot \cup {NoSnap}]
    /\ backfills \in [Job -> {"absent", "running", "completed"}]
    /\ boot \in [job: Job, phase: {"check", "start", "run", "complete"}]
                \cup {BootDone}
    /\ manual \in {"idle", "start", "run", "complete"}
    /\ replay \in [Worker -> {Idle, Importing, Reading}
            \cup [phase: {"market"}, log: SUBSET Txn]
            \cup [phase: {"days"}, log: SUBSET Txn, market: SUBSET Source,
                  day: Day, end: Day]]
    /\ live \in {Idle} \cup [phase: {"cash"}, cash: SUBSET Txn]
                \cup [phase: {"date"}, snap: Snapshot]
                \cup [phase: {"store"}, snap: Snapshot, date: Day]
    /\ bounds \in Bounds
    /\ alone \subseteq Worker
    /\ settled \in Day \cup {NoDay}

Init ==
    /\ up = TRUE
    /\ today = FirstToday
    /\ log = InitLog /\ view = InitLog
    /\ arrived = [t \in Txn |-> IF t \in InitLog THEN FirstToday ELSE NoDay]
    /\ \E b \in Beginnings :
          /\ bounds = b.bounds
          /\ market = IF b.done THEN Source ELSE {}
          /\ snaps = [d \in Day |->
                IF b.done /\ d < FirstToday /\ InitLog # {} /\ d >= First(InitLog)
                THEN ValueAt(InitLog, Source, d) ELSE NoSnap]
          /\ backfills = [j \in Job |-> IF b.done THEN "completed" ELSE "absent"]
    /\ boot = AtJob("historical_prices", "check")
    /\ manual = "idle"
    /\ replay = [w \in Worker |-> Idle]
    /\ live = Idle
    /\ alone = {}
    /\ settled = NoDay

(* Ghosts: the data a replay read has changed.                             *)
Disturb == alone' = {} /\ settled' = NoDay

Asked == /\ up
         /\ bounds.user > 0
         /\ bounds' = [bounds EXCEPT !.user = @ - 1]

-----------------------------------------------------------------------------
(* BackfillNetWorthSnapshots *)

Begin(w) == replay' = [replay EXCEPT ![w] = Reading]

Overlaps(w) == \E v \in Worker \ {w} : replay[v] # Idle

(* ListTransactions; with none the history stays as it is. *)
ReplayRead(w) ==
    /\ replay[w].phase = "read"
    /\ replay' = [replay EXCEPT ![w] =
                    IF log = {} THEN Idle ELSE [phase |-> "market", log |-> log]]
    /\ UNCHANGED <<up, today, tables, boot, manual, live, bounds, ghosts>>

(* The price and exchange rate histories are loaded, then the days to      *)
(* compute are fixed: the first transaction's to yesterday.                *)
ReplayLoad(w) ==
    LET from == First(replay[w].log)
    IN  /\ replay[w].phase = "market"
        /\ replay' = [replay EXCEPT ![w] =
              IF from > today - 1 THEN Idle
              ELSE [phase |-> "days", log |-> @.log, market |-> market,
                    day |-> from, end |-> today - 1]]
        /\ UNCHANGED <<up, today, tables, boot, manual, live, bounds, ghosts>>

(* One pass of the loop.  A failing upsert is only logged. *)
ReplayDay(w) ==
    LET r    == replay[w]
        last == r.day = r.end
    IN  /\ r.phase = "days"
        /\ \/ /\ snaps' = [snaps EXCEPT ![r.day] =
                              ValueAt(r.log, r.market, r.day)]
              /\ alone' = IF last THEN alone \ {w} ELSE alone
              /\ settled' = IF last /\ w \in alone THEN r.end ELSE settled
           \/ /\ "upsert" \in Faults
              /\ alone' = alone \ {w}
              /\ UNCHANGED <<snaps, settled>>
        /\ replay' = [replay EXCEPT ![w] =
                        IF last THEN Idle ELSE [r EXCEPT !.day = @ + 1]]
        /\ UNCHANGED <<up, today, rows, market, backfills, boot, manual, live,
                       bounds>>

ReplayStep(w) == ReplayRead(w) \/ ReplayLoad(w) \/ ReplayDay(w)

-----------------------------------------------------------------------------
(* updateNetWorthSnapshot: cron, price updates, which refresh the view     *)
(* first, and imports start it.  One at a time here.  Each account's       *)
(* balance has a query of its own; one that fails is left out.             *)

LiveCash ==
    /\ up /\ live = Idle
    /\ bounds.live > 0
    /\ bounds' = [bounds EXCEPT !.live = @ - 1]
    /\ view' \in {view, log}
    /\ \E unread \in SUBSET {AccountOf[t] : t \in log} :
          /\ unread = {} \/ "balance" \in Faults
          /\ live' = [phase |-> "cash", cash |-> {t \in log : AccountOf[t] \notin unread}]
    /\ UNCHANGED <<up, today, log, arrived, market, snaps, backfills, boot, manual,
                   replay, ghosts>>

(* Then the holdings are read from the view, and their prices.             *)
LiveHoldings ==
    /\ live.phase = "cash"
    /\ live' = [phase |-> "date",
                snap |-> [cash |-> live.cash, held |-> view, market |-> market]]
    /\ UNCHANGED <<up, today, tables, boot, manual, replay, bounds, ghosts>>

(* Mutant: the date is that of the day before (UTC). *)
LiveDateEarly ==
    /\ live.phase = "date"
    /\ live' = [phase |-> "store", snap |-> live.snap,
                date |-> IF today = 0 THEN 0 ELSE today - 1]
    /\ UNCHANGED <<up, today, tables, boot, manual, replay, bounds, ghosts>>

(* The date is that of a clock read after both. *)
LiveDate ==
    /\ live.phase = "date"
    /\ live' = [phase |-> "store", snap |-> live.snap, date |-> today]
    /\ UNCHANGED <<up, today, tables, boot, manual, replay, bounds, ghosts>>

(* A snapshot stored after midnight overwrites what a replay wrote.        *)
LiveStore ==
    /\ live.phase = "store"
    /\ live' = Idle
    /\ \/ /\ snaps' = [snaps EXCEPT ![live.date] = live.snap]
          /\ IF live.date < today THEN Disturb ELSE UNCHANGED ghosts
       \/ "upsert" \in Faults /\ UNCHANGED <<snaps, ghosts>>
    /\ UNCHANGED <<up, today, rows, market, backfills, boot, manual, replay,
                   bounds>>

LiveStep == LiveHoldings \/ LiveDate \/ LiveStore

-----------------------------------------------------------------------------
(* Backfill jobs *)

(* Mutant: a job that was started is not started again. *)
NeededNew(job) == backfills[job] = "absent"

(* backfillNeeded *)
Needed(job) == backfills[job] # "completed"

(* backfillStart and backfillComplete, taken to succeed: their errors are  *)
(* dropped.                                                                *)
SetStatus(job, status) == backfills' = [backfills EXCEPT ![job] = status]

NextJob(job) == boot' = IF After(job) = "done" THEN BootDone
                        ELSE AtJob(After(job), "check")

BootCheck ==
    /\ boot.phase = "check"
    /\ \/ Needed(boot.job) /\ boot' = [boot EXCEPT !.phase = "start"]
       \/ ~Needed(boot.job) /\ NextJob(boot.job)
    /\ UNCHANGED <<up, today, tables, manual, replay, live, bounds, ghosts>>

BootStart ==
    /\ boot.phase = "start"
    /\ SetStatus(boot.job, "running")
    /\ IF boot.job = "historical_networth"
       THEN /\ replay[Boot] = Idle /\ Begin(Boot)
            /\ alone' = IF Overlaps(Boot) THEN {} ELSE {Boot}
       ELSE UNCHANGED <<replay, alone>>
    /\ boot' = [boot EXCEPT !.phase = "run"]
    /\ UNCHANGED <<up, today, rows, market, snaps, manual, live, bounds,
                   settled>>

(* backfillHistoricalPrices gives up on a security after three attempts,   *)
(* backfillHistoricalFXRates after one; both then just return.             *)
Fetch(sources) ==
    \E got \in SUBSET sources :
        /\ got = sources \/ "fetch" \in Faults
        /\ market' = market \cup got
        /\ IF got \subseteq market THEN UNCHANGED ghosts ELSE Disturb

SourcesOf(job) == IF job = "historical_fx" THEN {Fx}
                  ELSE {SourceOf[t] : t \in log}

BootRun ==
    /\ boot.phase = "run"
    /\ IF boot.job = "historical_networth"
       THEN replay[Boot] = Idle /\ UNCHANGED <<market, ghosts>>
       ELSE Fetch(SourcesOf(boot.job))
    /\ boot' = [boot EXCEPT !.phase = "complete"]
    /\ UNCHANGED <<up, today, rows, snaps, backfills, manual, replay, live,
                   bounds>>

(* Completed, whatever the run achieved. *)
BootComplete ==
    /\ boot.phase = "complete"
    /\ SetStatus(boot.job, "completed")
    /\ NextJob(boot.job)
    /\ UNCHANGED <<up, today, rows, market, snaps, manual, replay, live, bounds,
                   ghosts>>

BootStep == BootCheck \/ BootStart \/ BootRun \/ BootComplete

(* POST refresh-historical-prices; one at a time here. *)
RefreshPrices ==
    /\ Asked /\ manual = "idle"
    /\ manual' = "start"
    /\ UNCHANGED <<up, today, tables, boot, replay, live, ghosts>>

ManualStart ==
    /\ manual = "start"
    /\ SetStatus("historical_prices", "running")
    /\ manual' = "run"
    /\ UNCHANGED <<up, today, rows, market, snaps, boot, replay, live, bounds,
                   ghosts>>

ManualRun ==
    /\ manual = "run"
    /\ Fetch(SourcesOf("historical_prices"))
    /\ manual' = "complete"
    /\ UNCHANGED <<up, today, rows, snaps, backfills, boot, replay, live, bounds>>

ManualComplete ==
    /\ manual = "complete"
    /\ SetStatus("historical_prices", "completed")
    /\ manual' = "idle"
    /\ UNCHANGED <<up, today, rows, market, snaps, boot, replay, live, bounds,
                   ghosts>>

ManualStep == ManualStart \/ ManualRun \/ ManualComplete

-----------------------------------------------------------------------------
(* Users, days and restarts *)

(* HandleImport, its steps the subject of Import: rows are in the table,   *)
(* of whatever days.                                                       *)
Import(w) ==
    /\ Asked /\ replay[w] = Idle
    /\ \E new \in SUBSET Txn :
          /\ new \ log # {}
          /\ log' = log \cup new
          /\ arrived' = [t \in Txn |->
                IF t \in new /\ arrived[t] = NoDay THEN today ELSE arrived[t]]
    /\ replay' = [replay EXCEPT ![w] = Importing]
    /\ Disturb
    /\ UNCHANGED <<up, today, view, market, snaps, backfills, boot, manual, live>>

(* Its end: the view is refreshed and a replay started; a request that     *)
(* runs out of time starts it too.                                         *)
ImportEnds(w) ==
    /\ replay[w] = Importing
    /\ \/ view' = log
       \/ "refresh" \in Faults /\ UNCHANGED view
    /\ Begin(w)
    /\ alone' = IF Overlaps(w) THEN {} ELSE {w}
    /\ UNCHANGED <<up, today, log, arrived, market, snaps, backfills, boot, manual,
                   live, bounds, settled>>

(* A security cannot be created: the rest of the file, the refresh and the *)
(* replay are given up.                                                    *)
ImportFails(w) ==
    /\ "security" \in Faults
    /\ replay[w] = Importing
    /\ replay' = [replay EXCEPT ![w] = Idle]
    /\ UNCHANGED <<up, today, tables, boot, manual, live, bounds, ghosts>>

(* POST rebuild-networth *)
Rebuild(w) ==
    /\ Asked /\ replay[w] = Idle
    /\ Begin(w)
    /\ alone' = IF Overlaps(w) THEN {} ELSE {w}
    /\ UNCHANGED <<up, today, tables, boot, manual, live, settled>>

(* HandleDeleteAccount: the view is refreshed, or not if a query fails     *)
(* before, and no replay is started.                                       *)
DeleteAccount(a) ==
    /\ Deletes
    /\ Asked
    /\ \E t \in log : AccountOf[t] = a
    /\ log' = {t \in log : AccountOf[t] # a}
    /\ \/ view' = log'
       \/ "refresh" \in Faults /\ UNCHANGED view
    /\ Disturb
    /\ UNCHANGED <<up, today, arrived, market, snaps, backfills, boot, manual,
                   replay, live>>

NextDay ==
    /\ today < LastDay
    /\ today' = today + 1
    /\ UNCHANGED <<up, tables, boot, manual, replay, live, bounds, ghosts>>

(* The process ends and with it every goroutine. *)
Crash ==
    /\ up /\ bounds.crash > 0
    /\ bounds' = [bounds EXCEPT !.crash = @ - 1]
    /\ up' = FALSE
    /\ boot' = BootDone
    /\ manual' = "idle"
    /\ replay' = [w \in Worker |-> Idle]
    /\ live' = Idle
    /\ alone' = {}
    /\ UNCHANGED <<today, tables, settled>>

Start ==
    /\ ~up
    /\ up' = TRUE
    /\ boot' = AtJob("historical_prices", "check")
    /\ UNCHANGED <<today, tables, manual, replay, live, bounds, ghosts>>

Next ==
    \/ \E w \in Worker : ReplayStep(w)
    \/ \E w \in Worker \ {Boot} : Import(w) \/ ImportEnds(w) \/ ImportFails(w) \/ Rebuild(w)
    \/ \E a \in {AccountOf[t] : t \in Txn} : DeleteAccount(a)
    \/ LiveCash \/ LiveStep
    \/ BootStep
    \/ RefreshPrices \/ ManualStep
    \/ NextDay \/ Crash \/ Start

Spec == Init /\ [][Next]_vars

(* Goroutines run on and a process that ended is started again             *)
(* (docker-compose.yml: restart: unless-stopped).                          *)
FairSpec ==
    /\ Spec
    /\ \A w \in Worker : WF_vars(ReplayStep(w)) /\ WF_vars(ImportEnds(w))
    /\ WF_vars(BootStep)
    /\ WF_vars(ManualStep)
    /\ WF_vars(LiveStep)
    /\ WF_vars(Start)

-----------------------------------------------------------------------------
(* Properties *)

(* The history of day d says what the log and the market data say now. *)
Exact(d) ==
    snaps[d] = [cash |-> Upto(log, d), held |-> Upto(log, d), market |-> market]

(* A replay nothing interfered with repairs the whole history: from the    *)
(* first transaction to the day before it ran, each day shows what the     *)
(* log and the market data say, whatever stale replays and crashes left.   *)
SettledExact ==
    settled # NoDay => \A d \in First(log) .. settled : Exact(d)

(* No day counts a transaction that is dated later and was not there yet:  *)
(* midnight may pass between the reads of a snapshot, its date and its     *)
(* upsert (jobs.go:763-818), and replays of other logs may overlap.        *)
NoLookAhead ==
    \A d \in Day : snaps[d] # NoSnap =>
        snaps[d].cash \cup snaps[d].held \subseteq Known(d)

(* A backfill that a crash cut short is run again by the next start, until *)
(* every job is completed.                                                 *)
BackfillsComplete ==
    <>[](\A j \in Job : backfills[j] = "completed")

=============================================================================
