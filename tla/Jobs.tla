---------------------------------- MODULE Jobs ----------------------------------
(***************************************************************************)
(* The jobs that fetch data and save files (scheduler/jobs.go over         *)
(* market/yahoo.go, market/ecb.go and market/etf.go): prices, exchange     *)
(* rates, the constituents of ETFs and the backup, with the table of       *)
(* statuses they all write without a lock.  A price, a day's rates or a    *)
(* page of constituents is the version of the market it was taken at.      *)
(***************************************************************************)
EXTENDS Cron

CONSTANTS
    Symbol,         \* securities with a symbol
    Currency, Etf,
    Constituent,
    Goroutine,
    DailyKeep,      \* 30 days of backups,
    Attempts        \* 3 attempts at the rates

VARIABLES
    status,     \* the table of job statuses, in memory
    go,         \* what each goroutine does
    market,     \* the version of prices, rates and constituents outside
    pages,      \* pages[e]: constituents of the ETF outside
    quotes,     \* market_data: the latest price
    rates,      \* exchange_rates: day of the latest rate
    weights,    \* securities.sector_weights: version, 0 for none
    listed,     \* etf_holdings: as_of_date, 0 for no row
    files,      \* files in the backup directory
    dumps       \* days whose dump was complete: only remembers

jobVars == <<status, go, market, pages, quotes, rates, weights, listed, files, dumps>>

ASSUME JobsAssumption ==
    /\ {DailyKeep, Attempts} \subseteq Nat \ {0}
    /\ \A S \in {Symbol, Currency, Constituent} : IsFiniteSet(S)

JobName == {"prices", "prices-live", "fx", "etf", "networth", "backup", "alerts", "report"}

(* Nothing but cron starts a backup.                                       *)
Chained == JobName \ {"backup"}

Off == [job |-> "none"]

Work ==
    LET prices == {"prices", "prices-live"}
        then == Seq(Chained)
    IN  {Off} \cup [job : Chained, step : {"start"}, then : then]
          \cup [job : prices, step : {"list"}, then : then]
          \cup [job : prices, step : {"fetch", "store"}, then : then, todo : SUBSET Symbol,
                got : [Symbol -> Nat]]
          \cup [job : {"fx"}, step : {"fetch"}, then : then, tries : Nat]
          \cup [job : {"etf"}, step : {"weights"}, then : then, todo : SUBSET Etf]
          \cup [job : {"etf"}, step : {"page"}, then : then, todo : SUBSET Etf, of : Etf]
          \cup [job : {"backup"}, step : {"start", "dump", "retention"}, then : then, day : Nat]

JobsTypeOK ==
    /\ status \in [JobName -> {"never", "running", "ok", "error"}]
    /\ go \in [Goroutine -> Work]
    /\ market \in Nat
    /\ pages \in [Etf -> SUBSET Constituent]
    /\ quotes \in [Symbol -> 0 .. market]
    /\ rates \in [Currency -> 0 .. day]
    /\ weights \in [Etf -> 0 .. market]
    /\ listed \in [Etf -> [Constituent -> 0 .. day]]
    /\ files \subseteq [day : 1 .. day, full : BOOLEAN] /\ dumps \subseteq 1 .. day

JobsInit ==
    /\ status = [j \in JobName |-> "never"]
    /\ go = [g \in Goroutine |-> Off]
    /\ market = 1
    /\ pages = [e \in Etf |-> Constituent]
    /\ quotes = [s \in Symbol |-> 0]
    /\ rates = [c \in Currency |-> 0]
    /\ weights = [e \in Etf |-> 0]
    /\ listed = [e \in Etf |-> [c \in Constituent |-> 0]]
    /\ files = {} /\ dumps = {}

SetJobStatus(j, s) == status' = [status EXCEPT ![j] = s]

Goto(g, r) == go' = [go EXCEPT ![g] = r]

(* The goroutine goes on to the job it was started to do next, if any.     *)
GoOn(then) ==
    IF then = <<>> THEN Off ELSE [job |-> Head(then), step |-> "start", then |-> Tail(then)]

-----------------------------------------------------------------------------
(* The clients: what they answer when they answer.                         *)

FetchPrice == market                    \* the last close of the chart
FetchDailyRates == {day - 1, day}       \* the last day published
FetchMetadata == market
FetchHoldings(e) == pages[e]

-----------------------------------------------------------------------------
(* updatePrices and updatePricesIntraday: the latter does nothing outside  *)
(* the market's hours.                                                     *)

PricesStart(g) ==
    /\ go[g].job \in {"prices", "prices-live"} /\ go[g].step = "start"
    /\ IF go[g].job = "prices-live" /\ ~(Workday /\ hour \in 8 .. 21)
       THEN Goto(g, GoOn(go[g].then)) /\ UNCHANGED status
       ELSE SetJobStatus(go[g].job, "running") /\ Goto(g, [go[g] EXCEPT !.step = "list"])
    /\ UNCHANGED <<faults, market, pages, quotes, rates, weights, listed, files, dumps>>

(* What remains to be fetched, and the prices fetched so far, 0 for none.  *)
Asking(g, symbols) ==
    [job |-> go[g].job, step |-> "fetch", then |-> go[g].then,
     todo |-> symbols, got |-> [s \in Symbol |-> 0]]

(* Mutant: the error path forgets the status. *)
PricesListSilent(g, symbols) ==
    /\ go[g].job \in {"prices", "prices-live"} /\ go[g].step = "list"
    /\ \/ Goto(g, GoOn(go[g].then)) /\ Failing(1)
       \/ symbols # {} /\ Failing(0) /\ Goto(g, Asking(g, symbols))
    /\ UNCHANGED <<status, market, pages, quotes, rates, weights, listed, files, dumps>>

(* The list fails, or is empty and the status stays "running".             *)
PricesList(g, symbols) ==
    /\ go[g].job \in {"prices", "prices-live"} /\ go[g].step = "list"
    /\ \/ SetJobStatus(go[g].job, "error") /\ Goto(g, GoOn(go[g].then)) /\ Failing(1)
       \/ symbols = {} /\ Failing(0) /\ Goto(g, GoOn(go[g].then)) /\ UNCHANGED status
       \/ symbols # {} /\ Failing(0) /\ Goto(g, Asking(g, symbols)) /\ UNCHANGED status
    /\ UNCHANGED <<market, pages, quotes, rates, weights, listed, files, dumps>>

(* The requests of FetchPrices are answered one by one, in any order, and  *)
(* any of them may fail; the last one ends the wait.                       *)
PricesFetch(g, s) ==
    /\ go[g].job \in {"prices", "prices-live"} /\ go[g].step = "fetch" /\ s \in go[g].todo
    /\ \E got \in {go[g].got, [go[g].got EXCEPT ![s] = FetchPrice]} :
           /\ Failing(IF got = go[g].got THEN 1 ELSE 0)
           /\ Goto(g, IF go[g].todo = {s}
                       THEN [go[g] EXCEPT !.step = "store", !.got = got,
                                          !.todo = {t \in Symbol : got[t] # 0}]
                       ELSE [go[g] EXCEPT !.got = got, !.todo = @ \ {s}])
    /\ UNCHANGED <<status, market, pages, quotes, rates, weights, listed, files, dumps>>

UpsertMarketData(g, s) ==
    /\ go[g].job \in {"prices", "prices-live"} /\ go[g].step = "store" /\ s \in go[g].todo
    /\ Goto(g, [go[g] EXCEPT !.todo = @ \ {s}])
    /\ \/ quotes' = [quotes EXCEPT ![s] = go[g].got[s]] /\ Failing(0)
       \/ UNCHANGED quotes /\ Failing(1)
    /\ UNCHANGED <<status, market, pages, rates, weights, listed, files, dumps>>

PricesDone(g) ==
    /\ go[g].job \in {"prices", "prices-live"} /\ go[g].step = "store" /\ go[g].todo = {}
    /\ SetJobStatus(go[g].job, "ok")
    /\ Goto(g, [job |-> "networth", step |-> "start", then |-> go[g].then])
    /\ UNCHANGED <<faults, market, pages, quotes, rates, weights, listed, files, dumps>>

(* updateNetWorthSnapshot leaves its status alone when it fails.           *)
NetWorthRun(g) ==
    /\ go[g].job = "networth"
    /\ \/ SetJobStatus("networth", "ok") /\ Failing(0)
       \/ UNCHANGED status /\ Failing(1)
    /\ Goto(g, GoOn(go[g].then))
    /\ UNCHANGED <<market, pages, quotes, rates, weights, listed, files, dumps>>

-----------------------------------------------------------------------------
(* updateFXRates *)

FXStart(g) ==
    /\ go[g].job = "fx" /\ go[g].step = "start"
    /\ SetJobStatus("fx", "running")
    /\ Goto(g, [job |-> "fx", step |-> "fetch", then |-> go[g].then, tries |-> 0])
    /\ UNCHANGED <<faults, market, pages, quotes, rates, weights, listed, files, dumps>>

FXFetch(g) ==
    /\ go[g].job = "fx" /\ go[g].step = "fetch"
    /\ \/ /\ go[g].tries + 1 < Attempts /\ Failing(1)
          /\ Goto(g, [go[g] EXCEPT !.tries = @ + 1]) /\ UNCHANGED <<status, rates>>
       \/ /\ go[g].tries + 1 = Attempts /\ Failing(1)
          /\ SetJobStatus("fx", "error") /\ Goto(g, GoOn(go[g].then)) /\ UNCHANGED rates
       \/ /\ \E ok \in SUBSET Currency, d \in FetchDailyRates :
                 /\ Failing(Cardinality(Currency \ ok))
                 /\ rates' = [c \in Currency |-> IF c \in ok /\ d > rates[c] THEN d ELSE rates[c]]
          /\ SetJobStatus("fx", "ok") /\ Goto(g, GoOn(go[g].then))
    /\ UNCHANGED <<market, pages, quotes, weights, listed, files, dumps>>

-----------------------------------------------------------------------------
(* updateETFHoldings: never "running", never "error".  The weights of an   *)
(* ETF are overwritten before its constituents are fetched, and a          *)
(* constituent that has left the page keeps its row.                       *)

EtfStart(g) ==
    /\ go[g].job = "etf" /\ go[g].step = "start"
    /\ \/ Goto(g, GoOn(go[g].then)) /\ Failing(1)
       \/ Goto(g, [job |-> "etf", step |-> "weights", then |-> go[g].then, todo |-> Etf]) /\ Failing(0)
    /\ UNCHANGED <<status, market, pages, quotes, rates, weights, listed, files, dumps>>

EtfWeights(g, e) ==
    /\ go[g].job = "etf" /\ go[g].step = "weights" /\ e \in go[g].todo
    /\ \/ weights' = [weights EXCEPT ![e] = FetchMetadata] /\ Failing(0)
          /\ Goto(g, [job |-> "etf", step |-> "page", then |-> go[g].then,
                      todo |-> go[g].todo, of |-> e])
       \/ UNCHANGED weights /\ Failing(1) /\ Goto(g, [go[g] EXCEPT !.todo = @ \ {e}])
    /\ UNCHANGED <<status, market, pages, quotes, rates, listed, files, dumps>>

EtfPage(g) ==
    /\ go[g].job = "etf" /\ go[g].step = "page"
    /\ LET e == go[g].of
       IN  /\ \/ \E ok \in SUBSET FetchHoldings(e) :
                    /\ Failing(Cardinality(FetchHoldings(e) \ ok))
                    /\ listed' = [listed EXCEPT ![e] =
                                    [c \in Constituent |-> IF c \in ok THEN day ELSE @[c]]]
              \/ UNCHANGED listed /\ Failing(1)
           /\ Goto(g, [job |-> "etf", step |-> "weights", then |-> go[g].then,
                       todo |-> go[g].todo \ {e}])
    /\ UNCHANGED <<status, market, pages, quotes, rates, weights, files, dumps>>

EtfDone(g) ==
    /\ go[g].job = "etf" /\ go[g].step = "weights" /\ go[g].todo = {}
    /\ SetJobStatus("etf", "ok") /\ Goto(g, GoOn(go[g].then))
    /\ UNCHANGED <<faults, market, pages, quotes, rates, weights, listed, files, dumps>>

-----------------------------------------------------------------------------
(* backupDatabase *)

BackupStart(g, path) ==
    /\ go[g].job = "backup" /\ go[g].step = "start"
    /\ IF path
       THEN SetJobStatus("backup", "running") /\ Goto(g, [go[g] EXCEPT !.step = "dump"])
       ELSE SetJobStatus("backup", "error") /\ Goto(g, GoOn(go[g].then))
    /\ UNCHANGED <<faults, market, pages, quotes, rates, weights, listed, files, dumps>>

(* The shell reports the last command of the pipe: when pg_dump fails the  *)
(* file is empty and the job goes on.  The file is that of the day the     *)
(* backup began; it is replaced.                                           *)
BackupDump(g) ==
    /\ go[g].job = "backup" /\ go[g].step = "dump"
    /\ \E full \in BOOLEAN :
        /\ Failing(IF full THEN 0 ELSE 1)
        /\ files' = {f \in files : f.day # go[g].day} \cup {[day |-> go[g].day, full |-> full]}
        /\ dumps' = IF full THEN dumps \cup {go[g].day} ELSE dumps
        /\ \/ SetJobStatus("backup", "ok") /\ Goto(g, [go[g] EXCEPT !.step = "retention"])
           \/ /\ ~full /\ SetJobStatus("backup", "error") /\ Goto(g, GoOn(go[g].then))
    /\ UNCHANGED <<market, pages, quotes, rates, weights, listed>>

(* Mutant: the cutoff of the daily files is a day early. *)
ExpiredEarly(f) ==
    /\ f.day <= day - DailyKeep + 1
    /\ ~(DayOfMonth(f.day) = 1 /\ f.day + DaysPerYear > day)

(* The file's date is midnight and the cutoffs are at the time of the job: *)
(* the thirtieth day and the same day a year ago are past them.            *)
Expired(f) ==
    /\ f.day <= day - DailyKeep
    /\ ~(DayOfMonth(f.day) = 1 /\ f.day + DaysPerYear > day)

EnforceBackupRetention(g) ==
    /\ go[g].job = "backup" /\ go[g].step = "retention"
    /\ \/ files' = {f \in files : ~Expired(f)} /\ UNCHANGED faults
       \/ UNCHANGED files /\ Failing(1)
    /\ Goto(g, GoOn(go[g].then))
    /\ UNCHANGED <<status, market, pages, quotes, rates, weights, listed, dumps>>

-----------------------------------------------------------------------------
(* Outside *)

MarketMoves(page) ==
    /\ market' = market + 1
    /\ pages' = page
    /\ UNCHANGED <<faults, status, go, quotes, rates, weights, listed, files, dumps>>

GoroutineStep(g, symbols, path) ==
    \/ PricesStart(g) \/ PricesList(g, symbols)
    \/ \E s \in Symbol : PricesFetch(g, s) \/ UpsertMarketData(g, s)
    \/ PricesDone(g) \/ NetWorthRun(g) \/ FXStart(g) \/ FXFetch(g)
    \/ EtfStart(g) \/ \E e \in Etf : EtfWeights(g, e)
    \/ EtfPage(g) \/ EtfDone(g)
    \/ BackupStart(g, path) \/ BackupDump(g) \/ EnforceBackupRetention(g)
=============================================================================
