# Wealth: models, checks and proofs

Wealth is a self-hosted net worth tracker: a Go server (`src/cmd/server`,
`src/internal`) with a PostgreSQL database (`src/migrations`), a cron scheduler
inside the same process, and a React client. Users upload CSV exports of their
banks and brokers; the server deduplicates the transactions, fetches prices and
exchange rates, keeps a daily history of the net worth, writes monthly and
annual reports, sends digests and reminders, and answers questions about taxes
and allocation.

This directory holds TLA+ models of the parts of the server in which several
goroutines, crashes or long sequences of calls matter, the TLC configurations
that check them, and TLAPS proofs about them. `PROJECT.json` lists the runs,
the lines of source each definition stands for, the hazards and the theorems.

## 1. The system

### Components, their state and their operations

| Component | State | Operations | Where |
|---|---|---|---|
| CSV import | `transactions`, `rsu_vests`, `securities`, `import_history`; per request the claimed rows | `HandleImport`: find the account, parse, insert or adopt each row, replace the RSU schedule, log, refresh the view, start a replay | `handler/import.go`, `parser/` |
| Accounts and settings | `accounts`, `financial_goals`, `notification_channels` | create, rename, delete an account; set a symbol; goals; channels; export | `handler/settings.go` |
| Holdings view | materialized view `current_holdings` | refreshed by imports, deletions and price jobs | `migrations/002`, `023` |
| Market data | `market_data`, `exchange_rates`, ETF holdings | intraday, daily, weekly jobs; one-time history backfills | `scheduler/jobs.go`, `market/` |
| Net worth history | `net_worth_snapshots` (one row a day), `backfill_jobs` | live snapshot of today; replay of the transaction log; initial fetch of a start | `scheduler/jobs.go:206-311, 762-1269` |
| Reports and digests | `wealth_reports`, sent messages | monthly and annual cron jobs, backfill at start, `POST /api/reports` | `scheduler/jobs.go:1471-1663`, `handler/reports.go` |
| Alerts and reminders | `price_alerts`, `notifications` | daily evaluation, tax calendar, tax-loss hints, deposit insurance, data health | `scheduler/jobs.go:1297-1949`, `scheduler/dispatch.go` |
| Backups | files under `BACKUP_PATH` | nightly dump, retention | `scheduler/jobs.go:627-723` |
| Access | `users`, `webauthn_credentials`; in memory: limiter buckets, passkey ceremonies | sign in and out, TOTP, passkeys, user management, rate limits | `auth/`, `handler/auth.go`, `users.go`, `webauthn.go`, `ratelimit.go` |
| Tax | none: functions of the transaction log | FIFO lots, sale simulation, loss pots, yearly summary, form KAP, Vorabpauschale, exemption orders | `analytics/tax.go`, `handler/analysis.go` |
| Allocation | `target_allocations` | set the targets, show the drift, advise trades | `handler/portfolio.go` |
| Statements | none: a file becomes rows | the parsers of eight banks and brokers; categories of the cash flow page | `parser/`, `cashflow/`, `handler/cashflow.go` |
| Analytics and dashboards | none | contributions, returns, waterfall and time machine over one log, pairing of in-kind moves; risk, currency, decomposition; about 9000 lines of read-only handlers | `analytics/`, `handler/portfolio.go`, `handler/analysis.go` |

### How they interact

Everything shares one database and no handler or job opens a transaction: each
query commits by itself. Three kinds of actors run it: HTTP handlers (one
goroutine a request, its context cancelled after 60 s by `middleware.Timeout`,
`cmd/server/main.go:113`), cron jobs (a goroutine each, under a timeout of
their own) and the initial fetch a start launches. An import ends by starting
a net worth replay in a goroutine nobody waits for; a price job ends by
refreshing the holdings view and taking a snapshot; a start replays, then
backfills reports from the snapshots. Nothing but the tables survives a
restart, and the container is restarted whenever it ends
(`docker-compose.yml`, `restart: unless-stopped`).

### What is hard about it

- **Check, then act, without a transaction.** Look up a hash, list similar
  rows, adopt or insert (import); look whether a report exists, compute it,
  insert it (three different actors); read the log, then the prices, then
  write one day after the other (replay).
- **Order and repetition.** Exports overlap, are partial, are uploaded again
  and by two importer releases whose hashes differ.
- **Crashes and missed times.** Cron does not catch up; a start must.
- **Partial failure.** Most errors are logged and the handler goes on.
- **Boundaries of time.** Months, years, midnight, and two time zones: the
  days of the replay are local, the dates of the database UTC.
- **Hand-written algorithms.** Binary searches, FIFO queues, greedy pairing.

### What makes each component correct

Import: nothing is imported twice, nothing acknowledged is lost, a row never
carries another transaction's identity, vests link to the right row, the schedule
of vests is one schedule, the view shows the rows. Reports: every month has its
report, of the whole month, though the process may be down on the first, and its
digest, once. History: a replay leaves the history of the log, no day counts
what was neither dated nor there by then, a backfill cut short is taken up
again. Replay: it computes what the SQL of the live snapshot computes, values a
day at the latest price on or before it, keeps shares in transit. Tax: lots
leave first in, first out, a simulated sale gives up the shares, at the costs,
that a sale by quantity takes off the queue, a loss is carried until it is used,
once and in its own pot, and the answers computed by separate walks do not
contradict each other. Access: the limiters admit exactly their quota, failed
sign-ins are bounded though they are counted late, a second factor that is asked
for is one its user has, a passkey ceremony is answered once. Scheduler: what is
due is told in the end and not told again without a reason, a status says
"running" of what runs, a good backup is never thrown away for a bad one. Dashboards: what one handler calls
contributed, earned or lost is what the others call so, the market return hides
nothing, advice spends the deposit and no more than rounding adds. Statements: the books say what the bank says. Section 3
says where the code does and where it does not do so.

## 2. The modules

| Module | Models | Proofs |
|---|---|---|
| `Import` | imports into an account, its deletion, the holdings view | `ImportProofs` |
| `NetWorth` | the goroutines that write the net worth history, backfill jobs, crashes | `NetWorthProofs` |
| `Replay` | one run of the replay, step by step | `ReplayProofs` |
| `Reports` | cron jobs, start-up backfill and requests that write reports and send digests | `ReportsProofs` |
| `Tax` | the walks over the log behind the tax answers | `TaxProofs` |
| `Quota` | what the limiters promise: the abstract specification | – |
| `Limits` | the limiters as they are kept in memory; implements `Quota` | `AccessProofs` |
| `Users`, `Passkeys` | users, second factors, owners, accounts and goals; passkey ceremonies | with `Access` |
| `Access` | requests through middlewares and sign-in: composes `Limits`, `Users`, `Passkeys` | `AccessProofs` |
| `Cron` | the clock and the table of `Scheduler.Start` | with `Scheduler` |
| `Notices`, `Jobs` | notifications, alerts, reminders, channels; price, rate and ETF updates, backups, statuses | with `Scheduler` |
| `Scheduler` | the scheduler as one process: composes `Cron`, `Notices`, `Jobs` | `SchedulerProofs` |
| `Ledger` | the transactions, and the sums SQL takes over them | – |
| `Attribution`, `Allocation`, `Statements` | five handlers that say where the money came from; targets and advice; the parsers and the cash flow page | – |
| `Portfolio` | all of it over one ledger: composes `Attribution`, `Allocation`, `Statements` | – |
| `Totals` | nothing: facts about sums over finite sets, for `ReplayProofs` and `TaxProofs` | its own |
| `MCImport`, `MCNetWorth`, `MCReplay`, `MCReports`, `MCTax`, `MCAccess`, `MCScheduler`, `MCPortfolio` | small instances for TLC | – |

`Import` and `NetWorth` meet at the transaction log: the last step of an
import there is the `Import` action here, which adds rows and starts a
replay. `NetWorth` takes what a replay writes on a day to be a function of the
log and market data it read (`ValueAt`); `Replay` is about that function.
`Reports` takes of the history only how many snapshots each month has.
`Statements` ends where `Import` begins, with a row for each line of a file.
`Access` carries a request as far as a handler other modules are about
(`HandleElsewhere`).

The composed models choose a *workload* in `Init`: which requests, jobs and
faults there are and how many of each, so that one run asks several questions
and each of them stays small.

### Import

Each query of `HandleImport` and `HandleDeleteAccount` is an action; a request
is a record of its phase, the file, the cursor in it, the rows it has claimed
and the candidate it holds across two queries. A CSV row is abstracted to its
hash under the previous and the present importer release, its type under each,
and its remaining content as one key (`Txn`). Import hashes embed the account,
and every query is restricted to one, so one account is enough. Rows get an
id from a bounded set that is never reused. The initial database is whatever
the previous release may have left (`LegacyRow`).

The failing variants of a query (`SecurityFails`, `ListFails`, `AdoptFails`,
...) do what the code's error path does: some answer 500, most log and go on.
`TimeOut` is the end of the request's context, after 60 s or when the client is
gone: the handler goes on, every query it still makes fails, and what it answers
depends on whether a security is still to be looked up (500) or not (200, the
rows counted as skipped); as the database no longer changes, one step stands for
the rest of the request. `Crash` ends the process and all requests. `Clash` and
`VestRefsExist` are the constraints the database enforces, `TxnsReferenced`
and `AccountReferenced` those that stop a deletion half way; a financial goal,
which may name the account as its funding (`GoalFunds`), is the other.

### NetWorth

A net worth is abstracted to what it was computed from: the transactions in
its cash, those in its holdings and the sources of market data that had a
history. `ReplayRead`, `ReplayLoad` and `ReplayDay` are the three points at
which a replay looks at or changes the database; `LiveCash` (an account's
balance a query, one that fails left out), `LiveHoldings`, `LiveDate` and
`LiveStore` those of the live snapshot, with midnight (`NextDay`) possible
between any two. It takes cash from the transactions and holdings from the
materialized `view`, which an import has not refreshed yet or could not refresh.
An import adds rows of whatever days, later ones too (`Import`), and refreshes
the view and starts its replay when it ends (`ImportEnds`), unless a security
cannot be created (`ImportFails`). `arrived` remembers when a transaction came,
for what a day may count (`Known`). `BootCheck` to `BootComplete` run the three backfills of a
start as `backfill_jobs` says. `Beginnings` are the states it may start in: a
new installation or one whose backfills are done, with how many requests,
crashes and snapshots there are (`Bounds`). `settled` is a ghost: the last day of a history
written by a replay that nothing overlapped and whose inputs have not changed
since.

### Replay

The transactions are applied one by one (`ApplyEvent`), and each pass of a
binary search is a step (`Probe`). The order of the log within a day, the
order in which holdings are valued and the transfer a Go map yields first are
all nondeterministic. Positions in a history count from 1, and `None` is the
code's "not found". `Zones` says which time zones there are and `east` which one
the program runs in: it decides how midnight UTC and local midnight compare
(`IsAfter`).

### Reports

Time is the number of the month. `Cron` fires the monthly job on the first and
the annual one in January, and passes unused when the process is down. The
job, the start-up backfill and the requests each take the steps check and
insert, so that any two of them interleave in between; an error of the check
reads as "no report", as it does in the code.

### Tax

`ComputeTaxLots`, `ComputeLossPots`, `ComputeTaxSummary`, `HandleAnlageKAP` and
`HandleLossPots` each walk the whole log in a request of their own and keep
nothing. `Tax` feeds one transaction at a time to all of them (`Acquire`,
`Sell`, `TransferOut`, `Income`), so that their answers can be compared; only
the FIFO loop takes steps of its own (`ConsumeLot`, `EndSale`). `CloseYear` is
the carry-forward. `SimulateSell` is a function of a queue; the sale a walk books is at the average
cost of the position and not at the queue's, so that a simulated gain is not the
gain that will be booked when lots have different prices.

Every walk has positions at average cost and each treats them a little
differently, which the model keeps: `tax.go` deletes a position that reaches
zero or less (`Settled`), the form and the walk per account keep it; the form
ignores the years after the one asked for; the walk per account passes over a
sale of an earlier year before it takes the shares off (`analysis.go:2622`);
the summary leaves out interest and takes the exempt part of a fund's dividends
off twice (`SummaryTaxable`); and only the loss pots take 30 % off a fund's
losses. `WalksAgree` therefore speaks of logs that never sell what is not held
(`NeverShort`), and `AccountsAddUp` also asks that nothing was sold before the
year (`NoEarlierSale`): without either the answers do differ.

The saver's allowance is walked per account by `HandleFSAStatus`, which doubles
it for `?joint=1`, and once more by `remainingFSA`, which does not;
`BalanceMirroredThisYear` compares what they leave of it, for one taxpayer and
for a couple.

Amounts are integers that the shares divide, so averages are exact, and
taxable amounts are counted in tenths. The code rounds a lot to cents; a lot
worth 0.00 makes `SimulateSell` divide 0 by 0, which the model does not have
(see the hazard at `tax.go:296`).

### Access

`Limits` has the limiters as the code keeps them: a bucket is filled by the
first request after its window (`Fresh`) and thrown away by a goroutine after
two windows (`Cleanup`); failures are pruned when the next sign-in asks
(`LoginAllow`), and recorded long after (`RecordFailure`). `Quota` is the same
without any of this, closing windows and forgetting failures as the clock
ticks; `QuotaKept` is the refinement, in which a window is open until its time
has come and "used" is what is missing from the bucket.

`Users` takes one step for each query that another request may come between:
the toggle of a user reads the row and writes it back, as `HandleUpdateAccount`
does with all columns, and the verification of a second factor compares with
the secret it read and enables whatever secret is there by then
(`VerifyTOTPRead`, `VerifyTOTPWrite`). The ghosts are `confirmed`, the secrets
a code was given for, and `disturbed`, the users whose set-up was repeated or
overlapped. Accounts and goals have owners, which the start assigns table by
table (`BootAssign`).

`Passkeys` keeps a ceremony for each key until somebody takes it. Sign-ins
without a name share one key. The answer to a named sign-in is tried against
the ceremonies of all users in the order of a Go map, and the first check
empties the request's body (`CheckNamed`). `finished` counts the successes of
each challenge. Public routes pass no limiter but that of the sign-in, others
the session check, then `api`, then `upload` or `report` (`Arrive`, `Limited`).

### Scheduler

`Cron` is a clock of days and of the hours at which something may be due;
`Table` is the schedule. `Notices` compiles a job's messages from what is due
and what the latest 100, 50 or 20 notifications say was told (`Compile`), then
stores and sends them one after the other (`InsertNotification`,
`DispatchMessage`), each of which may fail alone. The table is a set of rows
in the order of their serials (`triggered_at`), of which a job reads the latest. A topic is what the job looks
for in a message; the names of banks are compared by prefix, as in the code
(`HasPrefix`). `Jobs` takes the fetch of each symbol and each upsert as a step; a price is
the version of the market it was taken at. The backup's shell pipe answers
with the status of its last command, so that a failed dump is an empty file
and an "ok" (`BackupDump`); the file is that of the day the backup began, and
a crash leaves it incomplete. A slot (`Fire`) begins its jobs beside whatever
is at work: updates users asked for, the first fetches, jobs of the slot before.
It waits for one thing, the notification job cron began before, whose context
ends after a minute at most. `Goroutine` bounds how many data jobs run at once;
they are interchangeable (symmetry `Swap`).

### Portfolio

`Ledger` is one table of transactions in the order the queries list it, with
whole amounts in EUR, and the sums of `GetCashBalance` and `current_holdings`.
`Attribution` has the handlers' walks as functions of it: `Bars` and `Series`
of the waterfall, `Since` of the time machine, `Performance` and its `Periods`,
`History`, and the pairing of in-kind moves, which goes through the outgoing
transfers one by one (`PairLeg`). The returns are those of the last `Year` days
and of the newest `MaxSnapshots` snapshots. The waterfall's costs count the
columns fee and tax of every row. `Allocation` writes targets row by row while
a request for advice reads holdings first and targets later, so advice may be
made of half a list. Its amounts are in cents and rounded where the code rounds
them: whole shares of what has a price, the nearest cent of what has none, and a
target not yet held has none. `Statements` gives each line of a bank's file what the
bank says it did (`signed`, `moved`) beside the row the parser makes of it.

## 3. The runs

| Run | Asks | Instance |
|---|---|---|
| `import_dedup` | deduplication under two concurrent imports | 3 transactions (two identical sales with new hashes, one with a new type), 2 files covering whole days with the sales in either order, 2 importers, 4 imports, 4 ids, any legacy database |
| `import_faults` | integrity under every fault and a concurrent deletion; the view catches up whatever failed | 2 securities, a linked vest and a grant, 2 importers, all 10 faults, a goal that may stop the deletion half way, 3 ids |
| `import_v_schedule` | *violated:* "so the schedule is always fresh" | 2 uploads of one grant each, at a time |
| `networth` | the history after crashes, midnights, failures and users' requests; backfills are completed | 2 accounts, 4 days, 2 goroutines, failing fetches, refreshes, balances and upserts; two beginnings: the first starts with a crash and a request, and a later day with a snapshot of today and two requests, midnight between any two steps |
| `replay` | the replay's cash and holdings, and the price and rate it finds for a day, at UTC, west and east of it | all logs of 1-3 share movements of one security, of any two payments, and all price and rate histories of 4 days |
| `replay_v_east` | *violated:* "on or before the given date" | the same, east of UTC |
| `reports_months` | reports and digests; every month gets its report | 3 workloads: 3 months with a restart at any point; a request; 2 months with a restart and every fault |
| `tax_logs` | what the walks over one log promise each other | all logs of up to 4 of 13 transactions over 3 years, a fund and a stock, 2 accounts, two sales in a row, oversold positions |
| `access` | limits, second factors, passkeys; `Limits` implements `Quota` | 6 workloads of 2 requests at a time, 4-6 in all: sign-ins, limited routes with a restart, second factors of 2 users, administration, owners with a restart at the first start, 3 ceremonies of 2 users |
| `scheduler` | reminders, messages, statuses, backups | 10 workloads: the calendar over two turns of a month, two banks one of whose names begins with the other, alerts beside cron, channels, overlapping price updates, no symbols, first fetches, a year of backups, and none |
| `portfolio` | five handlers tell one story; advice; statements | workloads over 6 days: in-kind moves; every type of row around a move; trading with charges; every file of 1-2 (Scalable: 3) lines of four banks and a savings vault; sorting; advice for portfolios held and not yet held and two rounds of targets |
| `portfolio_v_net` | *violated:* "Net // Income - Fixed - Variable" | one statement of N26 |

**Why the bounds are enough.** Deduplication compares a row with the others of
its content and with the batch; two rows of one content, one of another, and
two importers give every combination of "mine, the batch's, the other
import's, an older release's". Three imports let a file be repeated around
another one. The faults run has one linked vest because links are independent
of each other. One replay can be overtaken only by one that started later, so
two user goroutines and two transactions give the overlap, and a boot worker
and one user worker the rest. Four days hold a first, a middle and a last day,
a transfer that is in transit over a day and one that arrives too late
(`TransitDays` is 2 for the code's 7), and histories of 0 to 4 points, where a
search takes up to three passes. Years of two months and quarters of two in
`Reports` put a January, a quarter's first month and an ordinary month next to
each other; the code uses 12 and 3 only in `YearOf`, `IsJanuary` and
`IsQuarterStart`. In `Scheduler` a month has 4 days and a year 3 months, so
that a reminder's window of 2 days crosses a month and a backup outlives both
the daily and the monthly retention; lists of 1 or 2 notifications stand for
those of 20 to 100, since what matters is whether the earlier one is still in
it. In `Access` two requests at a time are enough for each check to be
overtaken by one write, and two users for a ceremony to be checked against
another's. In `Portfolio` six days are three months of two; a move may take
2 days (the code: 5), so that the days of the workload lie within, on and
beyond the window. In `Tax` four transactions are two lots and two sales, or a
lot, a sale, another lot and another sale; three years put a year before and
one after the one asked for, so that a loss passes over a year. Every bound is a constant (`MaxImports`,
`Beginnings`, `MaxRequests`, `LastDay`, `LastMonth`, `MaxLog`, `LastYear`,
`LastTime`, `MaxUsers`, `MaxSecrets`, `MaxCeremonies`, `MaxSets`, `Faults`) or a field of a
workload.

**What may stop.** Users need not do anything and the bounds run out, so the
runs do not check for deadlock; that work in progress is finished is stated as
liveness instead (`ViewCatchesUp`, `BackfillsComplete`, `EveryMonthReported`).

**Fairness.** Weak fairness on the steps of a goroutine that is running:
Go schedules it and its queries return or time out. Weak fairness on the
cron times (`ScheduledRefresh`, `Cron`, `NewMonth`): time passes. Weak
fairness on `Start`: the container is restarted. None on what a user does, on
crashes, or on one outcome of a step rather than another: a fault may happen
every time, and liveness is claimed only where the code survives that.

### What the violated runs show

1. **A schedule of two files** (`import_v_schedule`). An upload clears the vests
   to come and inserts its own in separate statements (`handler/import.go:333`):
   two at a time may both clear first, and the schedule holds the grants of both.
   `ScheduleFresh` holds of one import at a time, which is proved.
2. **Valued a day late** (`replay_v_east`). Midnight local time is compared with
   midnight UTC (`scheduler/jobs.go:1022`), so that in Berlin the day's own price
   counts as later than the day. `ValuedAtLatest` says what is found instead, in
   either kind of zone.
3. **What is spent is added to the net** (`portfolio_v_net`). `HandleCashflow`
   takes spend to be negative (`handler/cashflow.go:123`), the parsers store a
   withdrawal as a positive amount (`parser/n26.go:86`, `parser/sparkasse.go:97`),
   so "Income - Fixed - Variable" grows with every payment.

### What the properties had to leave out

Where the code, a comment and a document disagree, or where a figure is wrong
for some inputs, a property of a passing run says what does hold. No property
excludes what follows; what is an order of steps the models have all the same:

- *Import.* With two exports that split a day, the second finds the first
  one's identical sale, whose hash is not in its batch, relabels it and never
  inserts its own, though adopted rows are said to be "by an older version"
  (`handler/import.go:140`, `:270`); `NoLoss` is about files of whole days. The
  hash leaves out type and sign (`parser/parser.go:246`), so a payment and its
  refund with the same counterparty on one day are one row. A request out of
  time answers 200 with rows counted as skipped that are not there
  (`handler/import.go:283`, `ARCHITECTURE.md:1029`); `NoLoss` takes 200 for a promise
  and leaves timeouts out.
- *History.* Every import starts a replay beside those at work
  (`handler/import.go:169`), each with the log it has read: the slower one may
  leave its days without the later import until another replay starts, so
  `SettledExact` is about a replay nothing overlaps. It is about the days from
  the first transaction on, because a replay begins at the first one left and
  nothing removes the days before it, those of a deleted account
  (`scheduler/jobs.go:1154`). Today's snapshot may count an import in its cash
  and not yet in its holdings; a replay of the day repairs it.
- *Reports.* If a start has stored the month's report, the monthly job returns
  before it dispatches the digest (`scheduler/jobs.go:1482`), and nobody sends
  it; `DigestHasReport` says only that none is sent twice or without a report. A
  request may report a month that is not over (`handler/reports.go:118`), which
  keeps the job from making the whole one: `ScheduledAfterPeriod` is about jobs
  and backfill.
- *Market data.* Both updates of 18:30, the first fetches and what users ask for
  fetch all prices and then store them (`scheduler/jobs.go:485`): the one that
  asked first may store last, and the snapshot is taken of its prices. No
  property is about whose answer stays.
- *Reminders.* The window of 14 days is taken within the year, so a date in
  early January is never announced in December (`scheduler/jobs.go:1756`). The
  tax-loss hint looks for an alert type no notification has and repeats. Marking
  as read marks rows the user has never seen.
- *Access.* A set-up between the check of a code and the write that enables the
  second factor has a secret enabled that nobody confirmed
  (`handler/users.go:283`), and one repeated while the second factor is on replaces
  the secret in use before a code was given for the new one: `SecondFactorUsable`
  leaves out users to whom either happened (`disturbed`). Limiters are keyed by address and port (`README.md:160` says per
  IP). `HandleCreateAccount` sets no owner, and `userAccountIDs` filters by owner only
  for users who own something (`handler/common.go:60`). The installation's
  password signs in as whoever is listed first (`ARCHITECTURE.md:726`).
- *Tax.* The summary takes the exempt 30 % of a fund's dividends off the dividends
  and once more off the total (`analytics/tax.go:638-642`); form and pots do so
  once. `WalksAgree` says by how much its taxable gain differs from theirs.
  `remainingFSA` is to mirror the status page (`handler/portfolio.go:4511`) but
  knows no joint allowance and does not keep, as that page does, the shares sold
  in earlier years in the average cost (`handler/analysis.go:2757`):
  `BalanceMirroredThisYear` asks that nothing was sold before the year and allows
  a couple up to one allowance more.
- *Allocation.* The sum of 100 is checked of a request, not of what is stored.
  Each amount for what has no price is rounded to the cent, so that the trades
  for a deposit of EUR 100 may add up to 100.02; `AdviceFits` allows half a cent
  a trade. The threshold below which a deposit buys nothing is EUR 1 and is tested
  before whole shares are cut (`handler/portfolio.go:1564`), so the advice may
  name no share at all.
- *Dashboards.* `PairsSettled` counts what is washed by day, type and quantity;
  of two arrivals of a day the one listed first is washed, and handlers list a
  day in opposite orders (`analytics/inkind.go:83`), so with different amounts,
  which the workloads leave out, contributions differ. Flows on days without a
  snapshot count as return. Income of months without a snapshot drops out of the
  monthly series. Fees and taxes in
  columns of their own are no part of the balance and raise the market return.
- *Parsers.* `BooksAreBanks` leaves out lines that are misread: Sparkasse's charges,
  which keep their sign and raise the balance (`parser/sparkasse.go:97`: only
  withdrawals are made positive), and its book transfers; Revolut's separate charge, its negative interest
  and Scalable's tax refunds are misread; a dividend on the day of a real
  transfer is taken for a close-out (`Misread`, `Mistaken`).

## 4. The proofs

TLC shows the properties on the instances above; TLAPS proves these for all
values of the constants that satisfy the module's named assumption.

| Theorem | States | By |
|---|---|---|
| `ImportProofs!TypeCorrect` | `Spec => []TypeOK` | `TypeInv == TypeOK /\ CursorOK` |
| `ImportProofs!ContentSafe` | `Spec => []HashMatchesContent` | `ContentInv`: besides the property, the candidate an import holds had, or has no longer, the content of the import's row |
| `ImportProofs!LinksSafe` | `Spec => []VestLinksSibling`, if hashes tell contents apart | `LinkInv == ContentInv /\ VestLinksSibling`: a candidate held between two queries still has its sibling's content, or is gone (`PickedOK` in `ContentInv`) |
| `ImportProofs!ImportsNeverDuplicate` | `Spec => []NoDuplicates`, under the conditions below | `OrderInv /\ OwnOK`: every row stands for a known transaction of its own |
| `ImportProofs!ImportsLoseNothing` | `Spec => []NoLoss`, under the conditions below | `OrderInv`, `AckedOK`: what a request has passed is settled, and a settled transaction stays settled |
| `ImportProofs!ScheduleStaysFresh` | `Spec => []ScheduleFresh`, for one import at a time whose vest queries do not fail | `FreshInv`: who refills the schedule has cleared it and inserts its own vests only |
| `NetWorthProofs!NetWorthTypeCorrect` | `Spec => []TypeOK` | `HistoryInv` |
| `NetWorthProofs!HistoryNeverLooksAhead` | `Spec => []NoLookAhead`: no day counts a transaction that was neither dated by then nor in the tables | `HistoryInv`: what replays and the live snapshot hold in memory does not look ahead either, and what log and view hold has arrived |
| `NetWorthProofs!UndisturbedReplayRepairs` | `Spec => []SettledExact` | `HistoryInv /\ SettledInv`: a replay that is alone holds what the tables say and has written the days before its own |
| `ReplayProofs!ValuesSafe` | `Spec => []ValuedAtLatest`: the latest price on or before the day, east of UTC the latest before it | `ReplayInv`: the loop invariant of the binary search, for whichever series is searched, and what `IsAfter` says in each kind of zone |
| `ReplayProofs!CashAgrees` | `Spec => []CashIsBalance` | `CashInv`: the cash is the sum of what has been applied (`CashOK`), which is the log up to the day (`CursorOK`) |
| `ReplayProofs!HoldingsAgree` | `Spec => []HoldingsPersist`, whose conditions are in the property | `HoldInv`: a holding is what the applied events say and what is in transit (`HoldOK`) |
| `ReportsProofs!DigestsSafe` | `Spec => []DigestHasReport` | `ReportsInv` |
| `ReportsProofs!BackfillsLeaveNoGap` | `Spec => []NoGapAfterStart` | `ReportsInv`: each month of the backfill has its report or is still ahead of its cursor (`BootOK`) |
| `ReportsProofs!ReportsWaitForPeriod` | `Spec => ScheduledAfterPeriod`, an action property | `ReportsInv`: what job and backfill hold is about a period that is over |
| `ReportsProofs!OnlyRacersAdd` | `Spec => OnlyRacersRepeat`, an action property | `ReportsInv` for the types; nobody goes on from a check that found a report |
| `AccessProofs!LimitsTypes` | the types of the limiters | `LimitsInv` |
| `AccessProofs!LimitersKeepQuota` | `LimitsSpec => QuotaKept`: `Limits` implements `Quota` | `LimitsInv`: a bucket in use holds fewer tokens than the rate and was filled in the past |
| `AccessProofs!AccessTypeCorrect` | `Spec => []TypeOK` | `AccessInv` |
| `AccessProofs!FailuresBounded` | `Spec => []AttemptsBounded` | `AttemptsInv`: the property, which counts the sign-ins under way with the failures, and that a client's failures are finitely many |
| `AccessProofs!SecondFactorConfirmed` | `Spec => []SecondFactorUsable` | `SecretsInv`: the secret of a user whose second factor is about to be switched on is confirmed already, unless the user is disturbed |
| `AccessProofs!CeremoniesAnsweredOnce` | `Spec => []AnsweredOnce` | `CeremoniesInv`: a challenge is in the map, or with the one request that took it, or spent |
| `AccessProofs!RefusalsShared` | `Spec => RefusedOnlyIfShared`, an action property | `AccessInv` |
| `AccessProofs!AccessKeepsQuota` | `Spec => QuotaKept`: the composition implements `Quota` | `AccessInv` and the steps of the limiters |
| `SchedulerProofs!SchedulerTypeCorrect` | `Spec => []TypeOK` | `SchedulerInv` |
| `SchedulerProofs!RepetitionsExplained` | `Spec => []RepeatsExplained` | `FreshOK`: what a worker has yet to store is on no row it could have seen |
| `SchedulerProofs!CalendarComplete` | `Spec => []DueStored` | `CalendarOK`: an event that is due has been told, was lost today, or is on the list of the calendar job |
| `SchedulerProofs!SilencesExplained` | `Spec => []SilenceExplained` | `SilenceOK`: there is a set of lost rows that failures and crashes pay for, and a row that each worker is about to send |
| `SchedulerProofs!StatusesTrue` | `Spec => []RunningRuns` | `RunsOK`, `EvaluatingOK`: who says "running" has got past the start |
| `SchedulerProofs!BackupsKept` | `Spec => []DumpsKept` | `DumpingOK`: one goroutine writes the dump of a day, begun at two o'clock |
| `TaxProofs!TaxTypeCorrect` | `Spec => []TypeOK`, which includes that no empty lot stays in a queue | `LotInv` |
| `TaxProofs!LotsSafe` | `Spec => []LotsAreNewest`: first in, first out, for every log | `LotInv == TypeOK /\ LotsAreNewest` |
| `TaxProofs!QueueSafe` | `Spec => []LotsMatchPosition`, for every log | `QueueInv`: a position is its queue without what the running sale has still to take |
| `TaxProofs!SimulationSafe` | `Spec => []SimulationAgrees`: shares and costs, not booked gains, if `SharesDivide` | `LotInv` and `LogDivides`: the shares of every purchase in the log divide what they cost |
| `TaxProofs!CarrySafe` | `Spec => []CarryIsWorstRun` | `CarryInv`: the carry is a run's result or nothing, and none is worse |
| `TaxProofs!MirrorSafe` | `Spec => []BalanceMirroredThisYear`, for one taxpayer and for a couple | `MirrorInv`: both walks are at the same average costs until the year is over |
| `TaxProofs!WalksSafe` | `Spec /\ [][ExactOut]_vars => []WalksAgree` | `HeldOK`: a position never short is the log's sum; `WalkOK`: the form is at the costs of the pots, and the sums agree |
| `TaxProofs!AccountsSafe` | `Spec /\ [][ExactOut]_vars => []AccountsAddUp` | `HeldOK` and `AccountsOK`: the accounts' walk is at the costs of the pots, and its pots add up |

**Why the properties are not inductive.** `HashMatchesContent` says nothing of
a request between listing and updating; a state in which it holds a candidate
of other content would break it in one step. `CursorOK` adds that in every
phase the cursor lies in the part of the file the phase is about, without
which `CurTxn(p)` is no transaction and the tables' types are lost.

Deduplication is about what a request has read and no longer sees. A
transaction is `Settled` when its row is there or, where rows may be skipped or
deleted, when no row is left that it could adopt (`Clean`; an old hash never
comes back). `PassedOK`: what a request has passed is settled. `AdoptOK`: the
row a request has picked and not yet updated still bears an old hash, or the
hash of the request's own transaction, or that transaction is settled by now, so
that relabelling takes a row from nobody who needs it. This is where two
requests meet: if they are at transactions of one content, one has passed what
the other is about (`OnePassed`, from the order of the files). `NoDuplicates`
is a comparison of cardinalities, and `OwnOK` gives it an injection: `g` maps
rows to known transactions, of the row's content, and keeps apart what may adopt
each other's rows. An insertion comes when nothing is left to adopt, so that
each row of the kind bears a new hash; `g` is then changed to map those rows to
the transactions their hashes belong to, and the new row to its own.
`ReplayInv` says where a search stands: everything before `lo` may be used,
everything after `hi` may not, and `result` is `lo - 1`. `AfterUp` and
`NotAfterDown` turn the order of the history into that of the answers, and
`Middle` bounds the midpoint. `LotsAreNewest` is inductive with the types: it
describes a queue index by index (its lots ascend, miss no later purchase, and
all but the first are whole) and not by a sum, so that a new lot
(`NewestAppend`), a lot used up (`NewestTail`) and one used in part
(`NewestPart`) each keep it by cases on the index.

**Sums without induction.** `Totals` proves what is needed of a sum over a
finite set by a smallest counterexample: among the sets that break a fact one
has no proper subset that does (`SmallestSet`, from the least cardinality), and
taking an element off it gives the contradiction. `TotalStep` and `TotalChange`
then say what one more element, or one other value, does to a sum.
`CashIsBalance` holds at the end of a day only; `CashOK` is about the cursor in
the log, and as the log ascends the cursor is at the end of the day when prices
are looked up. `HoldOK` adds to the applied events the transfers whose one end
is before the cursor and the other after it (`Away`): both ends are dropped from
the log, so between them the view knows fewer shares than the replay, and with
the second both are equal again.

The sale of a position is one subtraction and that of a queue takes several
steps; `QueueOK` says that what is left once the sale is taken off is what
the position holds, and nothing if more was sold than held. `CarryOK` is about
all runs of years that end in the last one: the results of one more year are
added to each of them, and a run of that year alone begins. `WalksAgree` and
`AccountsAddUp` follow from positions rather than sums: as long as two walks
have the same average costs each transaction adds the same to both. What the
walks do differently is harmless under the conditions of the properties only
(a position is deleted or kept, an early sale is passed over), and for that
`HeldOK` ties positions to the log: shares held by the log are in the position.
`SimulationAgrees` compares two folds. `SimulateIs` and `SharesJoin` unfold them
into what one more lot adds, and `SimulatedIs` goes through the queue: after m
lots the simulator has taken the first `UpTo(queue, m)` shares, or all it wants
(`LotStep` is the arithmetic, by value and by quantity).

The history is written by goroutines that read first. `HistoryInv` therefore
bounds what they carry: the log a replay has read ends today (`ReplayOK`), the
live snapshot holds nothing that was not there by its date (`LiveOK`), though
midnight may pass in between. For `SettledExact`, `SettledInv` follows the replay nothing overlaps: as
long as it is alone no other goroutine replays, what it read is what the tables
say (`Current`), and the days it has passed are exact (`Written`). A request,
an import or a new day takes it out of `alone`.

In `ReportsInv` the months of a backfill split at its cursor: unless an insert
may fail, each month from its first to its last has a report or is still in
`todo` (`BootOK`). The digest of a month is sent by the job that has just made
sure of its report (`JobOK`), and no action takes a report away (`Grows`).

`AccessInv` joins what each part needs of its own queries. `AttemptsBounded`
is stated so that it carries itself: it counts the failures that are recorded
together with the sign-ins that passed the limiter and have not ended, so a
failure only moves from one side to the other. For the second factor the ghost
`disturbed` grows when a set-up begins again, so a request about to switch it
on does so for a secret that was confirmed, or for a user it no longer matters.
Ceremonies are numbered as they begin (`FutureOK`), so that one taken from the
map comes back neither under its own key nor under another.

`SchedulerInv` is the conjunction of the clock's, the notifications' and the
goroutines' parts. A list compiled at eight is worked off row by row, while the
other worker stores alerts: `FreshOK` says of every message left on it that the
rows of its topic are so many serials behind that the query had not returned them. The
other worker never stores reminders, which is why one list cannot spoil the
other. `SilenceExplained` is about cardinalities, and `SilenceOK` names the sets:
a send that fails moves its row to the lost ones and takes one fault, a crash
moves at most two. A dump is safe from the next of its day because there is none
(`DumpingOK`: the job starts at its hour only, once a day, and no update starts
it), from a crash because the file a crash spoils was not a complete dump yet,
and from the retention by comparing the two cutoffs.

The refinement of `Quota` maps initial states to initial states and each action
to one of `Quota`'s or to a stutter: a tick closes exactly the windows whose
time has come and forgets the failures that are old enough (no matter when the
code will notice), and the clean-up maps to a stutter, because what it throws
away was closed two windows ago. `Access` implements `Quota` because it uses the
limiters by the operations of `Limits` only, and a restart opens every window
in both.

**Assumptions.** Each module names the assumption on its constants, and TLC
evaluates it on every run. All of them give types: `ImportAssumption`,
`ReplayAssumption`, `TaxAssumption`, `NetWorthAssumption`, `ReportsAssumption`,
`LimitsAssumption`, `UsersAssumption`, `PasskeysAssumption`, `AccessAssumption`,
`CronAssumption`, `NoticesAssumption`, `JobsAssumption` and
`SchedulerAssumption`. Beyond types, that of `Replay` says that histories ascend
(a primary key of series and date, read `ORDER BY date`), that of `Tax` that only
income may be of no security and that there are finitely many accounts (rows
of a table, over which pots are summed), that of `NetWorth` that the log a behaviour
starts with is not of the future, that of `Users` that there are finitely many
requests, and those of `Notices` and `Jobs` that events, banks, securities,
alerts, symbols, currencies and constituents are finite sets, since faults are
counted in them. `LinksSafe` has one more, `HashesSeparateContent`: no
two transactions of different content share a hash, which is what SHA-256 over
the content is relied on for.

The theorems about deduplication have `Ordered`. `HashesTellTxns`: a hash is one transaction's. `WholeDays`: a file
has all transactions of a content or none, as exports by day have (section 3
says what happens otherwise). `SameOrder \/ OneAtATime`: two files list equal
transactions in one order, as two exports of a bank do, or requests do not
overlap. If neither holds a request may relabel a row that another has just
adopted, which is harmless as long as that one comes back to it, so
`import_dedup` finds nothing with two uninterrupted imports at a time; with
three at a time, or two one of which is cut short, TLC finds a sale that is
stored twice or lost. `NoDuplicates` also needs that what got a new hash kept its type
(the similarity query compares types) and that listing and updating do not fail
(`Careful`; a failing list is logged and the row inserted, `import.go:267`), and
that there are finitely many transactions; `NoLoss` that nothing is skipped or
deleted and no request runs out of time (`Lossless`). Every other fault, and any number of requests,
repetitions, files, rows and ids, are allowed. `ScheduleStaysFresh` needs
`OneAtATime`, since two requests that both clear and then both insert mix two
schedules, and no failing vest query, since a failed cleanup is only logged.

`WalksSafe` and `AccountsSafe` are about behaviours in which a position that
is sold out, or sent away whole, was at an average cost that is not rounded
(`ExactOut`). This is the abstraction of `Tax` (amounts that the shares divide):
with a remainder one walk would delete it with the position and another keep it.
Every behaviour of `tax_logs` satisfies `ExactOut`, so the theorems cover that
run; the code has fractions of a cent there instead. `SimulationSafe` asks the
same of purchases (`SharesDivide`), as the menu of the run has it. `QueueSafe`,
`CarrySafe` and `MirrorSafe` need neither.

**What stays with TLC.** Liveness under fairness and `ENABLED`. Of the safety
invariants, the five of `Portfolio`: `Washed`, `Bars`, `Series`, `Since` and the
trades are folds over a whole ledger that carry several results, some of them
after a selection or a sort, and what each yields for every ledger takes
induction over sequences. The facts of `Totals` are about one sum and do not
reach that far. The type invariants of `Import`, `NetWorth`, `Access`,
`Scheduler`, `Tax` and `Limits` are theorems; that of `Reports` (`ReportsTypeOK`)
is a part of `ReportsInv`, and `ReplayInv` holds of the types of `Replay` what
its proof needs.

## 5. What is not modelled

- **Text.** Encodings, columns and the detection of a format; the parsers of
  ING, Morgan Stanley and Delta and Revolut's trading export; the table of
  keywords behind a category.
- **Figures.** Cost bases of the replay, converted values, report data, internal
  rates of return, risk, currency and decomposition are floating-point
  arithmetic; models keep what a figure is computed from. Amounts are exact
  integers, rounded only where the code rounds.
- **HTTP clients** of Yahoo, ECB and justETF: fetches that succeed or fail.
- **Other read-only handlers and the client.** They change no state of the server
  but the investment journal's, one row a request.
- **Of taxes**, Vorabpauschale and the rates, fees and rounding. A lot worth
  0.00 after rounding makes `SimulateSell` divide 0 by 0 (`analytics/tax.go:296`).
- **Bounds of queries.** The replay and the handlers ask for the latest 10000
  transactions (`jobs.go:938`) and the backfill of reports for 5000 snapshots;
  models take the whole log. The limit of 1000 snapshots is `MaxSnapshots`.
- Writes to `backfill_jobs` are taken to succeed; their errors are dropped.
- Configuration, migrations and shutdown; cryptography is the libraries'.

## 6. Plan

What is left, in the order of its worth:

1. `Allocation`: a proof that advice for a deposit spends at most half a cent a
   trade more than it, for all portfolios; `AdviceFits` is checked by TLC only.
2. A history specification that `NetWorth` implements when replays do not
   overlap.
3. Deduplication of overlapping files whose orders differ: what two
   uninterrupted imports guarantee, which TLC checks only.

## Running

    tlc -workers 2 -config MCImport_dedup.cfg MCImport
    tlapm ImportProofs.tla

Each run takes from a few seconds to two minutes on two cores; the
proofs of a module take a few minutes.
