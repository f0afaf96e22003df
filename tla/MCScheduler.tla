------------------------------ MODULE MCScheduler ------------------------------
(* Small instances of Scheduler for TLC. *)
EXTENDS Scheduler

Dates == [e \in Event |-> IF e = "pre-tax" THEN 2 ELSE 7]
Names == [i \in Institution |-> IF i = "ing" THEN {"ing", "ing-diba"} ELSE {i}]
Types == [a \in Alert |-> IF a = "a1" THEN "price_above" ELSE "daily_change"]
Initial == {[id |-> "phone", enabled |-> TRUE, for |-> "all", freq |-> "monthly"]}

None == [jobs |-> {}, slots |-> {8}, days |-> 0, kinds |-> {}, requests |-> 0, crashes |-> 0,
         faults |-> 0, moves |-> 0, initial |-> FALSE, symbols |-> {}, path |-> TRUE,
         accounts |-> {}]

(* The calendar over two turns of the month.                               *)
Calendar == [None EXCEPT !.jobs = {"calendar"}, !.slots = {8}, !.days = 9,
                         !.accounts = {"ing"}, !.crashes = 1, !.faults = 1]

(* Two banks, one name the beginning of the other.                         *)
Deposits == [Calendar EXCEPT !.days = 3, !.accounts = Institution]

(* Alerts evaluated by cron and by hand while users change them.           *)
Alerts == [None EXCEPT !.jobs = {"alerts", "calendar"}, !.slots = {8, 19}, !.days = 2,
              !.kinds = {"create alert", "toggle alert", "delete alert", "mark read",
                         "check alerts"},
              !.requests = 3, !.crashes = 1, !.faults = 1]

(* The jobs of Mondays and Sundays, and the channels.                      *)
Weekly == [None EXCEPT !.jobs = {"loss", "health", "digest"}, !.slots = {7, 9, 10}, !.days = 4,
              !.kinds = {"channels"}, !.requests = 1, !.faults = 1, !.crashes = 1]

Swap == Permutations(Goroutine)

(* Overlapping price updates while prices move.                            *)
Market == [None EXCEPT !.jobs = {"prices", "prices-live"}, !.slots = {16, 18}, !.days = 2,
              !.kinds = {"refresh prices"}, !.requests = 1, !.moves = 1, !.faults = 1,
              !.symbols = {"x"}]

NoSymbols == [None EXCEPT !.jobs = {"prices", "prices-live", "fx"}, !.slots = {8, 16, 18},
              !.days = 4, !.faults = 3]

(* First fetches, the weekly update of ETFs and one by hand.               *)
Fetches == [None EXCEPT !.jobs = {"etf", "networth"}, !.slots = {3, 19}, !.days = 2,
              !.kinds = {"refresh etf"}, !.requests = 1, !.moves = 1, !.crashes = 1,
              !.faults = 1, !.initial = TRUE, !.symbols = {"x"}]

(* A dump every night for a year; dumps that fail or last for days.        *)
Backups == [None EXCEPT !.jobs = {"backup"}, !.slots = {2}, !.days = 13, !.faults = 1]

(* Days of outage.                                                         *)
Outage == [Backups EXCEPT !.days = 5, !.crashes = 1, !.faults = 2]

NoPath == [Outage EXCEPT !.path = FALSE]

AllWorkloads == {Calendar, Deposits, Alerts, Weekly, Market, NoSymbols, Fetches, Backups,
                 Outage, NoPath}
=============================================================================
