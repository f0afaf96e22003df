---------------------------------- MODULE Cron ----------------------------------
(***************************************************************************)
(* The clock the scheduler's jobs share and the table of Scheduler.Start   *)
(* (scheduler/jobs.go).  Months and years are regular.  A slot is an hour  *)
(* at which some entry of the table may be due; 18 stands for 18:30, 19    *)
(* for 19:00 and 19:05.  A slot that passes while the server is down is    *)
(* not made up for.                                                        *)
(***************************************************************************)
EXTENDS Integers, Sequences, FiniteSets, SequencesExt

CONSTANTS DaysPerWeek, DaysPerMonth, MonthsPerYear

VARIABLES
    day, hour,
    faults      \* failures of a query or a file that may still happen

clock == <<day, hour>>

(* A step with f failures.                                                 *)
Failing(f) == f <= faults /\ faults' = faults - f

ASSUME CronAssumption == {DaysPerWeek, DaysPerMonth, MonthsPerYear} \subseteq Nat \ {0}

DaysPerYear == DaysPerMonth * MonthsPerYear
Weekday(d) == (d - 1) % DaysPerWeek             \* 0 is Sunday, 1 Monday
Month(d) == ((d - 1) \div DaysPerMonth) % MonthsPerYear
DayOfMonth(d) == ((d - 1) % DaysPerMonth) + 1
Year(d) == (d - 1) \div DaysPerYear

Workday == Weekday(day) \in 1 .. DaysPerWeek - 2
Sunday == Weekday(day) = 0
Monday == Weekday(day) = 1

Slot == {2, 3, 7, 8, 9, 10, 16, 18, 19}

(* The jobs whose entry fires in the slot; "prices-live" has an entry      *)
(* every quarter of an hour and looks at the market's hours itself.        *)
Table ==
    CASE hour = 2 -> {"backup"}
      [] hour = 3 /\ Sunday -> {"etf"}
      [] hour = 7 /\ Monday -> {"digest"}
      [] hour = 8 -> {"calendar"} \cup IF Workday THEN {"prices-live"} ELSE {}
      [] hour = 9 -> (IF Monday THEN {"health"} ELSE {})
                       \cup IF Workday THEN {"prices-live"} ELSE {}
      [] hour = 10 -> (IF Sunday THEN {"loss"} ELSE {})
                       \cup IF Workday THEN {"prices-live"} ELSE {}
      [] hour = 16 /\ Workday -> {"fx", "prices-live"}
      [] hour = 18 /\ Workday -> {"prices", "prices-live"}
      [] hour = 19 -> {"networth", "alerts"} \cup IF Workday THEN {"prices-live"} ELSE {}
      [] OTHER -> {}

(* The next of the slots a behaviour looks at.                             *)
NextSlot(slots) ==
    IF \E s \in slots : s > hour
    THEN day' = day /\ hour' = CHOOSE s \in slots : s > hour /\ \A t \in slots : t > hour => s <= t
    ELSE day' = day + 1 /\ hour' = CHOOSE s \in slots : \A t \in slots : s <= t
=============================================================================
