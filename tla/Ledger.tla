-------------------------------- MODULE Ledger --------------------------------
(***************************************************************************)
(* The transactions table as the handlers of the dashboard read it, and    *)
(* the sums SQL takes over it: GetCashBalance, the view current_holdings,  *)
(* the latest prices and the snapshots of net worth                        *)
(* (internal/database/generated/queries.sql.go, migrations/002).           *)
(*                                                                         *)
(* Money is whole and everything is in EUR.  What a trade is worth is its  *)
(* shares at the close of its day; a price of 0 means there is none.       *)
(***************************************************************************)
EXTENDS Integers, Sequences, FiniteSets, FiniteSetsExt, SequencesExt, Functions

CONSTANTS
    Isin,          \* securities
    NoIsin,        \* NULL security_isin
    Account,       \* accounts
    Cash,          \* those of type "checking" or "savings"; the others are brokerages
    Today,         \* days are 1 .. Today
    DaysPerMonth,  \* months begin on days 1, 1 + DaysPerMonth, ...
    Close          \* the price of each security on each day

Day   == 1 .. Today
Month == 1 .. (Today - 1) \div DaysPerMonth + 1
MonthOf(d) == (d - 1) \div DaysPerMonth + 1

Gets == {"buy", "savings_plan", "transfer"}      \* when they name a security
Gives == {"sell", "transfer_out"}
CashIn  == {"deposit", "interest", "sell", "dividend", "cash_transfer_in"}
CashOut == {"buy", "savings_plan", "withdrawal", "fee", "tax", "cash_transfer_out"}
Type == Gets \cup Gives \cup CashIn \cup CashOut

Row == [day: Day, type: Type, isin: Isin \cup {NoIsin}, account: Account, qty: Nat,
        amt: Int, fee: Int, tax: Int, word: STRING, category: STRING]

ASSUME LedgerAssumption ==
    /\ NoIsin \notin Isin /\ Cash \subseteq Account
    /\ Today \in Nat \ {0} /\ DaysPerMonth \in Nat \ {0}
    /\ Close \in [Isin -> [Day -> Nat]]

VARIABLES
    book,   \* the rows of transactions in the order ListTransactions gives them
    totals  \* net_worth_snapshots: the total of each day that has a row

ledger == <<book, totals>>
Snapped == DOMAIN totals

(* ORDER BY t.date DESC, with nothing to order the rows of one day.        *)
Listed(rows) == \A i \in 1 .. Len(rows) - 1 : rows[i].day >= rows[i + 1].day

(* loadAllTransactions reads oldest first; ListCashTransactions one part.  *)
OldestFirst(rows) == Reverse(rows)

(* The rows at the positions ks, in their order.                           *)
Places(rows, ks) == SelectSeq([k \in DOMAIN rows |-> k], LAMBDA k : k \in ks)
Picked(rows, ks) == LET order == Places(rows, ks) IN [n \in DOMAIN order |-> rows[order[n]]]

(* Sum of Of(rows[i]) over the rows for which Where holds.                 *)
SumOver(rows, Where(_), Of(_)) ==
    FoldSeq(LAMBDA r, acc : IF Where(r) THEN acc + Of(r) ELSE acc, 0, rows)

AmountOf(r) == r.amt
Size(n) == IF n < 0 THEN -n ELSE n

(* Mutant: savings plans are forgotten. *)
CashEffectNoPlans(r) ==
    IF r.type \in CashIn THEN r.amt
    ELSE IF r.type \in CashOut \ {"savings_plan"} THEN -r.amt
    ELSE 0

(* What a row does to the balance of its account.                          *)
CashEffect(r) ==
    IF r.type \in CashIn THEN r.amt
    ELSE IF r.type \in CashOut \/ (r.type = "transfer" /\ r.isin = NoIsin) THEN -r.amt
    ELSE 0

GetCashBalance(rows, a) == SumOver(rows, LAMBDA r : r.account = a, CashEffect)

(* What a row does to the shares of its security.                          *)
ShareEffect(r) ==
    IF r.isin = NoIsin THEN 0
    ELSE IF r.type \in Gets THEN r.qty ELSE IF r.type \in Gives THEN -r.qty ELSE 0

CostEffect(r) ==
    IF r.type \in Gets THEN r.amt + r.fee
    ELSE IF r.type \in Gives THEN r.fee - r.amt ELSE 0

(* current_holdings: one row for each account and security with shares     *)
(* left; `cost` is their number times avg_cost_basis.                      *)
Shares(rows, a, i) == SumOver(rows, LAMBDA r : r.account = a /\ r.isin = i, ShareEffect)

ListCurrentHoldings(rows) ==
    {[account |-> a, isin |-> i, qty |-> Shares(rows, a, i),
      cost |-> SumOver(rows, LAMBDA r : r.account = a /\ r.isin = i, CostEffect)] :
        <<a, i>> \in {k \in {<<r.account, r.isin>> : r \in Range(rows)} :
                        Shares(rows, k[1], k[2]) > 0}}

(* The last price on or before a day, 0 when there is none: loadPriceMap    *)
(* for Today.  Without a price a holding is worth what it cost.            *)
PriceAt(i, d) == LET days == {k \in 1 .. d : Close[i][k] > 0}
                 IN IF days = {} THEN 0 ELSE Close[i][Max(days)]
Value(h, d)   == IF PriceAt(h.isin, d) > 0 THEN h.qty * PriceAt(h.isin, d) ELSE h.cost

(* Rows up to and including day d.                                         *)
Until(rows, d) == SelectSeq(rows, LAMBDA r : r.day <= d)
After(rows, d) == SelectSeq(rows, LAMBDA r : r.day > d)

HoldingsValue(rows, d) == MapThenSumSet(LAMBDA h : Value(h, d), ListCurrentHoldings(rows))
CashTotal(rows) ==
    MapThenSumSet(LAMBDA a : GetCashBalance(rows, a), {r.account : r \in Range(rows)})

(* What the scheduler stores for a day: cash plus holdings as the day ends *)
(* (the modules NetWorth and Replay are about when this is so).  Here it   *)
(* has done so by the time the answers are read.                           *)
Total(rows, d) == CashTotal(Until(rows, d)) + HoldingsValue(Until(rows, d), d)
Replayed(rows, days) == [d \in days |-> Total(rows, d)]

(* A row of a new import hash is listed anywhere among those of its day.   *)
InsertTransaction(row) ==
    /\ \E k \in 1 .. Len(book) + 1 : book' = InsertAt(book, k, row)
    /\ Listed(book')
    /\ totals' = Replayed(book', Snapped)

(* ListNetWorthSnapshots: the newest ones, newest first.                   *)
ListNetWorthSnapshots(limit) ==
    LET days == SelectSeq([n \in Day |-> Today + 1 - n], LAMBDA d : d \in Snapped)
    IN SubSeq(days, 1, Min({limit, Len(days)}))

(* The latest snapshot of a set of days, 0 when there is none.             *)
LatestTotal(days) ==
    IF days \cap Snapped = {} THEN 0 ELSE totals[Max(days \cap Snapped)]
=============================================================================
