------------------------------ MODULE Allocation ------------------------------
(***************************************************************************)
(* Target allocations and the advice on how to reach them                  *)
(* (handler/portfolio.go: HandleSetTargetAllocation, HandleTargetAllocation,*)
(* HandleRebalance and computeRebalanceTrades).                            *)
(*                                                                         *)
(* A request that sets targets writes them row by row, each write          *)
(* committing by itself; a request for advice reads holdings and targets   *)
(* by separate queries.  One of each is under way at a time.  Percentages  *)
(* are whole and gaps are in cents; what the code computes in floating     *)
(* point is exact here, up to the rounding it does itself.                 *)
(***************************************************************************)
EXTENDS Ledger

CONSTANTS
    Percent,   \* the percentages a request may ask for
    Deposit,   \* the deposits a request for advice may name; 0 is none
    MaxSets,   \* bound: requests that set targets
    Faults     \* bound: queries that fail

VARIABLES
    targets,  \* target_allocations
    setting,  \* what the request that sets targets has still to write
    advising, \* the request for advice: where it is and what it has read
    sets,     \* how many requests have set targets
    faults    \* how many queries have failed

allocation == <<targets, setting, advising, sets, faults>>

None == 0
Idle == [at |-> "idle"]

AllocationInit ==
    /\ targets = [i \in Isin |-> None]
    /\ setting = <<>> /\ advising = Idle
    /\ sets = 0 /\ faults = 0

Targeted == {i \in Isin : targets[i] # None}

(***************************************************************************)
(* HandleSetTargetAllocation.                                              *)
(***************************************************************************)
Asked == [isin: Isin, pct: Percent]

(* The sum of what is asked for, the tolerance for rounding included.      *)
Valid(list) ==
    /\ \A k \in DOMAIN list : list[k].pct \in 0 .. 100
    /\ 2 * FoldLeft(LAMBDA acc, a : acc + a.pct, 0, list) <= 201

BeginSet(list) ==
    /\ setting = <<>> /\ sets < MaxSets
    /\ Valid(list)
    /\ setting' = list /\ sets' = sets + 1
    /\ UNCHANGED <<targets, advising, faults, ledger>>

(* DeleteTargetAllocation or UpsertTargetAllocation of the next row.       *)
SetNext ==
    /\ setting # <<>>
    /\ targets' = [targets EXCEPT ![Head(setting).isin] = Head(setting).pct]
    /\ setting' = Tail(setting)
    /\ UNCHANGED <<advising, sets, faults, ledger>>

(* The query fails, and the rows after it are left as they were.           *)
SetFails ==
    /\ setting # <<>> /\ faults < Faults
    /\ setting' = <<>> /\ faults' = faults + 1
    /\ UNCHANGED <<targets, advising, sets, ledger>>

(***************************************************************************)
(* What HandleTargetAllocation and HandleRebalance make of the holdings:   *)
(* a value and a price for each security held.                             *)
(***************************************************************************)
Positions ==
    [i \in {h.isin : h \in ListCurrentHoldings(book)} |->
        [value |-> MapThenSumSet(LAMBDA h : Value(h, Today),
                                 {h \in ListCurrentHoldings(book) : h.isin = i}),
         price |-> PriceAt(i, Today)]]

ValueIn(held, i) == IF i \in DOMAIN held THEN held[i].value ELSE 0
PriceIn(held, i) == IF i \in DOMAIN held THEN held[i].price ELSE 0
TotalOf(held)    == MapThenSumSet(LAMBDA i : held[i].value, DOMAIN held)

(* HandleTargetAllocation: how a security stands to its target, two points *)
(* being on target; one that is not held is short of it by all of it.      *)
Drift(held, goal, i) == 100 * ValueIn(held, i) - goal[i] * TotalOf(held)

Status(held, goal, i) ==
    IF goal[i] = None THEN "on_target"
    ELSE IF i \notin DOMAIN held THEN "underweight"
    ELSE IF Drift(held, goal, i) > 2 * TotalOf(held) THEN "overweight"
    ELSE IF Drift(held, goal, i) < -2 * TotalOf(held) THEN "underweight"
    ELSE "on_target"

(***************************************************************************)
(* computeRebalanceTrades.                                                 *)
(***************************************************************************)
Trade == [isin: Isin, action: {"buy", "sell"}, shares: Nat, amount: Nat]

(* An amount in cents as whole shares, or as it is when there is no price. *)
WholeShares(cents, price) == IF price = 0 THEN 0 ELSE cents \div (100 * price)
Rounded(cents, price) ==
    IF price = 0 THEN cents ELSE 100 * price * WholeShares(cents, price)

(* math.Round of a quotient.                                               *)
Nearest(n, d) == (2 * n + d) \div (2 * d)

Gap100(held, goal, total, i) == goal[i] * total - 100 * ValueIn(held, i)

(* Mutant: the deposit is not part of the total the targets are of. *)
DepositTradesOld(held, goal, deposit) ==
    LET gap(i)   == Gap100(held, goal, TotalOf(held), i)
        deficits == {i \in Isin : goal[i] # None /\ gap(i) > 0}
        all      == MapThenSumSet(gap, deficits)
        cents(i) == (100 * deposit * gap(i)) \div all
    IN {[isin |-> i, action |-> "buy", shares |-> WholeShares(cents(i), PriceIn(held, i)),
         amount |-> IF PriceIn(held, i) = 0 THEN Nearest(100 * deposit * gap(i), all)
                    ELSE 100 * PriceIn(held, i) * WholeShares(cents(i), PriceIn(held, i))] :
            i \in {j \in deficits : cents(j) >= 100}}

(* A deposit is spread over what is short of its target, in proportion.    *)
(* What has a price is bought in whole shares; what has none, and what is  *)
(* not held has none here, is bought for the amount rounded to the cent.   *)
DepositTrades(held, goal, deposit) ==
    LET gap(i)   == Gap100(held, goal, TotalOf(held) + deposit, i)
        deficits == {i \in Isin : goal[i] # None /\ gap(i) > 0}
        all      == MapThenSumSet(gap, deficits)
        cents(i) == (100 * deposit * gap(i)) \div all
    IN {[isin |-> i, action |-> "buy", shares |-> WholeShares(cents(i), PriceIn(held, i)),
         amount |-> IF PriceIn(held, i) = 0 THEN Nearest(100 * deposit * gap(i), all)
                    ELSE 100 * PriceIn(held, i) * WholeShares(cents(i), PriceIn(held, i))] :
            i \in {j \in deficits : cents(j) >= 100}}

(* Without one, whatever is EUR 50 or more off is bought or sold, unless   *)
(* whole shares make less than EUR 10 of it.                               *)
FullTrades(held, goal) ==
    LET gap(i) == Gap100(held, goal, TotalOf(held), i)
        off(i) == IF gap(i) < 0 THEN -gap(i) ELSE gap(i)
    IN {[isin |-> i, action |-> IF gap(i) < 0 THEN "sell" ELSE "buy",
         shares |-> WholeShares(off(i), PriceIn(held, i)),
         amount |-> Rounded(off(i), PriceIn(held, i))] :
            i \in {j \in Isin : /\ goal[j] # None /\ off(j) >= 5000
                                /\ Rounded(off(j), PriceIn(held, j)) >= 1000}}

computeRebalanceTrades(held, goal, deposit) ==
    IF deposit > 0 THEN DepositTrades(held, goal, deposit) ELSE FullTrades(held, goal)

(***************************************************************************)
(* HandleRebalance: the holdings are read first, then the targets, then    *)
(* the prices; without targets there is no advice.                         *)
(***************************************************************************)
BeginAdvice(deposit) ==
    /\ advising.at \in {"idle", "answered"}
    /\ advising' = [at |-> "holdings", deposit |-> deposit, held |-> Positions]
    /\ UNCHANGED <<targets, setting, sets, faults, ledger>>

Answer ==
    /\ advising.at = "holdings"
    /\ advising' =
          IF Targeted = {} THEN Idle
          ELSE [at |-> "answered", deposit |-> advising.deposit, held |-> advising.held,
                goal |-> targets,
                trades |-> computeRebalanceTrades(advising.held, targets, advising.deposit)]
    /\ UNCHANGED <<targets, setting, sets, faults, ledger>>

AdviceFails ==
    /\ advising.at = "holdings" /\ faults < Faults
    /\ advising' = Idle /\ faults' = faults + 1
    /\ UNCHANGED <<targets, setting, sets, ledger>>
=============================================================================
