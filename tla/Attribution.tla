----------------------------- MODULE Attribution ------------------------------
(***************************************************************************)
(* Where the net worth comes from, as five handlers tell it, each walking  *)
(* the transactions in a way of its own: HandleWealthWaterfall (bars and   *)
(* monthly series), HandleTimeMachine, HandlePerformance,                  *)
(* HandlePerformanceHistory and HandleAccounts (handler/portfolio.go).     *)
(* Shared are ClassifyForAttribution (analytics/classify.go) and           *)
(* MatchInKindTransferPairs (analytics/inkind.go).                         *)
(*                                                                         *)
(* Each answer is a function of the tables.  Internal rates of return,     *)
(* benchmarks, rounding and the look of the answers are left out.          *)
(***************************************************************************)
EXTENDS Ledger

CONSTANTS
    Window,       \* dateWindow: 5 days
    Year,         \* the days the TWR looks back: from today one year before
    MaxSnapshots, \* how many snapshots it and the history ask for: 1000
    LeastValue    \* valuations below it (EUR 100) are not used for the TWR

(***************************************************************************)
(* MatchInKindTransferPairs: the rows whose legs cancel out.               *)
(***************************************************************************)
InKind(r) == r.isin # NoIsin /\ r.type \in {"transfer", "transfer_out"}
Gap(r, s) == IF r.day < s.day THEN s.day - r.day ELSE r.day - s.day

(* Rows of one security are sorted by date; sort.SliceStable keeps those of *)
(* one day in the order they are given in.                                 *)
Earlier(rows, k, l) == rows[k].day < rows[l].day \/ (rows[k].day = rows[l].day /\ k < l)
Group(rows, i) == SortSeq(Places(rows, {k \in DOMAIN rows : InKind(rows[k]) /\ rows[k].isin = i}),
                          LAMBDA k, l : Earlier(rows, k, l))

(* The arrivals an outgoing transfer may have gone to.                     *)
Candidates(rows, k, used) ==
    {j \in DOMAIN rows \ used : /\ InKind(rows[j]) /\ rows[j].type = "transfer"
                               /\ rows[j].isin = rows[k].isin /\ rows[j].qty = rows[k].qty
                               /\ Gap(rows[j], rows[k]) <= Window}

(* The one closest in time, and the first of those equally close.          *)
Closest(rows, k, js) ==
    CHOOSE j \in js : \A l \in js \ {j} :
        \/ Gap(rows[j], rows[k]) < Gap(rows[l], rows[k])
        \/ Gap(rows[j], rows[k]) = Gap(rows[l], rows[k]) /\ Earlier(rows, j, l)

(* Mutant: the arrival is not marked as used. *)
PairLegOnce(rows, used, k) ==
    LET js == Candidates(rows, k, used)
    IN IF rows[k].type # "transfer_out" \/ js = {} THEN used ELSE used \cup {k}

PairLeg(rows, used, k) ==
    LET js == Candidates(rows, k, used)
    IN IF rows[k].type # "transfer_out" \/ js = {} THEN used
       ELSE used \cup {k, Closest(rows, k, js)}

(* The positions of the rows that are washed.                              *)
Washed(rows) ==
    UNION {FoldLeft(LAMBDA used, k : PairLeg(rows, used, k), {}, Group(rows, i)) :
              i \in {rows[k].isin : k \in {l \in DOMAIN rows : InKind(rows[l])}}}

Unwashed(rows) == Picked(rows, DOMAIN rows \ Washed(rows))

(***************************************************************************)
(* ClassifyForAttribution.                                                 *)
(***************************************************************************)
Inflow(scope) ==
    {"deposit"} \cup (IF scope = "account" THEN {"cash_transfer_in"} ELSE {})
Outflow(scope) ==
    {"withdrawal"} \cup (IF scope = "account" THEN {"cash_transfer_out"} ELSE {})

Bucket(r, scope) ==
    IF r.type \in Inflow(scope) \/ (r.type = "transfer" /\ r.isin # NoIsin) THEN "contribution"
    ELSE IF r.type \in Outflow(scope) \/ r.type = "transfer" THEN "withdrawal"
    ELSE IF r.type \in {"dividend", "interest", "fee", "tax"} THEN r.type
    ELSE "ignore"

Sum(rows, bucket, scope) == SumOver(rows, LAMBDA r : Bucket(r, scope) = bucket, AmountOf)
Whole(rows, bucket) == Sum(rows, bucket, "portfolio")
NetIn(rows)   == Whole(rows, "contribution") - Whole(rows, "withdrawal")

(* The columns fee and tax count for every row, washed or not.             *)
Charges(rows)  == SumOver(rows, LAMBDA r : TRUE, LAMBDA r : r.fee)
Withheld(rows) == SumOver(rows, LAMBDA r : TRUE, LAMBDA r : r.tax)
Costs(all, rows) ==
    Size(Charges(all) + Whole(rows, "fee")) + Size(Withheld(all) + Whole(rows, "tax"))

(***************************************************************************)
(* HandleWealthWaterfall: the bars, the market's being the residual ...    *)
(***************************************************************************)
Bars ==
    LET rows  == Unwashed(book)
        costs == Costs(book, rows)
        gets  == Whole(rows, "dividend") + Whole(rows, "interest")
    IN [contributions |-> NetIn(rows), income |-> gets, costs |-> costs,
        market |-> LatestTotal(Day) - NetIn(rows) - gets + costs]

(* ... and the series, one point for each month with a snapshot, from sums *)
(* over the months that have a snapshot or a contribution.                 *)
Days(m) == {d \in Day : MonthOf(d) = m}
Flows   == {"contribution", "withdrawal"}

Series ==
    LET rows    == Unwashed(book)
        month(m) == SelectSeq(rows, LAMBDA r : MonthOf(r.day) = m)
        months  == {m \in Month :
                       \/ Days(m) \cap Snapped # {}
                       \/ \E k \in DOMAIN month(m) : Bucket(month(m)[k], "portfolio") \in Flows}
        to(m, Of(_)) == MapThenSumSet(LAMBDA l : Of(month(l)), {l \in months : l <= m})
        gets(rs) == Whole(rs, "dividend") + Whole(rs, "interest")
    IN [m \in {l \in months : LatestTotal(Days(l)) # 0} |->
           [contributions |-> to(m, NetIn), income |-> to(m, gets),
            market |-> LatestTotal(Days(m)) - to(m, NetIn) - to(m, gets)]]

(***************************************************************************)
(* HandleTimeMachine: the portfolio as of day d, and what came after it.   *)
(***************************************************************************)
Nothing == [qty |-> 0, cost |-> 0]

(* The cost of the shares that stay, rounded down.                         *)
Kept(h, n) == IF n >= h.qty THEN Nothing
              ELSE [qty |-> h.qty - n, cost |-> (h.cost * (h.qty - n)) \div h.qty]

Moved(held, r) ==
    IF r.isin = NoIsin THEN held
    ELSE IF r.type \in Gets THEN
        [held EXCEPT ![r.isin] = [qty |-> @.qty + r.qty, cost |-> @.cost + r.amt]]
    ELSE IF r.type \in Gives THEN [held EXCEPT ![r.isin] = Kept(@, r.qty)]
    ELSE held

HeldOn(d) == FoldLeft(Moved, [i \in Isin |-> Nothing], OldestFirst(Until(book, d)))

ValueOn(d) == MapThenSumSet(LAMBDA i : IF PriceAt(i, d) > 0
                                       THEN HeldOn(d)[i].qty * PriceAt(i, d)
                                       ELSE HeldOn(d)[i].cost, Isin)

WorthOn(d) == IF (1 .. d) \cap Snapped = {} THEN ValueOn(d) ELSE LatestTotal(1 .. d)

(* Prices only: a holding without one counts for nothing here.             *)
PricedValue == MapThenSumSet(LAMBDA h : h.qty * PriceAt(h.isin, Today),
                             ListCurrentHoldings(book))
WorthNow == IF Snapped = {} THEN PricedValue ELSE LatestTotal(Day)

(* Mutant: what was washed is found among the rows after d alone. *)
SinceAlone(d) ==
    LET rows  == Unwashed(After(book, d))
        costs == Costs(After(book, d), rows)
        gets  == Whole(rows, "dividend") + Whole(rows, "interest")
    IN [contributions |-> NetIn(rows), income |-> gets, costs |-> costs,
        market |-> WorthNow - WorthOn(d) - NetIn(rows) - gets + costs]

Since(d) ==
    LET rows  == After(Unwashed(book), d)
        costs == Costs(After(book, d), rows)
        gets  == Whole(rows, "dividend") + Whole(rows, "interest")
    IN [contributions |-> NetIn(rows), income |-> gets, costs |-> costs,
        market |-> WorthNow - WorthOn(d) - NetIn(rows) - gets + costs]

(***************************************************************************)
(* HandlePerformance, for the portfolio or one account, reads the rows by  *)
(* a query of its own, oldest first, and so may pair rows of one day in    *)
(* another order.                                                          *)
(***************************************************************************)
Everything == "portfolio"

loadAllTransactions(a) ==
    SelectSeq(OldestFirst(book), LAMBDA r : a = Everything \/ r.account = a)

Counted(a) ==
    IF a = Everything THEN Unwashed(loadAllTransactions(a)) ELSE loadAllTransactions(a)

CurrentValue(a) ==
    LET rows == SelectSeq(book, LAMBDA r : a = Everything \/ r.account = a)
    IN CashTotal(rows) + HoldingsValue(rows, Today)

Performance(a) ==
    LET scope == IF a = Everything THEN "portfolio" ELSE "account"
        kind  == SelectSeq(Counted(a), LAMBDA r : r.isin # NoIsin)
        cash  == SelectSeq(Counted(a), LAMBDA r : r.isin = NoIsin)
        inKind    == Sum(kind, "contribution", scope)
        withdrawn == Sum(Counted(a), "withdrawal", scope)
        funded == CurrentValue(a) - (IF a = Everything THEN inKind ELSE 0)
    IN [invested |-> Sum(cash, "contribution", scope), withdrawn |-> withdrawn,
        transferred |-> inKind, value |-> CurrentValue(a),
        gains |-> funded - (Sum(cash, "contribution", scope) - withdrawn)]

HandlePerformance(a) ==
    IF loadAllTransactions(a) = <<>>
    THEN [invested |-> 0, withdrawn |-> 0, value |-> 0, gains |-> 0]
    ELSE Performance(a)

(* The valuations and flows of its time-weighted return, and               *)
(* splitByCashflows: a period ends with a valuation on whose day cash      *)
(* flows, or with the last one.                                            *)
Recent(d) == d + Year > Today

Valuations == SelectSeq(Reverse(ListNetWorthSnapshots(MaxSnapshots)),
                        LAMBDA d : Recent(d) /\ totals[d] >= LeastValue)
FlowOn(d) == NetIn(SelectSeq(Counted(Everything), LAMBDA r : Recent(r.day) /\ r.day = d))

Periods ==
    LET v    == Valuations
        ends == {k \in 2 .. Len(v) : FlowOn(v[k]) # 0 \/ k = Len(v)}
        from(k) == Max({1} \cup {j \in ends : j < k})
    IN {[start |-> v[from(k)], end |-> v[k], flow |-> FlowOn(v[k])] : k \in ends}

Return(p) == totals[p.end] - totals[p.start] - p.flow

(***************************************************************************)
(* HandlePerformanceHistory: the events, oldest first, are taken up by the *)
(* snapshots one after the other.                                          *)
(***************************************************************************)
Events ==
    OldestFirst(SelectSeq(Unwashed(book), LAMBDA r : Bucket(r, "portfolio") \in Flows))

TakeUp(acc, d) ==
    LET taken == SelectSeq(acc.left, LAMBDA r : r.day <= d)
        kind  == SelectSeq(taken, LAMBDA r : r.isin # NoIsin)
        cash  == SelectSeq(taken, LAMBDA r : r.isin = NoIsin)
        point == [cash |-> acc.point.cash + NetIn(cash), inKind |-> acc.point.inKind + NetIn(kind)]
    IN [left |-> SelectSeq(acc.left, LAMBDA r : r.day > d), point |-> point,
        history |-> Append(acc.history, point)]

(* One point for each snapshot, oldest first.                              *)
History == FoldLeft(TakeUp, [left |-> Events, point |-> [cash |-> 0, inKind |-> 0],
                             history |-> <<>>],
                    Reverse(ListNetWorthSnapshots(MaxSnapshots))).history

(* HandleAccounts: holdings count for brokerages only.                     *)
Balance(a) ==
    GetCashBalance(book, a)
    + (IF a \in Cash THEN 0
       ELSE MapThenSumSet(LAMBDA h : Value(h, Today),
                          {h \in ListCurrentHoldings(book) : h.account = a}))
=============================================================================
