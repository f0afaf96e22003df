------------------------------- MODULE Portfolio -------------------------------
(***************************************************************************)
(* The dashboard's answers over one ledger: statements are imported and    *)
(* transactions recorded (Ledger, Statements), targets set and advice      *)
(* asked for (Allocation), and after every step the answers of Attribution *)
(* are those of the same tables.                                           *)
(*                                                                         *)
(* A workload says what the ledger starts with and what may happen to it.  *)
(***************************************************************************)
EXTENDS Attribution, Allocation, Statements

CONSTANTS
    Files,    \* the files of each bank
    Requests, \* the lists of targets users ask for
    Workloads

Workload == [rows: Seq(Row), records: SUBSET Row, upto: Nat, snapped: SUBSET SUBSET Day,
             banks: SUBSET Bank, words: SUBSET STRING, advice: BOOLEAN]

ASSUME PortfolioAssumption ==
    /\ Workloads \subseteq Workload
    /\ \A w \in Workloads : Listed(w.rows)
    /\ \A b \in Bank : Files[b] \subseteq Seq(Line)
    /\ Requests \subseteq Seq(Asked)

VARIABLE w

vars == <<ledger, allocation, lines, w>>

Init ==
    /\ w \in Workloads
    /\ book = w.rows
    /\ \E days \in w.snapped : totals = Replayed(w.rows, days)
    /\ AllocationInit /\ StatementsInit

Record ==
    /\ Len(book) < w.upto
    /\ \E row \in w.records : InsertTransaction(row)
    /\ UNCHANGED <<allocation, lines, w>>

(* Bound: one file of each bank. *)
Import ==
    /\ \E bank \in {b \in w.banks : lines[b] = <<>>} :
          \E file \in Files[bank] : ImportFile(bank, file)
    /\ UNCHANGED <<allocation, w>>

Categorise ==
    /\ \E k \in DOMAIN book, c \in w.words : UpdateCategory(k, c)
    /\ UNCHANGED <<allocation, w>>

SetTargets ==
    /\ w.advice
    /\ \/ \E list \in Requests : BeginSet(list)
       \/ SetNext
       \/ SetFails
    /\ UNCHANGED <<lines, w>>

Rebalance ==
    /\ w.advice
    /\ \/ \E d \in Deposit : BeginAdvice(d)
       \/ Answer
       \/ AdviceFails
    /\ UNCHANGED <<lines, w>>

Next == Record \/ Import \/ Categorise \/ SetTargets \/ Rebalance

Spec == Init /\ [][Next]_vars

TypeOK ==
    /\ book \in Seq(Row) /\ Listed(book)
    /\ \E days \in w.snapped : totals \in [days -> Int]
    /\ targets \in [Isin -> 0 .. 100]
    /\ setting \in Seq(Asked)
    /\ advising.at \in {"idle", "holdings", "answered"}
    /\ advising.at = "answered" => advising.trades \subseteq Trade
    /\ lines \in [Bank -> Seq(Line)]

-----------------------------------------------------------------------------
(* Washed pairs.  No outgoing transfer is left over that an arrival left   *)
(* over could have been its other half, what is washed cancels out, and    *)
(* the order in which the database happens to list the rows of a day does  *)
(* not change what is washed: HandlePerformance reads the rows in another  *)
(* order than the other handlers (inkind.go:52-95, portfolio.go:640).      *)
Profile(rows, ks) ==
    LET kind(k) == <<rows[k].day, rows[k].type, rows[k].isin, rows[k].qty>>
    IN [p \in {kind(k) : k \in ks} |-> Cardinality({k \in ks : kind(k) = p})]

Swapped(k) == [book EXCEPT ![k] = book[k + 1], ![k + 1] = book[k]]

PairsSettled ==
    LET washed == Washed(book)
    IN /\ \A k \in DOMAIN book \ washed :
             book[k].type = "transfer_out" => Candidates(book, k, washed) = {}
       /\ \A i \in Isin :
             MapThenSumSet(LAMBDA k : IF book[k].isin = i THEN ShareEffect(book[k]) ELSE 0,
                           washed) = 0
       /\ \A k \in 1 .. Len(book) - 1 :
             book[k].day = book[k + 1].day =>
                 Profile(Swapped(k), Washed(Swapped(k))) = Profile(book, washed)

(* The handlers agree about what was contributed.  The bars show what      *)
(* HandlePerformance calls invested, withdrawn and transferred in; for     *)
(* every snapshot they are what the history has by its day and what the    *)
(* time machine says came after it; and where the series has a point whose *)
(* month ends with its snapshot, the same.  The returns of the periods add *)
(* up to what the time machine attributes to the same days, if the flows   *)
(* after the first valuation of the last year fall on days with a          *)
(* valuation (portfolio.go:3960-4185, 4380-4460, 368-621, 733-823, and the *)
(* test of attribution_reconciliation_test.go:14, which goes through one   *)
(* log).  Of rows that tie in MatchInKindTransferPairs the amounts are the *)
(* same here: which of them is washed is the order of the rows.            *)
AtSnapshot(n) == Reverse(ListNetWorthSnapshots(MaxSnapshots))[n]

(* The last day of its month of which there is anything.                   *)
MonthEnds(d) ==
    /\ Max(Days(MonthOf(d)) \cap Snapped) = d
    /\ \A k \in DOMAIN book : MonthOf(book[k].day) = MonthOf(d) => book[k].day <= d

(* The series has no place for income of a month without a snapshot or     *)
(* contribution.                                                           *)
IncomeShown ==
    \A k \in DOMAIN book : book[k].type \in {"dividend", "interest"} =>
        Days(MonthOf(book[k].day)) \cap Snapped # {}

Continues(point, since, bars) ==
    /\ point.contributions + since.contributions = bars.contributions
    /\ point.income + since.income = bars.income
    /\ point.market + since.market = bars.market - (bars.costs - since.costs)

FlowsOnValuations ==
    /\ Len(Valuations) > 1 /\ Valuations[Len(Valuations)] = Max(Snapped)
    /\ \A k \in DOMAIN book : book[k].day > Valuations[1] =>
          \E n \in DOMAIN Valuations : Valuations[n] = book[k].day

AnswersAgree ==
    LET rows    == Unwashed(book)
        perf    == HandlePerformance(Everything)
        bars    == Bars
        series  == Series
        history == History
        first   == Since(Valuations[1])
    IN /\ book # <<>> =>
             bars.contributions = perf.invested - perf.withdrawn + perf.transferred
       /\ \A n \in DOMAIN history :
             LET d == AtSnapshot(n)
                 since == Since(d)
             IN /\ history[n].cash + history[n].inKind + since.contributions
                      = bars.contributions
                /\ (MonthEnds(d) /\ IncomeShown /\ MonthOf(d) \in DOMAIN series) =>
                      Continues(series[MonthOf(d)], since, bars)
       /\ FlowsOnValuations =>
             MapThenSumSet(Return, Periods) = first.market + first.income - first.costs

(* The market return is what prices did.  A residual, it is the gain of    *)
(* the shares held, and besides that exactly the shares that left for good *)
(* or are on their way, the money on its way, and the fees and taxes in    *)
(* columns the balance does not know; nothing else hides in it.  And the   *)
(* time machine has today the shares the view has, if none was ever sold   *)
(* that was not there (portfolio.go:4104, 4452, 4249-4300).                *)
Held(rows, i) == SumOver(rows, LAMBDA r : r.isin = i, ShareEffect)
Traded == {r.isin : r \in Range(book)} \ {NoIsin}

GainsAfter(d) ==
    MapThenSumSet(LAMBDA p : Held(Until(book, p[2] - 1), p[1])
                             * (PriceAt(p[1], p[2]) - PriceAt(p[1], p[2] - 1)),
                  Traded \X (d + 1 .. Today))

OnItsWay(d, washed) ==
    LET part(k) == IF k \in washed \/ book[k].type = "transfer_out"
                       THEN IF book[k].type = "transfer" THEN book[k].amt ELSE -book[k].amt
                   ELSE IF book[k].type \in {"cash_transfer_in", "cash_transfer_out"}
                       THEN CashEffect(book[k])
                   ELSE 0
    IN MapThenSumSet(part, {k \in DOMAIN book : book[k].day > d})

NeverShort ==
    \A r \in Range(book) : r.type \in Gives =>
        \A d \in r.day .. Today : Shares(Until(book, d), r.account, r.isin) >= 0

InListedOrder ==
    \A k \in DOMAIN book : Held(SubSeq(book, k, Len(book)), book[k].isin) >= 0

ReturnIsMarket ==
    NeverShort =>
    /\ Today \in Snapped =>
          LET washed == Washed(book)
          IN \A d \in Snapped :
                Since(d).market = GainsAfter(d) + OnItsWay(d, washed)
                                  + Charges(After(book, d)) + Withheld(After(book, d))
    /\ HandlePerformance(Everything).value = MapThenSumSet(Balance, Account)
    /\ InListedOrder =>
          LET held == HeldOn(Today)
          IN \A i \in Traded :
                held[i].qty = MapThenSumSet(LAMBDA h : IF h.isin = i THEN h.qty ELSE 0,
                                            ListCurrentHoldings(book))

(* Advice can be followed.  With a deposit nothing is sold, no more than   *)
(* the deposit is spent, and if the targets make up a whole nothing is     *)
(* bought past its target - but for half a cent of each trade in what has  *)
(* no price: rounded one by one, EUR 16.67, 16.67 and 66.67 are advised    *)
(* for a deposit of 100.  Without one nothing the allocation page calls    *)
(* underweight is sold or overweight bought, trades of priced securities   *)
(* are of whole shares, and following them all leaves the portfolio no     *)
(* farther from its targets than it was.  All of it while targets are      *)
(* being written, row by row (portfolio.go:1519-1631).                     *)
Spent(trades) == MapThenSumSet(LAMBDA t : t.amount, trades)

Unpriced(a) == {t \in a.trades : PriceIn(a.held, t.isin) = 0}

DepositFits(a) ==
    /\ \A t \in a.trades : t.action = "buy"
    /\ 2 * Spent(a.trades) <= 200 * a.deposit + Cardinality(Unpriced(a))
    /\ MapThenSumSet(LAMBDA i : a.goal[i], Isin) >= 100 =>
          \A t \in a.trades :
              2 * t.amount <= 2 * Gap100(a.held, a.goal, TotalOf(a.held) + a.deposit, t.isin)
                              + (IF t \in Unpriced(a) THEN 1 ELSE 0)

Followed(a) ==
    [i \in DOMAIN a.held |->
        LET mine == {t \in a.trades : t.isin = i}
            sum(action) == MapThenSumSet(LAMBDA t : t.amount \div 100,
                                         {t \in mine : t.action = action})
        IN [a.held[i] EXCEPT !.value = @ + sum("buy") - sum("sell")]]

Off(held, goal, i) == Size(Drift(held, goal, i))

DriftShrinks(a) ==
    LET goals == {i \in Isin : a.goal[i] # None}
        after == Followed(a)
    IN (/\ goals \subseteq DOMAIN a.held /\ DOMAIN a.held \subseteq goals
        /\ MapThenSumSet(LAMBDA i : a.goal[i], goals) = 100
        /\ TotalOf(after) > 0) =>
       Max({Off(after, a.goal, i) : i \in goals}) * TotalOf(a.held)
           <= Max({Off(a.held, a.goal, i) : i \in goals}) * TotalOf(after)

FullFits(a) ==
    /\ \A t \in a.trades :
          /\ t.action = "sell" => Status(a.held, a.goal, t.isin) # "underweight"
          /\ t.action = "buy" => Status(a.held, a.goal, t.isin) # "overweight"
    /\ DriftShrinks(a)

AdviceFits ==
    advising.at = "answered" =>
        IF advising.deposit > 0 THEN DepositFits(advising) ELSE FullFits(advising)

(* The books are the bank's.  What the database says an account has, money *)
(* and shares, is what the lines of its statement add up to, whatever a    *)
(* parser did to signs and types, cancellations and close-outs included,   *)
(* but for the lines it is known to misread (parser/sparkasse.go:95-102,   *)
(* n26.go:87, revolut.go:55-242, scalable.go:148-245, queries              *)
(* GetCashBalance).                                                        *)
Misread(bank, line) ==
    \/ bank = "sparkasse" /\ line.text \in {"entgelt", "umbuchung"}
    \/ bank = "revolut" /\ line.fee > 0
    \/ bank \in {"revolut", "vault"} /\ line.text = "zinsen" /\ line.signed < 0
    \/ bank = "scalable" /\ line.text = "tax" /\ line.signed > 0 /\ ~line.cancels

Mistaken(file) ==
    \/ \E j, k \in DOMAIN file :
          /\ file[j].text = "dividend" /\ ~file[j].cancels /\ file[k].day = file[j].day
          /\ file[k].isin = file[j].isin /\ file[k].text \in {"transfer", "transfer_out"}
          /\ ~file[k].cancels
    \/ \E k \in DOMAIN file : file[k].text = "close-out" /\ Cardinality(
          {j \in DOMAIN file : file[j].text = "dividend" /\ file[j].day = file[k].day
                               /\ file[j].isin = file[k].isin /\ ~file[j].cancels})
          < Cardinality({j \in DOMAIN file : file[j].text = "close-out"
                               /\ file[j].day = file[k].day /\ file[j].isin = file[k].isin})

BooksAreBanks ==
    \A bank \in Bank :
        LET settled == SelectSeq(lines[bank], LAMBDA line : line.settled)
        IN (/\ \A k \in DOMAIN settled : ~Misread(bank, settled[k])
            /\ ~Mistaken(settled)) =>
           /\ GetCashBalance(book, AccountOf[bank])
                = FoldLeft(LAMBDA acc, line : acc + line.signed, 0, settled)
           /\ \A i \in Isin : Shares(book, AccountOf[bank], i)
                = FoldLeft(LAMBDA acc, line : IF line.isin = i THEN acc + line.moved ELSE acc,
                           0, settled)

(* "Net // Income - Fixed - Variable" (handler/cashflow.go:41): over all   *)
(* months it is the money that came in and went out, moves within the      *)
(* portfolio aside.                                                        *)
NetIsWhatMoved ==
    MapThenSumSet(LAMBDA m : MonthTotals(m).net, Month)
        = SumOver(ListCashTransactions, LAMBDA r : ResolveCategory(r) \notin Transfer,
                  CashEffect)
=============================================================================
