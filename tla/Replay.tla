------------------------------- MODULE Replay -------------------------------
(***************************************************************************)
(* What one run of BackfillNetWorthSnapshots computes                      *)
(* (internal/scheduler/jobs.go:938-1269): the transactions are applied day *)
(* by day, in the order the query returned them, transfers between brokers *)
(* are paired and dropped, and at the end of each day the holdings are     *)
(* valued at prices and exchange rates found by binary search.             *)
(*                                                                         *)
(* Days are numbers.  Quantities and amounts are integers, so a holding    *)
(* under 0.001 is one of 0.  The value of a holding is abstracted to what  *)
(* it is the product of: its quantity, the point of the price history and  *)
(* the point of the rate history; None stands for the fallback of each     *)
(* (the cost basis, the unconverted value).  Costs themselves are left     *)
(* out.                                                                    *)
(***************************************************************************)
EXTENDS Integers, Sequences, FiniteSets, FiniteSetsExt

CONSTANTS
    Isin,        \* securities
    NoIsin,      \* NULL security_isin
    Euro,        \* the currency "EUR"
    CurrencyOf,  \* the currency of each security
    Yesterday,   \* the last day of the history
    TransitDays, \* 7: how long securities may be in transit
    Zones,       \* whether midnight here comes before midnight UTC
    Inputs       \* logs and histories to replay

Currency == {CurrencyOf[i] : i \in Isin} \ {Euro}
Series   == Isin \cup Currency
None     == 0

CashIn  == {"deposit", "interest", "cash_transfer_in"}
CashOut == {"withdrawal", "fee", "tax", "cash_transfer_out"}
Buys    == {"buy", "savings_plan"}

Type == CashIn \cup CashOut \cup Buys
          \cup {"sell", "dividend", "transfer", "transfer_out"}

Event == [day: Nat, type: Type, isin: Isin \cup {NoIsin}, qty: Nat, amt: Nat]

(* ORDER BY date DESC, turned round: days ascend, a day's order is open. *)
InOrder(events) == \A i, j \in DOMAIN events :
                      i < j => events[i].day <= events[j].day

(* ORDER BY date ASC over a primary key of series and date. *)
Ascending(points) == \A i, j \in DOMAIN points : i < j => points[i] < points[j]

ASSUME ReplayAssumption ==
    /\ Isin # {} /\ NoIsin \notin Isin /\ Euro \notin Isin
    /\ DOMAIN CurrencyOf = Isin /\ Currency \cap Isin = {}
    /\ Yesterday \in Nat /\ TransitDays \in Nat
    /\ Zones \subseteq BOOLEAN
    /\ \A in \in Inputs :
          /\ in.log \in Seq(Event) /\ in.log # <<>> /\ InOrder(in.log)
          /\ in.hist \in [Series -> Seq(Nat)]
          /\ \A s \in Series : Ascending(in.hist[s])

VARIABLES
    log,     \* the transactions, first to last
    hist,    \* the days with a price or rate, per series
    east,    \* whether time.Local is east of UTC
    pc,      \* where the run is
    dropped, \* the transfers that were paired
    pos,     \* the next transaction
    day,     \* the day being computed
    cash,    \* cashBalance
    qty,     \* the quantity of each holding, 0 when there is none
    todo,    \* the holdings still to be valued this day
    isin,    \* the holding being valued
    lo, hi, result, \* the search for its price or rate
    price,   \* the price found for it
    values   \* this day's values

vars == <<log, hist, east, pc, dropped, pos, day, cash, qty, todo, isin, lo, hi,
          result, price, values>>

input  == <<log, hist, east>>
search == <<lo, hi, result>>

(* The series being searched. *)
Searched == hist[IF pc = "rate" THEN CurrencyOf[isin] ELSE isin]

(* Prices and rates are positions in their series. *)
Value == [isin: Isin, qty: Nat, price: Nat, rate: Nat]

TypeOK ==
    /\ east \in BOOLEAN
    /\ pc \in {"pair", "apply", "value", "price", "rate", "done"}
    /\ dropped \subseteq DOMAIN log
    /\ pos \in 1 .. Len(log) + 1
    /\ day \in Nat
    /\ cash \in Int
    /\ qty \in [Isin -> Nat]
    /\ todo \subseteq Isin
    /\ isin \in Isin
    /\ pc = "rate" => CurrencyOf[isin] \in Currency
    /\ lo \in Nat /\ hi \in Nat /\ result \in Nat /\ price \in Nat
    /\ values \subseteq Value

Init ==
    /\ \E in \in Inputs : log = in.log /\ hist = in.hist
    /\ east \in Zones
    /\ pc = "pair"
    /\ dropped = {}
    /\ pos = 1
    /\ day = log[1].day
    /\ cash = 0
    /\ qty = [i \in Isin |-> 0]
    /\ todo = {}
    /\ isin = CHOOSE i \in Isin : TRUE
    /\ lo = 1 /\ hi = 0 /\ result = None
    /\ price = None
    /\ values = {}

-----------------------------------------------------------------------------
(* Transfers in transit *)

Outs == {i \in DOMAIN log : log[i].type = "transfer_out"
                            /\ log[i].isin # NoIsin}
Ins  == {i \in DOMAIN log : log[i].type = "transfer" /\ log[i].isin # NoIsin}

SameKey(i, j) == log[i].isin = log[j].isin /\ log[i].qty = log[j].qty

(* Mutant: the transfer may arrive any time later. *)
InTransitAnyTime(out, in) == log[in].day > log[out].day

InTransit(out, in) ==
    log[in].day - log[out].day \in 1 .. TransitDays

(* Outgoing transfers are keyed by security and quantity: of several, the  *)
(* map's order of iteration decides which day is kept.                     *)
KeptOuts == {outs \in SUBSET Outs :
                /\ \A i \in Outs : \E j \in outs : SameKey(i, j)
                /\ \A i, j \in outs : SameKey(i, j) => i = j}

(* So it does which of several matching arrivals is paired.  The first     *)
(* event of its day that fits is the one dropped.                          *)
Arrivals(out) == {in \in Ins : SameKey(out, in) /\ InTransit(out, in)}

FirstLike(i) == Min({j \in DOMAIN log : /\ log[j].day = log[i].day
                                        /\ log[j].type = log[i].type
                                        /\ SameKey(i, j)})

PairTransfers ==
    /\ pc = "pair"
    /\ \E outs \in KeptOuts :
         LET paired == {o \in outs : Arrivals(o) # {}}
         IN  \E in \in [paired -> Ins] :
               /\ \A o \in paired : in[o] \in Arrivals(o)
               /\ dropped' = {FirstLike(i) :
                                 i \in paired \cup {in[o] : o \in paired}}
    /\ pc' = IF day > Yesterday THEN "done" ELSE "apply"
    /\ UNCHANGED <<input, pos, day, cash, qty, todo, isin, search, price,
                   values>>

-----------------------------------------------------------------------------
(* The transactions of a day *)

(* Mutant: a cash type the switch forgets. *)
CashEffectNoTax(e) ==
    CASE e.type \in CashIn \cup {"sell", "dividend"} -> e.amt
      [] e.type \in (CashOut \ {"tax"}) \cup Buys -> -e.amt
      [] e.type = "transfer" /\ e.isin = NoIsin -> -e.amt
      [] OTHER -> 0

CashEffect(e) ==
    CASE e.type \in CashIn \cup {"sell", "dividend"} -> e.amt
      [] e.type \in CashOut \cup Buys -> -e.amt
      [] e.type = "transfer" /\ e.isin = NoIsin -> -e.amt
      [] OTHER -> 0

(* Shares one does not have are not sold. *)
Held(e, q) ==
    CASE e.type \in Buys \cup {"transfer"} -> q + e.qty
      [] e.type \in {"sell", "transfer_out"} ->
            IF q > e.qty THEN q - e.qty ELSE 0
      [] OTHER -> q

Due == pos <= Len(log) /\ log[pos].day = day

ApplyEvent ==
    LET e == log[pos]
    IN  /\ pc = "apply" /\ Due
        /\ pos' = pos + 1
        /\ IF pos \in dropped THEN UNCHANGED <<cash, qty>>
           ELSE /\ cash' = cash + CashEffect(e)
                /\ qty' = IF e.isin = NoIsin THEN qty
                          ELSE [qty EXCEPT ![e.isin] = Held(e, @)]
        /\ UNCHANGED <<input, pc, dropped, day, todo, isin, search, price,
                       values>>

EndOfEvents ==
    /\ pc = "apply" /\ ~Due
    /\ pc' = "value"
    /\ todo' = {i \in Isin : qty[i] > 0}
    /\ UNCHANGED <<input, dropped, pos, day, cash, qty, isin, search, price,
                   values>>

-----------------------------------------------------------------------------
(* getPriceAt and getFXRateAt *)

(* point.date.After(d): the date column is read as midnight UTC, d is      *)
(* midnight of time.Local.                                                 *)
IsAfter(point, d) == IF east THEN point >= d ELSE point > d

Find(points) == lo' = 1 /\ hi' = Len(points) /\ result' = None

(* Holdings are valued in the order of a map. *)
ValueNext ==
    /\ pc = "value"
    /\ \E i \in todo : isin' = i /\ Find(hist[i])
    /\ pc' = "price"
    /\ UNCHANGED <<input, dropped, pos, day, cash, qty, todo, price, values>>

Searching == pc \in {"price", "rate"}

(* Mutant: the last position is not looked at. *)
ProbeShort ==
    /\ Searching /\ lo <= hi
    /\ LET mid == (lo + hi) \div 2
       IN  IF lo = hi \/ IsAfter(Searched[mid], day)
           THEN hi' = mid - 1 /\ UNCHANGED <<lo, result>>
           ELSE lo' = mid + 1 /\ result' = mid /\ UNCHANGED hi
    /\ UNCHANGED <<input, pc, dropped, pos, day, cash, qty, todo, isin, price,
                   values>>

(* One pass of the search.  Positions count from 1 here. *)
Probe ==
    /\ Searching /\ lo <= hi
    /\ LET mid == (lo + hi) \div 2
       IN  IF IsAfter(Searched[mid], day)
           THEN hi' = mid - 1 /\ UNCHANGED <<lo, result>>
           ELSE lo' = mid + 1 /\ result' = mid /\ UNCHANGED hi
    /\ UNCHANGED <<input, pc, dropped, pos, day, cash, qty, todo, isin, price,
                   values>>

AddValue(p, r) ==
    /\ values' = values \cup {[isin |-> isin, qty |-> qty[isin], price |-> p,
                               rate |-> r]}
    /\ todo' = todo \ {isin}
    /\ pc' = "value"

(* Without a price the cost basis counts; euro need no rate. *)
PriceFound ==
    /\ pc = "price" /\ lo > hi
    /\ IF result = None \/ CurrencyOf[isin] = Euro
       THEN AddValue(result, None) /\ UNCHANGED <<search, price>>
       ELSE /\ price' = result
            /\ Find(hist[CurrencyOf[isin]])
            /\ pc' = "rate"
            /\ UNCHANGED <<todo, values>>
    /\ UNCHANGED <<input, dropped, pos, day, cash, qty, isin>>

RateFound ==
    /\ pc = "rate" /\ lo > hi
    /\ AddValue(price, result)
    /\ UNCHANGED <<input, dropped, pos, day, cash, qty, isin, search, price>>

(* All holdings are valued: the snapshot is stored (NetWorth) and the next *)
(* day begins.                                                             *)
DayDone == pc = "value" /\ todo = {}

NextDay ==
    /\ DayDone
    /\ IF day >= Yesterday THEN pc' = "done" /\ UNCHANGED day
       ELSE pc' = "apply" /\ day' = day + 1
    /\ values' = {}
    /\ UNCHANGED <<input, dropped, pos, cash, qty, todo, isin, search, price>>

Next ==
    \/ PairTransfers
    \/ ApplyEvent \/ EndOfEvents
    \/ ValueNext \/ Probe \/ PriceFound \/ RateFound
    \/ NextDay

Spec == Init /\ [][Next]_vars

-----------------------------------------------------------------------------
(* Properties *)

(* k is the last of the points up to day d, None when there is none. *)
IsLatest(points, d, k) ==
    /\ k \in 0 .. Len(points)
    /\ \A j \in 1 .. k : points[j] <= d
    /\ \A j \in k + 1 .. Len(points) : points[j] > d

(* Every holding is valued at the latest price up to day d and, in another *)
(* currency, at the latest rate.                                           *)
ValuedBy(d) ==
    \A v \in values :
        /\ IsLatest(hist[v.isin], d, v.price)
        /\ IF v.price = None \/ CurrencyOf[v.isin] = Euro THEN v.rate = None
           ELSE IsLatest(hist[CurrencyOf[v.isin]], d, v.rate)

(* "getPriceAt returns the most recent price on or before the given date"  *)
(* (jobs.go:1010), and getFXRateAt the rate (jobs.go:1037).                *)
ValuedOnOrBefore == ValuedBy(day)

(* At UTC and west of it the binary searches do find the latest price and  *)
(* rate on or before the day; east of it the latest of the days before:    *)
(* those of the day itself are never used.                                 *)
ValuedAtLatest == ValuedBy(IF east THEN day - 1 ELSE day)

(* The transactions up to and including a day. *)
Until(d) == {i \in DOMAIN log : log[i].day <= d}

(* GetCashBalance, which the live snapshot adds up (queries.sql). *)
Balance(e) ==
    CASE e.type \in {"deposit", "interest", "sell", "dividend",
                     "cash_transfer_in"} -> e.amt
      [] e.type \in {"buy", "savings_plan", "withdrawal", "fee", "tax",
                     "cash_transfer_out"} -> -e.amt
      [] e.type = "transfer" /\ e.isin = NoIsin -> -e.amt
      [] OTHER -> 0

(* The quantity current_holdings shows of a security, which the live       *)
(* snapshot values (migrations/002).                                       *)
Signed(e) ==
    CASE e.type \in {"buy", "savings_plan", "transfer"} -> e.qty
      [] e.type \in {"sell", "transfer_out"} -> -e.qty
      [] OTHER -> 0

ViewQuantity(i, events) ==
    LET signed(n) == Signed(log[n])
    IN  MapThenSumSet(signed, {n \in events : log[n].isin = i})

(* History and live snapshot agree on the cash: at the end of a day the    *)
(* replay has what GetCashBalance says of the transactions up to it.       *)
CashIsBalance ==
    LET balance(n) == Balance(log[n])
    IN  DayDone => cash = MapThenSumSet(balance, Until(day))

(* No transaction sells or sends shares the ones listed before it did not  *)
(* bring.                                                                  *)
NeverShort ==
    \A i \in Isin, n \in DOMAIN log : ViewQuantity(i, 1 .. n) >= 0

(* A security and quantity is sent once and arrives once. *)
UniqueTransfers ==
    \A i, j \in DOMAIN log :
        i # j /\ log[i].type \in {"transfer", "transfer_out"} /\ SameKey(i, j)
          => log[j].type # log[i].type

(* Shares that have left one broker by day d and reach the other later,    *)
(* within the days a transfer may take.                                    *)
OnTheWay(i, d) ==
    LET under == {o \in Outs : /\ log[o].isin = i
                               /\ log[o].day <= d
                               /\ \E a \in Ins :
                                     /\ SameKey(o, a)
                                     /\ log[a].day > d
                                     /\ log[a].day <= log[o].day + TransitDays}
        size(n) == log[n].qty
    IN  MapThenSumSet(size, under)

(* "the holdings persist untouched through the transit period"             *)
(* (jobs.go:1092-1095): a day's holdings are what the view shows of the    *)
(* transactions up to it, and the shares on their way.                     *)
HoldingsPersist ==
    NeverShort /\ UniqueTransfers /\ DayDone =>
        \A i \in Isin : qty[i] = ViewQuantity(i, Until(day)) + OnTheWay(i, day)
=============================================================================
