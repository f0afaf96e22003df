---------------------------- MODULE ReplayProofs ----------------------------
(***************************************************************************)
(* Proofs about Replay for any securities, logs and histories: every       *)
(* holding is valued at the latest point of its price history, and of its  *)
(* currency's rates, that its day may use, though both are found by a      *)
(* hand-written binary search; and the cash and the holdings of every day  *)
(* are those of the queries, summed over the log up to that day.           *)
(***************************************************************************)
EXTENDS Replay, Totals

(* A search over points for day d: what lies before l may be used, what    *)
(* lies after h may not, and r is the position before l.                   *)
SearchOK(points, d, l, h, r) ==
    /\ l \in 1 .. h + 1
    /\ h \in 0 .. Len(points)
    /\ r = l - 1
    /\ \A j \in 1 .. l - 1 : ~IsAfter(points[j], d)
    /\ \A j \in h + 1 .. Len(points) : IsAfter(points[j], d)

(* A history as the queries return it. *)
IsHistory(points) == points \in Seq(Nat) /\ Ascending(points)

InputOK ==
    /\ \A s \in Series : IsHistory(hist[s])
    /\ day \in Nat
    /\ east \in BOOLEAN

(* k is the last of the points that day d may use.                         *)
IsFound(points, d, k) ==
    /\ k \in 0 .. Len(points)
    /\ \A j \in 1 .. k : ~IsAfter(points[j], d)
    /\ \A j \in k + 1 .. Len(points) : IsAfter(points[j], d)

FoundOK ==
    \A v \in values :
        /\ v.isin \in Isin
        /\ IsFound(hist[v.isin], day, v.price)
        /\ IF v.price = None \/ CurrencyOf[v.isin] = Euro THEN v.rate = None
           ELSE IsFound(hist[CurrencyOf[v.isin]], day, v.rate)

PhaseOK ==
    /\ pc \in {"pair", "apply", "value", "price", "rate", "done"}
    /\ todo \subseteq Isin
    /\ Searching => isin \in Isin
    /\ pc = "rate" => /\ CurrencyOf[isin] # Euro
                      /\ price # None
                      /\ IsFound(hist[isin], day, price)
    /\ Searching => SearchOK(Searched, day, lo, hi, result)
    /\ pc \in {"pair", "apply"} => values = {}

ReplayInv == InputOK /\ PhaseOK /\ FoundOK

-----------------------------------------------------------------------------
(* One search *)

(* The points after one that is too late are too late.                     *)
LEMMA AfterUp ==
    ASSUME NEW points, IsHistory(points), NEW d \in Nat,
           NEW k \in 1 .. Len(points), IsAfter(points[k], d),
           NEW j \in k .. Len(points)
    PROVE  IsAfter(points[j], d)
<1>1. points[k] \in Nat /\ points[j] \in Nat
  BY DEF IsHistory
<1>2. points[k] <= points[j]
  <2>1. CASE j = k
    BY <2>1, <1>1
  <2>2. CASE j # k
    <3>1. k < j /\ k \in DOMAIN points /\ j \in DOMAIN points
      BY <2>2 DEF IsHistory
    <3>2. points[k] < points[j]
      BY <3>1 DEF IsHistory, Ascending
    <3>3. QED
      BY <3>2, <1>1
  <2>3. QED
    BY <2>1, <2>2
<1>3. QED
  BY <1>1, <1>2 DEF IsAfter

(* The points before one that may be used may be used.                     *)
LEMMA NotAfterDown ==
    ASSUME NEW points, IsHistory(points), NEW d \in Nat,
           NEW k \in 1 .. Len(points), ~IsAfter(points[k], d),
           NEW j \in 1 .. k
    PROVE  ~IsAfter(points[j], d)
<1>1. k \in j .. Len(points) /\ j \in 1 .. Len(points)
  BY DEF IsHistory
<1>2. QED
  BY <1>1, AfterUp

(* The middle lies between the ends.                                       *)
LEMMA Middle ==
    ASSUME NEW l \in Nat, NEW h \in Nat, 1 <= l, l <= h
    PROVE  (l + h) \div 2 \in l .. h
<1> DEFINE m == (l + h) \div 2
<1>1. m \in Nat /\ 2 * m <= l + h /\ l + h <= 2 * m + 1
  OBVIOUS
<1> HIDE DEF m
<1>2. m \in l .. h
  BY <1>1
<1>3. QED
  BY <1>2 DEF m

(* A search starts with everything open.                                   *)
LEMMA SearchBegins ==
    ASSUME NEW points, IsHistory(points), NEW d \in Nat
    PROVE  SearchOK(points, d, 1, Len(points), None)
<1>1. Len(points) \in Nat
  BY DEF IsHistory
<1>2. QED
  BY <1>1 DEF SearchOK, None

(* Giving up the upper half.                                               *)
LEMMA SearchDown ==
    ASSUME NEW points, IsHistory(points), NEW d \in Nat, NEW l, NEW h, NEW r,
           SearchOK(points, d, l, h, r), l <= h,
           NEW m \in l .. h, IsAfter(points[m], d)
    PROVE  SearchOK(points, d, l, m - 1, r)
<1>1. Len(points) \in Nat /\ l \in Nat /\ h \in Nat /\ m \in Nat
      /\ 1 <= l /\ h <= Len(points)
  BY DEF SearchOK, IsHistory
<1>2. m \in 1 .. Len(points)
  BY <1>1
<1>3. \A j \in m .. Len(points) : IsAfter(points[j], d)
  BY <1>2, AfterUp
<1>4. l \in 1 .. (m - 1) + 1 /\ m - 1 \in 0 .. Len(points)
  BY <1>1
<1>5. (m - 1) + 1 = m
  BY <1>1
<1>6. QED
  BY <1>3, <1>4, <1>5 DEF SearchOK

(* Giving up the lower half.                                               *)
LEMMA SearchUp ==
    ASSUME NEW points, IsHistory(points), NEW d \in Nat, NEW l, NEW h, NEW r,
           SearchOK(points, d, l, h, r), l <= h,
           NEW m \in l .. h, ~IsAfter(points[m], d)
    PROVE  SearchOK(points, d, m + 1, h, m)
<1>1. Len(points) \in Nat /\ l \in Nat /\ h \in Nat /\ m \in Nat
      /\ 1 <= l /\ h <= Len(points)
  BY DEF SearchOK, IsHistory
<1>2. m \in 1 .. Len(points)
  BY <1>1
<1>3. \A j \in 1 .. m : ~IsAfter(points[j], d)
  BY <1>2, NotAfterDown
<1>4. m + 1 \in 1 .. h + 1 /\ m = (m + 1) - 1
  BY <1>1
<1>5. QED
  BY <1>3, <1>4 DEF SearchOK

(* A search that is over has found the latest point.                       *)
LEMMA SearchEnds ==
    ASSUME NEW points, NEW d, NEW l, NEW h, NEW r,
           SearchOK(points, d, l, h, r), l > h, Len(points) \in Nat
    PROVE  IsFound(points, d, r)
<1>1. l = h + 1 /\ r = h /\ h \in Nat
  BY DEF SearchOK
<1>2. QED
  BY <1>1 DEF SearchOK, IsFound

-----------------------------------------------------------------------------
(* The run *)

(* A currency that is not the euro has a history of rates.                 *)
LEMMA CurrencySeries ==
    ASSUME NEW i \in Isin, CurrencyOf[i] # Euro
    PROVE  CurrencyOf[i] \in Series
BY DEF Series, Currency

(* No value is there at first.                                             *)
LEMMA InitReplayInv == Init => ReplayInv
<1> SUFFICES ASSUME Init PROVE ReplayInv
  OBVIOUS
<1>1. PICK in \in Inputs : log = in.log /\ hist = in.hist
  BY DEF Init
<1>2. /\ log \in Seq(Event) /\ log # <<>>
      /\ hist \in [Series -> Seq(Nat)]
      /\ \A s \in Series : Ascending(hist[s])
  BY <1>1, ReplayAssumption
<1>3. log[1] \in Event
  BY <1>2
<1>4. day \in Nat /\ east \in BOOLEAN
  BY <1>3, ReplayAssumption DEF Init, Event
<1>5. InputOK
  BY <1>2, <1>4 DEF InputOK, IsHistory
<1>6. PhaseOK
  BY DEF Init, PhaseOK, Searching
<1>7. FoundOK
  BY DEF Init, FoundOK
<1>8. QED
  BY <1>5, <1>6, <1>7 DEF ReplayInv

(* One pass of the search keeps it a search.                               *)
LEMMA ProbeKeeps ==
    ASSUME ReplayInv, Probe
    PROVE  ReplayInv'
<1> DEFINE points == Searched
           m      == (lo + hi) \div 2
<1>1. /\ Searching /\ lo <= hi
      /\ UNCHANGED <<hist, east, pc, day, todo, isin, price, values>>
  BY DEF Probe, input
<1>2. day \in Nat /\ isin \in Isin
  BY <1>1 DEF ReplayInv, InputOK, PhaseOK
<1>3. IsHistory(points)
  BY <1>1, <1>2, CurrencySeries
     DEF ReplayInv, InputOK, PhaseOK, Searched, Searching, Series
<1>4. SearchOK(points, day, lo, hi, result)
  BY <1>1 DEF ReplayInv, PhaseOK
<1>5. m \in lo .. hi
  <2>1. lo \in Nat /\ hi \in Nat /\ 1 <= lo
    BY <1>4, <1>3 DEF SearchOK, IsHistory
  <2>2. QED
    BY <2>1, <1>1, Middle
<1>6. SearchOK(points, day, lo', hi', result')
  <2>1. CASE IsAfter(points[m], day)
    <3>1. hi' = m - 1 /\ lo' = lo /\ result' = result
      BY <2>1 DEF Probe
    <3> HIDE DEF m, points
    <3>2. QED
      BY <3>1, <2>1, <1>1, <1>2, <1>3, <1>4, <1>5, SearchDown
  <2>2. CASE ~IsAfter(points[m], day)
    <3>1. hi' = hi /\ lo' = m + 1 /\ result' = m
      BY <2>2 DEF Probe
    <3> HIDE DEF m, points
    <3>2. QED
      BY <3>1, <2>2, <1>1, <1>2, <1>3, <1>4, <1>5, SearchUp
  <2>3. QED
    BY <2>1, <2>2
<1>7. Searched' = points
  BY <1>1 DEF Searched
<1>8. (SearchOK(Searched, day, lo, hi, result))'
  BY <1>1, <1>6, <1>7 DEF SearchOK, IsAfter
<1>9. (IsFound(hist[isin], day, price))' = IsFound(hist[isin], day, price)
  BY <1>1 DEF IsFound, IsAfter
<1>10. PhaseOK'
  BY <1>1, <1>8, <1>9 DEF ReplayInv, PhaseOK, Searching
<1>11. InputOK' /\ FoundOK'
  BY <1>1 DEF ReplayInv, InputOK, FoundOK, IsFound, IsAfter
<1>12. QED
  BY <1>10, <1>11 DEF ReplayInv

(* What the steps outside the search leave alone.                          *)
LEMMA Elsewhere ==
    ASSUME ReplayInv, UNCHANGED <<hist, east, day, values>>
    PROVE  InputOK' /\ FoundOK'
BY DEF ReplayInv, InputOK, FoundOK, IsFound, IsAfter

(* Transactions are applied before anything is valued.                     *)
LEMMA EventsKeep ==
    ASSUME ReplayInv, PairTransfers \/ ApplyEvent \/ EndOfEvents
    PROVE  ReplayInv'
<1>1. UNCHANGED <<hist, east, day, values>> /\ pc \in {"pair", "apply"}
  BY DEF PairTransfers, ApplyEvent, EndOfEvents, input
<1>2. values = {}
  BY <1>1 DEF ReplayInv, PhaseOK
<1>3. /\ pc' \in {"apply", "value", "done"}
      /\ todo' \subseteq Isin
  BY DEF ReplayInv, PhaseOK, PairTransfers, ApplyEvent, EndOfEvents
<1>4. PhaseOK'
  BY <1>1, <1>2, <1>3 DEF PhaseOK, Searching
<1>5. QED
  BY <1>1, <1>4, Elsewhere DEF ReplayInv

(* A search starts with every position open.                               *)
LEMMA ValueNextKeeps ==
    ASSUME ReplayInv, ValueNext
    PROVE  ReplayInv'
<1>1. /\ UNCHANGED <<hist, east, day, todo, values>>
      /\ pc' = "price" /\ isin' \in todo /\ Find(hist[isin'])
  BY DEF ValueNext, input
<1>2. isin' \in Isin /\ day \in Nat /\ todo \subseteq Isin
  BY <1>1 DEF ReplayInv, InputOK, PhaseOK
<1>3. IsHistory(hist[isin'])
  BY <1>2 DEF ReplayInv, InputOK, Series
<1>4. SearchOK(hist[isin'], day, 1, Len(hist[isin']), None)
  BY <1>2, <1>3, SearchBegins
<1>5. Searched' = hist[isin']
  BY <1>1 DEF Searched
<1>6. lo' = 1 /\ hi' = Len(hist[isin']) /\ result' = None
  BY <1>1 DEF Find
<1>7. (SearchOK(Searched, day, lo, hi, result))'
  BY <1>1, <1>4, <1>5, <1>6 DEF SearchOK, IsAfter
<1>8. PhaseOK'
  BY <1>1, <1>2, <1>7 DEF PhaseOK, Searching
<1>9. QED
  BY <1>1, <1>8, Elsewhere DEF ReplayInv

(* A value whose price and rate are the latest may be added.               *)
LEMMA AddValueKeeps ==
    ASSUME ReplayInv, NEW p, NEW r, AddValue(p, r), UNCHANGED <<hist, east, day>>, isin \in Isin,
           IsFound(hist[isin], day, p),
           IF p = None \/ CurrencyOf[isin] = Euro THEN r = None
           ELSE IsFound(hist[CurrencyOf[isin]], day, r)
    PROVE  ReplayInv'
<1> DEFINE new == [isin |-> isin, qty |-> qty[isin], price |-> p, rate |-> r]
<1>1. values' = values \cup {new} /\ todo' \subseteq todo /\ pc' = "value"
  BY DEF AddValue
<1>2. FoundOK'
  <2>1. \A v \in values \cup {new} :
           /\ v.isin \in Isin
           /\ IsFound(hist[v.isin], day, v.price)
           /\ IF v.price = None \/ CurrencyOf[v.isin] = Euro THEN v.rate = None
              ELSE IsFound(hist[CurrencyOf[v.isin]], day, v.rate)
    BY DEF ReplayInv, FoundOK
  <2>2. QED
    BY <1>1, <2>1 DEF FoundOK, IsFound, IsAfter
<1>3. InputOK' /\ PhaseOK'
  BY <1>1 DEF ReplayInv, InputOK, PhaseOK, Searching
<1>4. QED
  BY <1>2, <1>3 DEF ReplayInv

(* A search that has ended has found the latest price.                     *)
LEMMA PriceFoundKeeps ==
    ASSUME ReplayInv, PriceFound
    PROVE  ReplayInv'
<1>1. pc = "price" /\ lo > hi /\ UNCHANGED <<hist, east, day, isin>>
  BY DEF PriceFound, input
<1>2. day \in Nat /\ isin \in Isin
  BY <1>1 DEF ReplayInv, InputOK, PhaseOK, Searching
<1>3. IsHistory(hist[isin])
  BY <1>2 DEF ReplayInv, InputOK, Series
<1>4. SearchOK(hist[isin], day, lo, hi, result)
  BY <1>1 DEF ReplayInv, PhaseOK, Searching, Searched
<1>5. IsFound(hist[isin], day, result)
  BY <1>1, <1>3, <1>4, SearchEnds DEF IsHistory
<1>6. CASE result = None \/ CurrencyOf[isin] = Euro
  <2>1. AddValue(result, None)
    BY <1>6 DEF PriceFound
  <2>2. QED
    BY <2>1, <1>1, <1>2, <1>5, <1>6, AddValueKeeps
<1>7. CASE ~(result = None \/ CurrencyOf[isin] = Euro)
  <2> DEFINE rates == hist[CurrencyOf[isin]]
  <2>1. /\ UNCHANGED <<todo, values>> /\ price' = result /\ pc' = "rate"
        /\ lo' = 1 /\ hi' = Len(rates) /\ result' = None
    BY <1>7 DEF PriceFound, Find
  <2>2. IsHistory(rates)
    BY <1>2, <1>7, CurrencySeries DEF ReplayInv, InputOK
  <2>3. SearchOK(rates, day, 1, Len(rates), None)
    BY <1>2, <2>2, SearchBegins
  <2>4. Searched' = rates
    BY <1>1, <2>1 DEF Searched
  <2>5. (SearchOK(Searched, day, lo, hi, result))'
    BY <1>1, <2>1, <2>3, <2>4 DEF SearchOK, IsAfter
  <2>6. (IsFound(hist[isin], day, price))'
    BY <1>1, <1>5, <2>1 DEF IsFound, IsAfter
  <2>7. PhaseOK'
    BY <1>1, <1>2, <1>7, <2>1, <2>5, <2>6
       DEF ReplayInv, PhaseOK, Searching
  <2>8. QED
    BY <1>1, <2>1, <2>7, Elsewhere DEF ReplayInv
<1>8. QED
  BY <1>6, <1>7

(* So has one for a rate, and the value is added with both.                *)
LEMMA RateFoundKeeps ==
    ASSUME ReplayInv, RateFound
    PROVE  ReplayInv'
<1>1. /\ pc = "rate" /\ lo > hi /\ UNCHANGED <<hist, east, day>>
      /\ AddValue(price, result)
  BY DEF RateFound, input
<1>2. /\ isin \in Isin /\ CurrencyOf[isin] # Euro /\ price # None
      /\ IsFound(hist[isin], day, price)
      /\ SearchOK(hist[CurrencyOf[isin]], day, lo, hi, result)
  BY <1>1 DEF ReplayInv, PhaseOK, Searching, Searched
<1>3. IsHistory(hist[CurrencyOf[isin]])
  BY <1>2, CurrencySeries DEF ReplayInv, InputOK
<1>4. IsFound(hist[CurrencyOf[isin]], day, result)
  BY <1>1, <1>2, <1>3, SearchEnds DEF IsHistory
<1>5. QED
  BY <1>1, <1>2, <1>4, AddValueKeeps

(* A new day starts without values.                                        *)
LEMMA NextDayKeeps ==
    ASSUME ReplayInv, NextDay
    PROVE  ReplayInv'
<1>1. /\ values' = {} /\ UNCHANGED <<hist, east, todo>>
      /\ pc' \in {"done", "apply"} /\ day' \in {day, day + 1}
  BY DEF NextDay, input
<1>2. QED
  BY <1>1 DEF ReplayInv, InputOK, PhaseOK, FoundOK, Searching

-----------------------------------------------------------------------------
(* Theorems *)

(* The invariant is inductive.                                             *)
THEOREM ReplayInvInductive == ReplayInv /\ [Next]_vars => ReplayInv'
<1> SUFFICES ASSUME ReplayInv, [Next]_vars PROVE ReplayInv'
  OBVIOUS
<1>1. CASE PairTransfers \/ ApplyEvent \/ EndOfEvents
  BY <1>1, EventsKeep
<1>2. CASE ValueNext
  BY <1>2, ValueNextKeeps
<1>3. CASE Probe
  BY <1>3, ProbeKeeps
<1>4. CASE PriceFound
  BY <1>4, PriceFoundKeeps
<1>5. CASE RateFound
  BY <1>5, RateFoundKeeps
<1>6. CASE NextDay
  BY <1>6, NextDayKeeps
<1>7. CASE UNCHANGED vars
  <2>1. UNCHANGED <<hist, east, day, values, pc, todo, isin, lo, hi, result, price>>
    BY <1>7 DEF vars
  <2>2. PhaseOK'
    BY <2>1 DEF ReplayInv, PhaseOK, Searching, Searched, SearchOK, IsFound,
                IsAfter
  <2>3. QED
    BY <2>1, <2>2, Elsewhere DEF ReplayInv
<1>8. QED
  BY <1>1, <1>2, <1>3, <1>4, <1>5, <1>6, <1>7 DEF Next

LEMMA Comparison ==
    ASSUME NEW p \in Nat, NEW d \in Nat
    PROVE  /\ east => (IsAfter(p, d) <=> p > d - 1) /\ (~IsAfter(p, d) <=> p <= d - 1)
           /\ ~east => (IsAfter(p, d) <=> p > d) /\ (~IsAfter(p, d) <=> p <= d)
  BY DEF IsAfter

LEMMA Compared ==
    ASSUME NEW points, IsHistory(points), NEW d \in Nat, NEW k, IsFound(points, d, k)
    PROVE  IF east THEN IsLatest(points, d - 1, k) ELSE IsLatest(points, d, k)
<1>1. \A j \in 1 .. Len(points) : points[j] \in Nat
  BY DEF IsHistory
<1>2. Len(points) \in Nat /\ k \in 0 .. Len(points)
  BY DEF IsHistory, IsFound
<1>3. CASE east
  <2>1. \A j \in 1 .. k : points[j] <= d - 1
    BY <1>1, <1>2, <1>3, Comparison DEF IsFound
  <2>2. \A j \in k + 1 .. Len(points) : points[j] > d - 1
    BY <1>1, <1>2, <1>3, Comparison DEF IsFound
  <2> QED
    BY <1>2, <1>3, <2>1, <2>2 DEF IsLatest
<1>4. CASE ~east
  <2>1. \A j \in 1 .. k : points[j] <= d
    BY <1>1, <1>2, <1>4, Comparison DEF IsFound
  <2>2. \A j \in k + 1 .. Len(points) : points[j] > d
    BY <1>1, <1>2, <1>4, Comparison DEF IsFound
  <2> QED
    BY <1>2, <1>4, <2>1, <2>2 DEF IsLatest
<1> QED
  BY <1>3, <1>4

LEMMA Valued ==
    ASSUME ReplayInv
    PROVE  ValuedAtLatest
<1> DEFINE last == IF east THEN day - 1 ELSE day
<1>1. ASSUME NEW v \in values PROVE IsLatest(hist[v.isin], last, v.price)
  <2>1. v.isin \in Isin /\ IsFound(hist[v.isin], day, v.price) /\ day \in Nat
    BY DEF ReplayInv, FoundOK, InputOK
  <2>2. IsHistory(hist[v.isin])
    BY <2>1 DEF ReplayInv, InputOK, Series
  <2> QED
    BY <2>1, <2>2, Compared
<1>2. ASSUME NEW v \in values, v.price # None, CurrencyOf[v.isin] # Euro
      PROVE  IsLatest(hist[CurrencyOf[v.isin]], last, v.rate)
  <2>1. v.isin \in Isin /\ IsFound(hist[CurrencyOf[v.isin]], day, v.rate) /\ day \in Nat
    BY <1>2 DEF ReplayInv, FoundOK, InputOK
  <2>2. IsHistory(hist[CurrencyOf[v.isin]])
    BY <1>2, <2>1 DEF ReplayInv, InputOK, Series, Currency
  <2> QED
    BY <2>1, <2>2, Compared
<1>3. \A v \in values : v.price = None \/ CurrencyOf[v.isin] = Euro => v.rate = None
  BY DEF ReplayInv, FoundOK
<1>4. ValuedBy(last)
  BY <1>1, <1>2, <1>3 DEF ValuedBy
<1> QED
  BY <1>4 DEF ValuedAtLatest

(* On every day of every replay each holding is valued at the latest price *)
(* on or before the day and, in another currency, at the latest such rate  *)
(* (getPriceAt, getFXRateAt); east of UTC at the latest of the days before.*)
THEOREM ValuesSafe == Spec => []ValuedAtLatest
BY InitReplayInv, ReplayInvInductive, Valued, PTL DEF Spec

-----------------------------------------------------------------------------
(* The three sums of this module are totals of functions.                  *)
LEMMA BalanceTotal ==
    ASSUME NEW S, IsFiniteSet(S)
    PROVE  LET balance(n) == Balance(log[n])
           IN  MapThenSumSet(balance, S)
                  = Total([n \in S |-> Balance(log[n])], S)
<1> DEFINE F == [n \in S |-> Balance(log[n])]
           it == CHOOSE it : it = [s \in SUBSET S |->
                    IF s = {} THEN 0
                    ELSE Balance(log[Pick(s)]) + it[s \ {Pick(s)}]]
<1>1. PICK a : AddsUp(a, F, S) /\ Total(F, S) = a[S]
  BY AddsUpExists, TotalIs
<1>2. \A s \in SUBSET S : s # {} => F[Pick(s)] = Balance(log[Pick(s)])
  BY PickIn
<1> HIDE DEF F
<1>3. ASSUME NEW b
      PROVE  [s \in SUBSET S |-> IF s = {} THEN 0
                 ELSE F[Pick(s)] + b[s \ {Pick(s)}]]
             = [s \in SUBSET S |-> IF s = {} THEN 0
                 ELSE Balance(log[Pick(s)]) + b[s \ {Pick(s)}]]
  BY <1>2
<1>4. it = [s \in SUBSET S |-> IF s = {} THEN 0
               ELSE Balance(log[Pick(s)]) + it[s \ {Pick(s)}]]
  BY <1>1, <1>3 DEF AddsUp
<1> HIDE DEF it
<1>5. AddsUp(it, F, S)
  BY <1>3, <1>4 DEF AddsUp
<1>6. it[S] = a[S]
  BY <1>1, <1>5, AddsUpOnce
<1>7. MapThenSumSet(LAMBDA n : Balance(log[n]), S) = it[S]
  BY DEF MapThenSumSet, MapThenFoldSet, Pick, it
<1>8. QED
  BY <1>1, <1>6, <1>7 DEF F

-----------------------------------------------------------------------------
(* Where a run stands in the log: before pos is what it has applied.       *)
LogOK == log \in Seq(Event) /\ InOrder(log)

CursorOK ==
    /\ day \in Nat
    /\ pos \in 1 .. Len(log) + 1
    /\ \A n \in DOMAIN log : n < pos => log[n].day <= day
    /\ pc = "pair" => pos = 1 /\ dropped = {}
    /\ pc \in {"pair", "apply"} =>
          \A n \in DOMAIN log : n >= pos => log[n].day >= day
    /\ pc \in {"value", "price", "rate"} =>
          \A n \in DOMAIN log : n >= pos => log[n].day > day

IsTransfer(n) == /\ log[n].type \in {"transfer", "transfer_out"}
                 /\ log[n].isin # NoIsin

(* Only transfers of shares are dropped, and they move no cash.            *)
DroppedOK == \A n \in dropped : n \in DOMAIN log /\ IsTransfer(n)

BalanceOf == [n \in DOMAIN log |-> Balance(log[n])]

(* The cash is the sum of what has been applied.                           *)
CashOK == cash = Total(BalanceOf, 1 .. pos - 1)

CashInv == LogOK /\ CursorOK /\ DroppedOK /\ CashOK

(* The log, its fields and its order.                                      *)
LEMMA LogFacts ==
    ASSUME LogOK
    PROVE  /\ Len(log) \in Nat /\ DOMAIN log = 1 .. Len(log)
           /\ IsFiniteSet(DOMAIN log)
           /\ \A n \in DOMAIN log :
                 /\ log[n] \in Event /\ n \in Nat
                 /\ log[n].day \in Nat /\ log[n].qty \in Nat /\ log[n].amt \in Nat
                 /\ log[n].type \in Type
                 /\ log[n].isin \in Isin \cup {NoIsin}
           /\ \A m, n \in DOMAIN log : m < n => log[m].day <= log[n].day
           /\ \A m, n \in DOMAIN log : log[m].day < log[n].day => m < n
<1>1. Len(log) \in Nat /\ DOMAIN log = 1 .. Len(log)
  BY DEF LogOK
<1>2. IsFiniteSet(DOMAIN log)
  BY <1>1, FS_Interval
<1>3. \A n \in DOMAIN log : log[n] \in Event /\ n \in Nat
  BY DEF LogOK
<1>4. \A n \in DOMAIN log :
         /\ log[n].day \in Nat /\ log[n].qty \in Nat /\ log[n].amt \in Nat
         /\ log[n].type \in Type
         /\ log[n].isin \in Isin \cup {NoIsin}
  BY <1>3 DEF Event
<1>5. \A m, n \in DOMAIN log : m < n => log[m].day <= log[n].day
  BY DEF LogOK, InOrder
<1>6. \A m, n \in DOMAIN log : log[m].day < log[n].day => m < n
  <2> SUFFICES ASSUME NEW m \in DOMAIN log, NEW n \in DOMAIN log,
                      log[m].day < log[n].day, ~(m < n)
               PROVE  FALSE
    OBVIOUS
  <2>1. m \in Nat /\ n \in Nat /\ log[m].day \in Nat /\ log[n].day \in Nat
    BY <1>3, <1>4
  <2>2. m = n \/ n < m
    BY <2>1
  <2>3. log[n].day <= log[m].day
    BY <1>5, <2>1, <2>2
  <2>4. QED
    BY <2>1, <2>3
<1>7. QED
  BY <1>1, <1>2, <1>3, <1>4, <1>5, <1>6

(* The transactions up to the end of a day are the applied ones.           *)
LEMMA UntilIsPrefix ==
    ASSUME LogOK, CursorOK, pc = "value"
    PROVE  Until(day) = 1 .. pos - 1
<1>1. /\ pos \in 1 .. Len(log) + 1 /\ DOMAIN log = 1 .. Len(log)
      /\ Len(log) \in Nat /\ day \in Nat
      /\ \A n \in DOMAIN log : log[n].day \in Nat
  BY LogFacts DEF CursorOK
<1>2. ASSUME NEW n \in DOMAIN log PROVE n \in Until(day) <=> n < pos
  <2>1. n < pos => log[n].day <= day
    BY DEF CursorOK
  <2>2. n >= pos => log[n].day > day
    BY DEF CursorOK
  <2>3. QED
    BY <1>1, <2>1, <2>2 DEF Until
<1>3. Until(day) \subseteq DOMAIN log
  BY DEF Until
<1>4. ASSUME NEW n \in Until(day) PROVE n \in 1 .. pos - 1
  BY <1>1, <1>2, <1>3
<1>5. ASSUME NEW n \in 1 .. pos - 1 PROVE n \in Until(day)
  BY <1>1, <1>2
<1>6. QED
  BY <1>4, <1>5

(* An event stands for one of its own kind.                                *)
LEMMA FirstLikeIs ==
    ASSUME LogOK, NEW i \in DOMAIN log
    PROVE  /\ FirstLike(i) \in DOMAIN log
           /\ log[FirstLike(i)].type = log[i].type
           /\ SameKey(i, FirstLike(i))
<1> DEFINE S == {j \in DOMAIN log : /\ log[j].day = log[i].day
                                    /\ log[j].type = log[i].type
                                    /\ SameKey(i, j)}
<1>1. i \in S
  BY DEF SameKey
<1>2. S \in SUBSET Nat
  BY LogFacts
<1>3. \E x \in S : \A y \in S : x <= y
  <2> HIDE DEF S
  <2> QED
    BY <1>1, <1>2, LeastElement
<1>4. Min(S) \in S
  <2> HIDE DEF S
  <2> QED
    BY <1>3 DEF Min
<1>5. FirstLike(i) = Min(S)
  BY DEF FirstLike
<1>6. QED
  BY <1>4, <1>5

(* Only transfers of shares are dropped.                                   *)
LEMMA PairDrops ==
    ASSUME LogOK, PairTransfers
    PROVE  \A n \in dropped' : n \in DOMAIN log /\ IsTransfer(n)
<1>1. PICK outs \in KeptOuts :
        LET paired == {o \in outs : Arrivals(o) # {}}
        IN  \E in \in [paired -> Ins] :
              /\ \A o \in paired : in[o] \in Arrivals(o)
              /\ dropped' = {FirstLike(i) :
                                i \in paired \cup {in[o] : o \in paired}}
  BY DEF PairTransfers
<1> DEFINE paired == {o \in outs : Arrivals(o) # {}}
<1>2. PICK in \in [paired -> Ins] :
        dropped' = {FirstLike(i) : i \in paired \cup {in[o] : o \in paired}}
  BY <1>1
<1>3. \A i \in paired \cup {in[o] : o \in paired} : i \in Outs \cup Ins
  BY DEF KeptOuts
<1>4. ASSUME NEW i \in Outs \cup Ins
      PROVE  FirstLike(i) \in DOMAIN log /\ IsTransfer(FirstLike(i))
  <2>1. i \in DOMAIN log /\ IsTransfer(i)
    BY DEF Outs, Ins, IsTransfer
  <2>2. QED
    BY <2>1, FirstLikeIs DEF IsTransfer, SameKey
<1> HIDE DEF paired
<1>5. QED
  BY <1>2, <1>3, <1>4

(* What the snapshot sums in SQL is a total.                               *)
LEMMA BalanceSum ==
    ASSUME NEW S \in SUBSET DOMAIN log, IsFiniteSet(S)
    PROVE  LET balance(n) == Balance(log[n])
           IN  MapThenSumSet(balance, S) = Total(BalanceOf, S)
<1> DEFINE F == [n \in S |-> Balance(log[n])]
<1>1. \A n \in S : F[n] = BalanceOf[n]
  BY DEF BalanceOf
<1> HIDE DEF F
<1>2. Total(F, S) = Total(BalanceOf, S)
  BY <1>1, TotalSame
<1>3. QED
  BY <1>2, BalanceTotal DEF F

(* The switch of the replay and the sum of the query agree on each event;  *)
(* a transfer of shares moves no cash.                                     *)
LEMMA BalanceIsEffect ==
    ASSUME NEW e \in Event
    PROVE  /\ Balance(e) = CashEffect(e) /\ Balance(e) \in Int
           /\ e.type \in {"transfer", "transfer_out"} /\ e.isin # NoIsin =>
                 Balance(e) = 0
<1>1. e.type \in Type /\ e.amt \in Nat
  BY DEF Event
<1>2. QED
  BY <1>1 DEF Balance, CashEffect, CashIn, CashOut, Buys, Type

(* A run starts before the first event, without cash.                      *)
LEMMA InitCash == Init => CashInv
<1> SUFFICES ASSUME Init PROVE CashInv
  OBVIOUS
<1>1. LogOK /\ log # <<>>
  BY ReplayAssumption DEF Init, LogOK
<1>2. 1 \in DOMAIN log /\ Len(log) \in Nat
  BY <1>1, LogFacts DEF LogOK
<1>3. day = log[1].day /\ pos = 1 /\ pc = "pair" /\ dropped = {} /\ cash = 0
  BY DEF Init
<1>4. day \in Nat /\ \A n \in DOMAIN log : log[n].day >= day
  <2>1. day \in Nat
    BY <1>1, <1>2, <1>3, LogFacts
  <2>2. ASSUME NEW n \in DOMAIN log PROVE log[n].day >= day
    <3>1. n \in Nat /\ n >= 1 /\ log[n].day \in Nat
      BY <1>1, LogFacts
    <3>2. CASE n = 1
      BY <1>3, <2>1, <3>2
    <3>3. CASE 1 < n
      BY <1>1, <1>2, <1>3, <2>1, <3>1, <3>3, LogFacts
    <3>4. QED
      BY <3>1, <3>2, <3>3
  <2>3. QED
    BY <2>1, <2>2
<1>5. CursorOK
  <2>1. pos \in 1 .. Len(log) + 1
    BY <1>2, <1>3
  <2>2. \A n \in DOMAIN log : ~(n < pos)
    BY <1>1, <1>3, LogFacts
  <2>3. QED
    BY <1>3, <1>4, <2>1, <2>2 DEF CursorOK
<1>6. CashOK
  <2>1. Total(BalanceOf, {}) = 0
    BY TotalStep, FS_EmptySet
  <2>2. 1 .. pos - 1 = {}
    BY <1>3
  <2>3. QED
    BY <1>3, <2>1, <2>2 DEF CashOK
<1>7. QED
  BY <1>1, <1>3, <1>5, <1>6 DEF CashInv, DroppedOK

(* The next event is the first that has not been applied.                  *)
LEMMA ApplyStep ==
    ASSUME LogOK, CursorOK, ApplyEvent
    PROVE  /\ pos \in DOMAIN log /\ pos' = pos + 1
           /\ 1 .. pos' - 1 = (1 .. pos - 1) \cup {pos}
           /\ pos \notin 1 .. pos - 1
           /\ IsFiniteSet(1 .. pos - 1) /\ 1 .. pos - 1 \subseteq DOMAIN log
<1>1. pos \in 1 .. Len(log) + 1 /\ pos <= Len(log) /\ pos' = pos + 1
  BY DEF CursorOK, ApplyEvent, Due
<1>2. Len(log) \in Nat /\ DOMAIN log = 1 .. Len(log)
  BY LogFacts
<1>3. IsFiniteSet(1 .. pos - 1)
  BY <1>1, FS_Interval
<1>4. QED
  BY <1>1, <1>2, <1>3

(* Every step keeps the cursor between two days of the log.                *)
LEMMA CursorStays ==
    ASSUME LogOK, CursorOK, [Next]_vars
    PROVE  LogOK' /\ CursorOK'
<1> USE DEF input, search
<1>1. log' = log
  BY DEF Next, vars, PairTransfers, ApplyEvent, EndOfEvents, ValueNext, Probe,
     PriceFound, RateFound, NextDay
<1>2. LogOK'
  BY <1>1 DEF LogOK, InOrder
<1> SUFFICES CursorOK'
  BY <1>2
<1>3. /\ Len(log) \in Nat /\ DOMAIN log = 1 .. Len(log)
      /\ day \in Nat /\ pos \in 1 .. Len(log) + 1 /\ pos \in Nat
      /\ \A n \in DOMAIN log : n \in Nat /\ log[n].day \in Nat
  BY LogFacts DEF CursorOK
<1>4. CASE PairTransfers
  BY <1>1, <1>4 DEF PairTransfers, CursorOK
<1>5. CASE ApplyEvent
  <2>1. log[pos].day = day /\ pc = "apply" /\ pc' = pc /\ day' = day
    BY <1>5 DEF ApplyEvent, Due
  <2>2. pos \in DOMAIN log /\ pos' = pos + 1
    BY <1>5, ApplyStep
  <2>3. pos' \in 1 .. Len(log) + 1
    BY <1>3, <2>2
  <2>4. ASSUME NEW n \in DOMAIN log
        PROVE  /\ n < pos' => log[n].day <= day
               /\ n >= pos' => log[n].day >= day
    <3>1. n < pos => log[n].day <= day
      BY DEF CursorOK
    <3>2. n >= pos => log[n].day >= day
      BY <2>1 DEF CursorOK
    <3>3. n = pos => log[n].day <= day
      BY <1>3, <2>1
    <3>4. QED
      BY <1>3, <2>2, <3>1, <3>2, <3>3
  <2>5. QED
    BY <1>1, <1>3, <2>1, <2>3, <2>4 DEF CursorOK
<1>6. CASE EndOfEvents
  <2>1. pc = "apply" /\ pc' = "value" /\ ~Due /\ UNCHANGED <<pos, day, dropped>>
    BY <1>6 DEF EndOfEvents
  <2>2. ASSUME NEW n \in DOMAIN log, n >= pos PROVE log[n].day > day
    <3>1. pos \in DOMAIN log /\ pos <= Len(log)
      BY <1>3, <2>2
    <3>2. log[pos].day >= day /\ log[pos].day # day
      BY <1>3, <2>1, <3>1 DEF CursorOK, Due
    <3>3. log[pos].day > day
      BY <1>3, <3>1, <3>2
    <3>4. log[pos].day <= log[n].day
      BY <1>3, <2>2, <3>1, LogFacts
    <3>5. QED
      BY <1>3, <3>1, <3>3, <3>4
  <2>3. QED
    BY <1>1, <2>1, <2>2 DEF CursorOK
<1>7. CASE ValueNext
  BY <1>1, <1>7 DEF ValueNext, CursorOK
<1>8. CASE Probe
  BY <1>1, <1>8 DEF Probe, CursorOK
<1>9. CASE PriceFound
  BY <1>1, <1>9 DEF PriceFound, AddValue, CursorOK
<1>10. CASE RateFound
  BY <1>1, <1>10 DEF RateFound, AddValue, CursorOK
<1>11. CASE NextDay
  <2>1. pc = "value" /\ UNCHANGED <<pos, dropped>>
    BY <1>11 DEF NextDay, DayDone
  <2>2. \A n \in DOMAIN log : n >= pos => log[n].day > day
    BY <2>1 DEF CursorOK
  <2>3. CASE pc' = "done" /\ day' = day
    BY <1>1, <2>1, <2>3 DEF CursorOK
  <2>4. CASE pc' = "apply" /\ day' = day + 1
    <3>1. \A n \in DOMAIN log : n >= pos => log[n].day >= day + 1
      BY <1>3, <2>2
    <3>2. \A n \in DOMAIN log : n < pos => log[n].day <= day + 1
      <4>1. \A n \in DOMAIN log : n < pos => log[n].day <= day
        BY DEF CursorOK
      <4>2. QED
        BY <1>3, <4>1
    <3>3. QED
      BY <1>1, <1>3, <2>1, <2>4, <3>1, <3>2 DEF CursorOK
  <2>5. QED
    BY <1>11, <2>3, <2>4 DEF NextDay
<1>12. CASE UNCHANGED vars
  BY <1>1, <1>12 DEF vars, CursorOK
<1>13. QED
  BY <1>4, <1>5, <1>6, <1>7, <1>8, <1>9, <1>10, <1>11, <1>12 DEF Next

(* Every step keeps the cash at the sum of what has been applied.          *)
LEMMA CashStays ==
    ASSUME CashInv, [Next]_vars
    PROVE  CashInv'
<1> USE DEF input, search
<1>1. LogOK /\ CursorOK /\ LogOK' /\ CursorOK' /\ DroppedOK /\ CashOK
  BY CursorStays DEF CashInv
<1>2. log' = log /\ BalanceOf' = BalanceOf
  BY DEF Next, vars, PairTransfers, ApplyEvent, EndOfEvents, ValueNext, Probe,
     PriceFound, RateFound, NextDay, BalanceOf, Balance
<1>3. DroppedOK'
  <2>1. CASE PairTransfers
    BY <1>1, <1>2, <2>1, PairDrops DEF DroppedOK, IsTransfer
  <2>2. CASE ~PairTransfers
    <3>1. dropped' = dropped
      BY <2>2 DEF Next, vars, ApplyEvent, EndOfEvents, ValueNext, Probe,
         PriceFound, RateFound, NextDay
    <3>2. QED
      BY <1>1, <1>2, <3>1 DEF DroppedOK, IsTransfer
  <2>3. QED
    BY <2>1, <2>2
<1>4. CASE ApplyEvent
  <2> DEFINE S == 1 .. pos - 1
  <2>1. /\ pos \in DOMAIN log /\ pos \notin S /\ S \subseteq DOMAIN log
        /\ IsFiniteSet(S) /\ 1 .. pos' - 1 = S \cup {pos}
    BY <1>1, <1>4, ApplyStep
  <2>2. \A n \in DOMAIN log : BalanceOf[n] \in Int
    BY <1>1, LogFacts, BalanceIsEffect DEF BalanceOf
  <2> HIDE DEF S
  <2>3. Total(BalanceOf, S \cup {pos}) = Total(BalanceOf, S) + BalanceOf[pos]
    BY <2>1, <2>2, TotalAdd
  <2>4. log[pos] \in Event /\ BalanceOf[pos] = Balance(log[pos])
    BY <1>1, <2>1, LogFacts DEF BalanceOf
  <2>5. cash = Total(BalanceOf, S)
    BY <1>1 DEF CashOK, S
  <2>6. cash' = cash + BalanceOf[pos]
    <3>1. CASE pos \in dropped
      <4>1. BalanceOf[pos] = 0 /\ cash' = cash
        BY <1>1, <1>4, <2>4, <3>1, BalanceIsEffect
           DEF DroppedOK, IsTransfer, ApplyEvent
      <4>2. cash \in Int
        BY <2>1, <2>2, <2>5, TotalType
      <4>3. QED
        BY <4>1, <4>2
    <3>2. CASE pos \notin dropped
      BY <1>4, <2>4, <3>2, BalanceIsEffect DEF ApplyEvent
    <3>3. QED
      BY <3>1, <3>2
  <2>7. CashOK'
    BY <1>2, <2>1, <2>3, <2>5, <2>6 DEF CashOK
  <2>8. QED
    BY <1>1, <1>3, <2>7 DEF CashInv
<1>5. CASE ~ApplyEvent
  <2>1. cash' = cash /\ pos' = pos
    BY <1>5 DEF Next, vars, PairTransfers, EndOfEvents, ValueNext, Probe,
       PriceFound, RateFound, NextDay
  <2>2. CashOK'
    BY <1>1, <1>2, <2>1 DEF CashOK
  <2>3. QED
    BY <1>1, <1>3, <2>2 DEF CashInv
<1>6. QED
  BY <1>4, <1>5

(* History and live snapshot agree on the cash of every day, for any log:  *)
(* the replay adds up event by event, with a switch of its own, what       *)
(* GetCashBalance sums in SQL (jobs.go:1106-1150, queries.sql).            *)
THEOREM CashAgrees == Spec => []CashIsBalance
<1>1. CashInv => CashIsBalance
  <2> SUFFICES ASSUME CashInv, DayDone
               PROVE  LET balance(n) == Balance(log[n])
                      IN  cash = MapThenSumSet(balance, Until(day))
    BY DEF CashIsBalance
  <2>1. LogOK /\ CursorOK /\ pc = "value" /\ CashOK
    BY DEF CashInv, DayDone
  <2>2. Until(day) = 1 .. pos - 1
    BY <2>1, UntilIsPrefix
  <2>3. Until(day) \in SUBSET DOMAIN log /\ IsFiniteSet(Until(day))
    BY <2>1, LogFacts, FS_Subset DEF Until
  <2>4. QED
    BY <2>1, <2>2, <2>3, BalanceSum DEF CashOK
<1>2. QED
  BY <1>1, InitCash, CashStays, PTL DEF Spec

-----------------------------------------------------------------------------
(* Holdings *)

(* o is the sending and a the receiving end of one transfer.               *)
Transit(o, a) == SameKey(o, a) /\ InTransit(o, a)

(* The transfers that are dropped: those that left and arrived in time.    *)
Sent(n)     == n \in Outs /\ \E a \in Ins : Transit(n, a)
Received(n) == n \in Ins /\ \E o \in Outs : Transit(o, n)

SignedOf == [n \in DOMAIN log |-> Signed(log[n])]
SizeOf   == [n \in DOMAIN log |-> log[n].qty]

(* The transactions of i before m.                                         *)
Of(i, m) == {n \in 1 .. m - 1 : log[n].isin = i}

(* Shares that left among the first transactions and arrive after them.    *)
Away(i, m) == {o \in Outs : /\ log[o].isin = i /\ o < m
                            /\ \E a \in Ins : a >= m /\ Transit(o, a)}

QtyOK == qty \in [Isin -> Nat]

(* NeverShort, of totals.                                                  *)
NotShort ==
    \A i \in Isin, n \in DOMAIN log : Total(SignedOf, Of(i, n + 1)) >= 0

(* The holdings are what the applied events say, and what has left one     *)
(* account and not reached the other.                                      *)
HoldOK ==
    NotShort /\ UniqueTransfers =>
        IF pc = "pair" THEN qty = [i \in Isin |-> 0]
        ELSE /\ dropped = {n \in DOMAIN log : Sent(n) \/ Received(n)}
             /\ \A i \in Isin :
                   qty[i] = Total(SignedOf, Of(i, pos))
                               + Total(SizeOf, Away(i, pos))

HoldInv == LogOK /\ CursorOK /\ QtyOK /\ HoldOK

(* The shares the view sums are a total.                                   *)
LEMMA SignedSum ==
    ASSUME NEW S \in SUBSET DOMAIN log, IsFiniteSet(S)
    PROVE  LET signed(n) == Signed(log[n])
           IN  MapThenSumSet(signed, S) = Total(SignedOf, S)
<1> DEFINE it == CHOOSE it : it = [s \in SUBSET S |->
                    IF s = {} THEN 0
                    ELSE Signed(log[Pick(s)]) + it[s \ {Pick(s)}]]
<1>1. \A s \in SUBSET S : s # {} => SignedOf[Pick(s)] = Signed(log[Pick(s)])
  BY PickIn DEF SignedOf
<1>2. ASSUME NEW b
      PROVE  [s \in SUBSET S |-> IF s = {} THEN 0
                 ELSE SignedOf[Pick(s)] + b[s \ {Pick(s)}]]
             = [s \in SUBSET S |-> IF s = {} THEN 0
                 ELSE Signed(log[Pick(s)]) + b[s \ {Pick(s)}]]
  BY <1>1
<1>3. PICK a : AddsUp(a, SignedOf, S)
  BY AddsUpExists
<1>4. it = [s \in SUBSET S |-> IF s = {} THEN 0
               ELSE Signed(log[Pick(s)]) + it[s \ {Pick(s)}]]
  BY <1>2, <1>3 DEF AddsUp
<1> HIDE DEF it
<1>5. AddsUp(it, SignedOf, S)
  BY <1>2, <1>4 DEF AddsUp
<1>6. it[S] = Total(SignedOf, S)
  BY <1>5, SummedIs
<1>7. MapThenSumSet(LAMBDA n : Signed(log[n]), S) = it[S]
  BY DEF MapThenSumSet, MapThenFoldSet, Pick, it
<1>8. QED
  BY <1>6, <1>7

(* The shares in transit are a total.                                      *)
LEMMA SizeSum ==
    ASSUME NEW S \in SUBSET DOMAIN log, IsFiniteSet(S)
    PROVE  LET size(n) == log[n].qty
           IN  MapThenSumSet(size, S) = Total(SizeOf, S)
<1> DEFINE it == CHOOSE it : it = [s \in SUBSET S |->
                    IF s = {} THEN 0
                    ELSE log[Pick(s)].qty + it[s \ {Pick(s)}]]
<1>1. \A s \in SUBSET S : s # {} => SizeOf[Pick(s)] = log[Pick(s)].qty
  BY PickIn DEF SizeOf
<1>2. ASSUME NEW b
      PROVE  [s \in SUBSET S |-> IF s = {} THEN 0
                 ELSE SizeOf[Pick(s)] + b[s \ {Pick(s)}]]
             = [s \in SUBSET S |-> IF s = {} THEN 0
                 ELSE log[Pick(s)].qty + b[s \ {Pick(s)}]]
  BY <1>1
<1>3. PICK a : AddsUp(a, SizeOf, S)
  BY AddsUpExists
<1>4. it = [s \in SUBSET S |-> IF s = {} THEN 0
               ELSE log[Pick(s)].qty + it[s \ {Pick(s)}]]
  BY <1>2, <1>3 DEF AddsUp
<1> HIDE DEF it
<1>5. AddsUp(it, SizeOf, S)
  BY <1>2, <1>4 DEF AddsUp
<1>6. it[S] = Total(SizeOf, S)
  BY <1>5, SummedIs
<1>7. MapThenSumSet(LAMBDA n : log[n].qty, S) = it[S]
  BY DEF MapThenSumSet, MapThenFoldSet, Pick, it
<1>8. QED
  BY <1>6, <1>7

(* Shares arrive after they left, as many and of the same security.        *)
LEMMA TransitOrder ==
    ASSUME LogOK, NEW o \in Outs, NEW a \in Ins, Transit(o, a)
    PROVE  /\ o < a /\ o \in DOMAIN log /\ a \in DOMAIN log
           /\ o \in Nat /\ a \in Nat
           /\ log[o].isin = log[a].isin /\ log[o].qty = log[a].qty
           /\ log[o].type = "transfer_out" /\ log[a].type = "transfer"
<1>1. o \in DOMAIN log /\ a \in DOMAIN log
  BY DEF Outs, Ins
<1>2. log[a].day - log[o].day >= 1
  BY ReplayAssumption DEF Transit, InTransit
<1>3. log[o].day < log[a].day
  BY <1>1, <1>2, LogFacts
<1>4. o < a /\ o \in Nat /\ a \in Nat
  BY <1>1, <1>3, LogFacts
<1>5. QED
  BY <1>1, <1>4 DEF Transit, SameKey, Outs, Ins

(* A transfer without a twin has one other end.                            *)
LEMMA OnlyOne ==
    ASSUME UniqueTransfers
    PROVE  /\ \A o \in Outs : \A a, b \in Ins :
                 SameKey(o, a) /\ SameKey(o, b) => a = b
           /\ \A o, p \in Outs : \A a \in Ins :
                 SameKey(o, a) /\ SameKey(p, a) => o = p
           /\ \A o, p \in Outs : SameKey(o, p) => o = p
<1>1. \A i, j \in DOMAIN log :
        log[i].type \in {"transfer", "transfer_out"}
          /\ log[j].type = log[i].type /\ SameKey(i, j) => i = j
  BY DEF UniqueTransfers
<1>2. QED
  BY <1>1 DEF Outs, Ins, SameKey

(* The transfers dropped are those that left and arrived in time.          *)
LEMMA PairDropsAll ==
    ASSUME LogOK, UniqueTransfers, PairTransfers
    PROVE  dropped' = {n \in DOMAIN log : Sent(n) \/ Received(n)}
<1>1. PICK outs \in KeptOuts :
        LET paired == {o \in outs : Arrivals(o) # {}}
        IN  \E in \in [paired -> Ins] :
              /\ \A o \in paired : in[o] \in Arrivals(o)
              /\ dropped' = {FirstLike(i) :
                                i \in paired \cup {in[o] : o \in paired}}
  BY DEF PairTransfers
<1>2. outs = Outs
  <2>1. outs \subseteq Outs /\ \A i \in Outs : \E j \in outs : SameKey(i, j)
    BY DEF KeptOuts
  <2>2. QED
    BY <2>1, OnlyOne
<1> DEFINE paired == {o \in Outs : Arrivals(o) # {}}
<1>3. PICK in \in [paired -> Ins] :
        /\ \A o \in paired : in[o] \in Arrivals(o)
        /\ dropped' = {FirstLike(i) : i \in paired \cup {in[o] : o \in paired}}
  BY <1>1, <1>2
<1>4. \A n : n \in paired <=> Sent(n)
  BY DEF Arrivals, Sent, Transit
<1>5. \A n : Received(n) <=> \E o \in paired : n \in Arrivals(o)
  BY DEF Arrivals, Received, Transit
<1>6. \A o \in paired : Arrivals(o) = {in[o]}
  <2> SUFFICES ASSUME NEW o \in paired PROVE Arrivals(o) = {in[o]}
    OBVIOUS
  <2>1. in[o] \in Arrivals(o) /\ o \in Outs
    BY <1>3
  <2>2. \A a, b \in Arrivals(o) : a = b
    BY <2>1, OnlyOne DEF Arrivals
  <2>3. QED
    BY <2>1, <2>2
<1> HIDE DEF paired
<1>7. paired \cup {in[o] : o \in paired} = {n \in DOMAIN log : Sent(n) \/ Received(n)}
  <2>1. \A n : Sent(n) \/ Received(n) => n \in DOMAIN log
    BY DEF Sent, Received, Outs, Ins
  <2>2. QED
    BY <1>4, <1>5, <1>6, <2>1
<1>8. ASSUME NEW n \in DOMAIN log, Sent(n) \/ Received(n)
      PROVE  FirstLike(n) = n
  <2>1. log[n].type \in {"transfer", "transfer_out"}
    BY <1>8 DEF Sent, Received, Outs, Ins
  <2>2. QED
    BY <2>1, FirstLikeIs DEF UniqueTransfers
<1>9. QED
  BY <1>3, <1>7, <1>8

(* One transaction more adds its shares to those of its security.          *)
LEMMA OfStep ==
    ASSUME LogOK, NEW i, NEW p \in DOMAIN log
    PROVE  /\ Total(SignedOf, Of(i, p + 1))
                 = Total(SignedOf, Of(i, p))
                      + IF log[p].isin = i THEN Signed(log[p]) ELSE 0
           /\ Total(SignedOf, Of(i, p)) \in Int
<1>1. p \in Nat /\ 1 .. p \subseteq DOMAIN log
  BY LogFacts
<1>2. \A n \in DOMAIN log : SignedOf[n] = Signed(log[n]) /\ SignedOf[n] \in Int
  <2>1. ASSUME NEW n \in DOMAIN log PROVE Signed(log[n]) \in Int
    <3>1. log[n].qty \in Nat
      BY LogFacts
    <3>2. QED
      BY <3>1 DEF Signed
  <2>2. QED
    BY <2>1 DEF SignedOf
<1>3. Of(i, p) \subseteq DOMAIN log /\ p \notin Of(i, p)
  BY <1>1 DEF Of
<1>4. IsFiniteSet(Of(i, p))
  BY <1>3, LogFacts, FS_Subset
<1>5. Of(i, p + 1) = IF log[p].isin = i THEN Of(i, p) \cup {p} ELSE Of(i, p)
  <2>1. 1 .. (p + 1) - 1 = (1 .. p - 1) \cup {p}
    BY <1>1, LogFacts
  <2>2. QED
    BY <2>1 DEF Of
<1>6. Total(SignedOf, Of(i, p)) \in Int
  BY <1>2, <1>3, <1>4, TotalType
<1>7. CASE log[p].isin = i
  <2>1. Total(SignedOf, Of(i, p) \cup {p}) = Total(SignedOf, Of(i, p)) + SignedOf[p]
    BY <1>2, <1>3, <1>4, TotalAdd
  <2>2. QED
    BY <1>2, <1>5, <1>6, <1>7, <2>1
<1>8. CASE log[p].isin # i
  BY <1>5, <1>6, <1>8
<1>9. QED
  BY <1>7, <1>8

(* One transaction more sends its shares away, or receives them, or does   *)
(* not touch what is in transit.                                           *)
LEMMA AwayStep ==
    ASSUME LogOK, UniqueTransfers, NEW i \in Isin, NEW p \in DOMAIN log
    PROVE  /\ log[p].isin # i =>
                 Total(SizeOf, Away(i, p + 1)) = Total(SizeOf, Away(i, p))
           /\ log[p].isin = i /\ Sent(p) =>
                 Total(SizeOf, Away(i, p + 1))
                    = Total(SizeOf, Away(i, p)) + log[p].qty
           /\ log[p].isin = i /\ Received(p) =>
                 Total(SizeOf, Away(i, p))
                    = Total(SizeOf, Away(i, p + 1)) + log[p].qty
           /\ ~Sent(p) /\ ~Received(p) =>
                 Total(SizeOf, Away(i, p + 1)) = Total(SizeOf, Away(i, p))
           /\ Total(SizeOf, Away(i, p)) \in Nat
           /\ Total(SizeOf, Away(i, p + 1)) \in Nat
<1>1. p \in Nat /\ \A n \in DOMAIN log : n \in Nat
  BY LogFacts
<1>2. \A n \in DOMAIN log : SizeOf[n] = log[n].qty /\ SizeOf[n] \in Nat
  BY LogFacts DEF SizeOf
<1>3. ASSUME NEW m
      PROVE  Away(i, m) \subseteq DOMAIN log /\ IsFiniteSet(Away(i, m))
  <2>1. Away(i, m) \subseteq DOMAIN log
    BY DEF Away, Outs
  <2>2. QED
    BY <2>1, LogFacts, FS_Subset
<1>4. ASSUME NEW m PROVE Total(SizeOf, Away(i, m)) \in Nat
  <2>1. \A n \in Away(i, m) : SizeOf[n] \in Int /\ SizeOf[n] >= 0
    BY <1>2, <1>3
  <2>2. Total(SizeOf, Away(i, m)) \in Int /\ Total(SizeOf, Away(i, m)) >= 0
    BY <1>3, <2>1, TotalType
  <2>3. QED
    BY <2>2
<1>5. ASSUME NEW o \in Away(i, p + 1), o # p PROVE o \in Away(i, p)
  BY <1>1, <1>5, TransitOrder DEF Away, Outs, Ins
<1>6. ASSUME NEW o \in Away(i, p), ~Transit(o, p) \/ p \notin Ins
      PROVE  o \in Away(i, p + 1)
  <2>1. PICK a \in Ins : a >= p /\ Transit(o, a)
    BY DEF Away
  <2>2. o \in Outs /\ a \in Nat /\ o \in Nat
    BY <2>1, TransitOrder DEF Away
  <2>3. a >= p + 1
    BY <1>1, <1>6, <2>1, <2>2
  <2>4. o < p + 1 /\ log[o].isin = i
    BY <1>1, <2>2 DEF Away
  <2>5. QED
    BY <2>1, <2>2, <2>3, <2>4 DEF Away
<1>7. p \notin Away(i, p)
  BY <1>1 DEF Away
<1>8. p \in Away(i, p + 1) <=> log[p].isin = i /\ Sent(p)
  <2>1. ASSUME NEW a \in Ins, p \in Outs, Transit(p, a) PROVE a >= p + 1
    BY <1>1, <2>1, TransitOrder
  <2>2. p < p + 1
    BY <1>1
  <2>3. QED
    BY <2>1, <2>2 DEF Away, Sent
<1>9. ASSUME log[p].isin # i PROVE Away(i, p + 1) = Away(i, p)
  <2>1. \A o \in Away(i, p) : ~Transit(o, p) \/ p \notin Ins
    BY <1>9 DEF Away, Transit, SameKey
  <2>2. QED
    BY <1>5, <1>6, <1>8, <1>9, <2>1
<1>10. ASSUME log[p].isin = i, Sent(p)
       PROVE  Away(i, p + 1) = Away(i, p) \cup {p}
  <2>1. p \notin Ins
    BY <1>10 DEF Sent, Outs, Ins
  <2>2. QED
    BY <1>5, <1>6, <1>8, <1>10, <2>1
<1>11. ASSUME ~Sent(p), ~Received(p) PROVE Away(i, p + 1) = Away(i, p)
  <2>1. \A o \in Away(i, p) : ~Transit(o, p) \/ p \notin Ins
    BY <1>11 DEF Away, Received
  <2>2. QED
    BY <1>5, <1>6, <1>8, <1>11, <2>1
<1>12. ASSUME log[p].isin = i, Received(p)
       PROVE  \E o \in Away(i, p) : /\ Away(i, p + 1) = Away(i, p) \ {o}
                                    /\ SizeOf[o] = log[p].qty
  <2>1. PICK o \in Outs : Transit(o, p)
    BY <1>12 DEF Received
  <2>2. p \in Ins /\ p \notin Outs
    BY <1>12 DEF Received, Outs, Ins
  <2>3. o < p /\ log[o].isin = i /\ log[o].qty = log[p].qty /\ o \in DOMAIN log
    BY <1>12, <2>1, <2>2, TransitOrder
  <2>4. o \in Away(i, p)
    BY <1>1, <2>1, <2>2, <2>3 DEF Away
  <2>5. o \notin Away(i, p + 1)
    <3>1. \A a \in Ins : Transit(o, a) => a = p
      BY <2>1, <2>2, OnlyOne DEF Transit
    <3>2. QED
      BY <1>1, <3>1 DEF Away
  <2>6. ASSUME NEW x \in Away(i, p), x # o PROVE x \in Away(i, p + 1)
    <3>1. ~Transit(x, p)
      BY <2>1, <2>2, <2>6, OnlyOne DEF Transit, Away
    <3>2. QED
      BY <1>6, <3>1
  <2>7. p \notin Away(i, p + 1)
    BY <2>2 DEF Away
  <2>8. Away(i, p + 1) = Away(i, p) \ {o}
    BY <1>5, <2>5, <2>6, <2>7
  <2>9. QED
    BY <1>2, <2>3, <2>4, <2>8
<1>13. ASSUME log[p].isin = i, Sent(p)
       PROVE  Total(SizeOf, Away(i, p + 1)) = Total(SizeOf, Away(i, p)) + log[p].qty
  <2>1. \A y \in Away(i, p) \cup {p} : SizeOf[y] \in Int
    BY <1>2, <1>3
  <2>2. Total(SizeOf, Away(i, p) \cup {p}) = Total(SizeOf, Away(i, p)) + SizeOf[p]
    BY <1>3, <1>7, <2>1, TotalAdd
  <2>3. QED
    BY <1>2, <1>10, <1>13, <2>2
<1>14. ASSUME log[p].isin = i, Received(p)
       PROVE  Total(SizeOf, Away(i, p)) = Total(SizeOf, Away(i, p + 1)) + log[p].qty
  <2>1. PICK o \in Away(i, p) : /\ Away(i, p + 1) = Away(i, p) \ {o}
                                /\ SizeOf[o] = log[p].qty
    BY <1>12, <1>14
  <2>2. \A y \in Away(i, p) : SizeOf[y] \in Int
    BY <1>2, <1>3
  <2>3. Total(SizeOf, Away(i, p)) = SizeOf[o] + Total(SizeOf, Away(i, p) \ {o})
    BY <1>3, <2>2, TotalOff
  <2>4. SizeOf[o] \in Int /\ Total(SizeOf, Away(i, p + 1)) \in Int
    BY <1>4, <2>2
  <2>5. Total(SizeOf, Away(i, p) \ {o}) = Total(SizeOf, Away(i, p + 1))
    BY <2>1
  <2>6. SizeOf[o] = log[p].qty
    BY <2>1
  <2>7. QED
    BY <2>3, <2>4, <2>5, <2>6
<1>15. QED
  BY <1>4, <1>9, <1>11, <1>13, <1>14

(* Applying an event keeps the holdings at log and transit.                *)
LEMMA ApplyHolds ==
    ASSUME LogOK, CursorOK, QtyOK, HoldOK, NotShort, UniqueTransfers,
           ApplyEvent
    PROVE  \A i \in Isin :
              qty'[i] = Total(SignedOf, Of(i, pos + 1))
                           + Total(SizeOf, Away(i, pos + 1))
<1>1. pos \in DOMAIN log
  BY ApplyStep
<1>2. pc = "apply"
  BY DEF ApplyEvent
<1>3. pos \in dropped <=> Sent(pos) \/ Received(pos)
  BY <1>1, <1>2 DEF HoldOK
<1> SUFFICES ASSUME NEW i \in Isin
             PROVE  qty'[i] = Total(SignedOf, Of(i, pos + 1))
                                 + Total(SizeOf, Away(i, pos + 1))
  OBVIOUS
<1> DEFINE e == log[pos]
           V == Total(SignedOf, Of(i, pos))
           A == Total(SizeOf, Away(i, pos))
           W == Total(SignedOf, Of(i, pos + 1))
           B == Total(SizeOf, Away(i, pos + 1))
<1>4. qty[i] = V + A
  BY <1>2 DEF HoldOK
<1>5. e.qty \in Nat /\ e.type \in Type /\ qty[i] \in Nat
  BY <1>1, LogFacts DEF QtyOK
<1>6. V \in Int /\ W = V + IF e.isin = i THEN Signed(e) ELSE 0
  BY <1>1, OfStep
<1>7. /\ e.isin # i => B = A
      /\ e.isin = i /\ Sent(pos) => B = A + e.qty
      /\ e.isin = i /\ Received(pos) => A = B + e.qty
      /\ ~Sent(pos) /\ ~Received(pos) => B = A
      /\ A \in Nat /\ B \in Nat
  BY <1>1, AwayStep
<1>8. W >= 0
  BY <1>1 DEF NotShort
<1> HIDE DEF V, A, W, B
<1>9. CASE e.isin # i
  <2>1. qty'[i] = qty[i]
    BY <1>9 DEF ApplyEvent, QtyOK
  <2>2. QED
    BY <1>4, <1>6, <1>7, <1>9, <2>1 DEF V, A, W, B
<1>10. CASE e.isin = i /\ Sent(pos)
  <2>1. qty'[i] = qty[i]
    BY <1>3, <1>10 DEF ApplyEvent
  <2>2. Signed(e) = -e.qty
    BY <1>10 DEF Signed, Sent, Outs
  <2>3. qty'[i] = W + B
    BY <1>4, <1>5, <1>6, <1>7, <1>10, <2>1, <2>2
  <2>4. QED
    BY <2>3 DEF W, B
<1>11. CASE e.isin = i /\ Received(pos)
  <2>1. qty'[i] = qty[i]
    BY <1>3, <1>11 DEF ApplyEvent
  <2>2. Signed(e) = e.qty
    BY <1>11 DEF Signed, Received, Ins
  <2>3. qty'[i] = W + B
    BY <1>4, <1>5, <1>6, <1>7, <1>11, <2>1, <2>2
  <2>4. QED
    BY <2>3 DEF W, B
<1>12. CASE e.isin = i /\ ~Sent(pos) /\ ~Received(pos)
  <2>1. qty'[i] = Held(e, qty[i])
    BY <1>3, <1>12, ReplayAssumption DEF ApplyEvent, QtyOK
  <2>2. W = V + Signed(e) /\ B = A
    BY <1>6, <1>7, <1>12
  <2>3. CASE e.type \in Buys \cup {"transfer"}
    <3>1. Signed(e) = e.qty /\ Held(e, qty[i]) = qty[i] + e.qty
      BY <2>3 DEF Signed, Held, Buys
    <3>2. qty'[i] = W + B
      BY <1>4, <1>5, <1>6, <1>7, <2>1, <2>2, <3>1
    <3>3. QED
      BY <3>2 DEF W, B
  <2>4. CASE e.type \in {"sell", "transfer_out"}
    <3>1. /\ Signed(e) = -e.qty
          /\ Held(e, qty[i]) = IF qty[i] > e.qty THEN qty[i] - e.qty ELSE 0
      BY <2>4 DEF Signed, Held, Buys
    <3>2. A \in Nat /\ e.qty \in Nat /\ V \in Int /\ qty[i] = V + A
      BY <1>4, <1>5, <1>6, <1>7
    <3>3. W = V - e.qty /\ W >= 0 /\ B = A
      BY <1>8, <2>2, <3>1, <3>2
    <3>4. qty[i] >= e.qty
      BY <3>2, <3>3
    <3>5. qty'[i] = qty[i] - e.qty
      BY <2>1, <3>1, <3>2, <3>4
    <3>6. qty'[i] = W + B
      BY <3>2, <3>3, <3>5
    <3>7. QED
      BY <3>6 DEF W, B
  <2>5. CASE e.type \notin Buys \cup {"transfer", "sell", "transfer_out"}
    <3>1. Signed(e) = 0 /\ Held(e, qty[i]) = qty[i]
      BY <2>5 DEF Signed, Held, Buys
    <3>2. qty'[i] = W + B
      BY <1>4, <1>5, <1>6, <1>7, <2>1, <2>2, <3>1
    <3>3. QED
      BY <3>2 DEF W, B
  <2>6. QED
    BY <2>3, <2>4, <2>5
<1>13. QED
  BY <1>9, <1>10, <1>11, <1>12

(* No holding is ever negative.                                            *)
LEMMA QtyStays ==
    ASSUME LogOK, CursorOK, QtyOK, [Next]_vars
    PROVE  QtyOK'
<1>1. CASE ApplyEvent
  <2>1. pos \in DOMAIN log
    BY <1>1, ApplyStep
  <2>2. log[pos].qty \in Nat /\ log[pos].isin \in Isin \cup {NoIsin}
    BY <2>1, LogFacts
  <2>3. \A q \in Nat : Held(log[pos], q) \in Nat
    BY <2>2 DEF Held
  <2>4. qty' = qty \/ (/\ log[pos].isin \in Isin
                       /\ qty' = [qty EXCEPT ![log[pos].isin] =
                                     Held(log[pos], @)])
    BY <1>1, <2>2 DEF ApplyEvent
  <2>5. QED
    BY <2>3, <2>4 DEF QtyOK
<1>2. CASE ~ApplyEvent
  <2>1. qty' = qty
    BY <1>2 DEF Next, vars, PairTransfers, EndOfEvents, ValueNext, Probe,
       PriceFound, RateFound, NextDay
  <2>2. QED
    BY <2>1 DEF QtyOK
<1>3. QED
  BY <1>1, <1>2

(* Before the first event nothing is held and nothing is in transit.       *)
LEMMA PairHolds ==
    ASSUME LogOK, CursorOK, HoldOK, NotShort, UniqueTransfers, pc = "pair"
    PROVE  \A i \in Isin : qty[i] = Total(SignedOf, Of(i, pos))
                                       + Total(SizeOf, Away(i, pos))
<1>1. pos = 1 /\ qty = [i \in Isin |-> 0]
  BY DEF HoldOK, CursorOK
<1>2. \A i \in Isin : Of(i, 1) = {} /\ Away(i, 1) = {}
  <2>1. \A o \in Outs : o \in 1 .. Len(log)
    BY LogFacts DEF Outs
  <2>2. QED
    BY <2>1, LogFacts DEF Of, Away
<1>3. Total(SignedOf, {}) = 0 /\ Total(SizeOf, {}) = 0
  BY TotalStep, FS_EmptySet
<1>4. QED
  BY <1>1, <1>2, <1>3

(* Every step keeps the holdings at log and transit.                       *)
LEMMA HoldStays ==
    ASSUME HoldInv, [Next]_vars
    PROVE  HoldInv'
<1> USE DEF input, search
<1>1. LogOK /\ CursorOK /\ QtyOK /\ HoldOK /\ LogOK' /\ CursorOK' /\ QtyOK'
  BY CursorStays, QtyStays DEF HoldInv
<1>2. log' = log
  BY DEF Next, vars, PairTransfers, ApplyEvent, EndOfEvents, ValueNext, Probe,
     PriceFound, RateFound, NextDay
<1>3. /\ SignedOf' = SignedOf /\ SizeOf' = SizeOf
      /\ \A i, m : Of(i, m)' = Of(i, m) /\ Away(i, m)' = Away(i, m)
      /\ \A n : (Sent(n)' <=> Sent(n)) /\ (Received(n)' <=> Received(n))
      /\ UniqueTransfers' <=> UniqueTransfers
  BY <1>2 DEF SignedOf, SizeOf, Of, Away, Sent, Received, UniqueTransfers,
     Transit, SameKey, InTransit, Outs, Ins, Signed
<1>4. NotShort' <=> NotShort
  BY <1>2, <1>3 DEF NotShort
<1> SUFFICES ASSUME NotShort, UniqueTransfers
             PROVE  IF pc' = "pair" THEN qty' = [i \in Isin |-> 0]
                    ELSE /\ dropped' = {n \in DOMAIN log : Sent(n) \/ Received(n)}
                         /\ \A i \in Isin :
                               qty'[i] = Total(SignedOf, Of(i, pos'))
                                            + Total(SizeOf, Away(i, pos'))
  BY <1>1, <1>2, <1>3, <1>4 DEF HoldInv, HoldOK
<1>5. CASE PairTransfers
  <2>1. /\ pc = "pair" /\ pc' # "pair" /\ UNCHANGED <<qty, pos>>
    BY <1>5 DEF PairTransfers
  <2>2. dropped' = {n \in DOMAIN log : Sent(n) \/ Received(n)}
    BY <1>1, <1>5, PairDropsAll
  <2>3. QED
    BY <1>1, <2>1, <2>2, PairHolds
<1>6. CASE ApplyEvent
  <2>1. pc = "apply" /\ pc' = "apply" /\ dropped' = dropped /\ pos' = pos + 1
    BY <1>6 DEF ApplyEvent
  <2>2. \A i \in Isin : qty'[i] = Total(SignedOf, Of(i, pos + 1))
                                     + Total(SizeOf, Away(i, pos + 1))
    BY <1>1, <1>6, ApplyHolds
  <2>3. dropped = {n \in DOMAIN log : Sent(n) \/ Received(n)}
    BY <1>1, <2>1 DEF HoldOK
  <2>4. QED
    BY <2>1, <2>2, <2>3
<1>7. CASE ~PairTransfers /\ ~ApplyEvent
  <2>1. UNCHANGED <<qty, pos, dropped>> /\ (pc' = "pair" <=> pc = "pair")
    BY <1>7 DEF Next, vars, EndOfEvents, ValueNext, Probe, PriceFound,
       RateFound, NextDay, DayDone, AddValue, Searching
  <2>2. QED
    BY <1>1, <2>1 DEF HoldOK
<1>8. QED
  BY <1>5, <1>6, <1>7

(* A run starts without holdings.                                          *)
LEMMA InitHold == Init => HoldInv
<1> SUFFICES ASSUME Init PROVE HoldInv
  OBVIOUS
<1>1. LogOK /\ CursorOK
  BY InitCash DEF CashInv
<1>2. QED
  BY <1>1 DEF Init, HoldInv, QtyOK, HoldOK

(* A log that is never short is not short in totals.                       *)
LEMMA NeverShortIs ==
    ASSUME LogOK, NeverShort PROVE NotShort
<1> SUFFICES ASSUME NEW i \in Isin, NEW n \in DOMAIN log
             PROVE  Total(SignedOf, Of(i, n + 1)) >= 0
  BY DEF NotShort
<1>1. n \in Nat /\ 1 .. (n + 1) - 1 = 1 .. n /\ 1 .. n \subseteq DOMAIN log
  BY LogFacts
<1>2. Of(i, n + 1) = {k \in 1 .. n : log[k].isin = i}
  BY <1>1 DEF Of
<1>3. Of(i, n + 1) \in SUBSET DOMAIN log /\ IsFiniteSet(Of(i, n + 1))
  BY <1>1, <1>2, LogFacts, FS_Subset
<1>4. ViewQuantity(i, 1 .. n) = Total(SignedOf, Of(i, n + 1))
  BY <1>2, <1>3, SignedSum DEF ViewQuantity
<1>5. QED
  BY <1>4 DEF NeverShort

(* On a day's end the shares in transit are those sent and not received.   *)
LEMMA UnderIsAway ==
    ASSUME LogOK, CursorOK, pc = "value", NEW i
    PROVE  {o \in Outs : /\ log[o].isin = i
                         /\ log[o].day <= day
                         /\ \E a \in Ins :
                               /\ SameKey(o, a)
                               /\ log[a].day > day
                               /\ log[a].day <= log[o].day + TransitDays}
              = Away(i, pos)
<1>1. \A n \in DOMAIN log : (n < pos <=> log[n].day <= day)
                              /\ (n >= pos <=> log[n].day > day)
  <2> SUFFICES ASSUME NEW n \in DOMAIN log
               PROVE  (n < pos <=> log[n].day <= day)
                        /\ (n >= pos <=> log[n].day > day)
    OBVIOUS
  <2>1. n \in Nat /\ pos \in Nat /\ log[n].day \in Nat /\ day \in Nat
    BY LogFacts DEF CursorOK
  <2>2. (n < pos => log[n].day <= day) /\ (n >= pos => log[n].day > day)
    BY DEF CursorOK
  <2>3. QED
    BY <2>1, <2>2
<1>2. ASSUME NEW o \in Outs, NEW a \in Ins, log[o].day <= day
      PROVE  log[a].day > day /\ log[a].day <= log[o].day + TransitDays
                <=> a >= pos /\ InTransit(o, a)
  <2>1. o \in DOMAIN log /\ a \in DOMAIN log
    BY DEF Outs, Ins
  <2>2. /\ log[o].day \in Nat /\ log[a].day \in Nat /\ day \in Nat
        /\ TransitDays \in Nat
    BY <2>1, LogFacts, ReplayAssumption DEF CursorOK
  <2>3. InTransit(o, a) <=> /\ log[a].day > log[o].day
                            /\ log[a].day <= log[o].day + TransitDays
    BY <2>2 DEF InTransit
  <2>4. a >= pos <=> log[a].day > day
    BY <1>1, <2>1
  <2>5. QED
    BY <1>2, <2>2, <2>3, <2>4
<1>3. \A o \in Outs : o < pos <=> log[o].day <= day
  BY <1>1 DEF Outs
<1>4. QED
  BY <1>2, <1>3 DEF Away, Transit

(* Holdings at log and transit are the ones the property asks for.         *)
LEMMA HoldImplies == HoldInv => HoldingsPersist
<1> SUFFICES ASSUME HoldInv, NeverShort, UniqueTransfers, DayDone, NEW i \in Isin
             PROVE  qty[i] = ViewQuantity(i, Until(day)) + OnTheWay(i, day)
  BY DEF HoldingsPersist
<1>1. LogOK /\ CursorOK /\ pc = "value"
  BY DEF HoldInv, DayDone
<1>2. qty[i] = Total(SignedOf, Of(i, pos)) + Total(SizeOf, Away(i, pos))
  BY <1>1, NeverShortIs DEF HoldInv, HoldOK
<1>3. Of(i, pos) = {n \in Until(day) : log[n].isin = i}
  BY <1>1, UntilIsPrefix DEF Of
<1>4. Of(i, pos) \in SUBSET DOMAIN log /\ IsFiniteSet(Of(i, pos))
  BY <1>1, <1>3, LogFacts, FS_Subset DEF Until
<1>5. ViewQuantity(i, Until(day)) = Total(SignedOf, Of(i, pos))
  BY <1>3, <1>4, SignedSum DEF ViewQuantity
<1>6. Away(i, pos) \in SUBSET DOMAIN log /\ IsFiniteSet(Away(i, pos))
  BY <1>1, LogFacts, FS_Subset DEF Away, Outs
<1>7. OnTheWay(i, day) = Total(SizeOf, Away(i, pos))
  BY <1>1, <1>6, UnderIsAway, SizeSum DEF OnTheWay
<1>8. QED
  BY <1>2, <1>5, <1>7

(* The holdings of every day are those of the view over the log up to that *)
(* day, and the shares under way between two accounts, for any log: though *)
(* pairTransfers drops both ends of a transfer, no share is lost or        *)
(* counted twice while it is in transit (jobs.go:1092-1221).               *)
THEOREM HoldingsAgree == Spec => []HoldingsPersist
BY InitHold, HoldStays, HoldImplies, PTL DEF Spec
=============================================================================
