--------------------------------- MODULE Tax ---------------------------------
(***************************************************************************)
(* The walks over the transaction log that answer questions about taxes:   *)
(*   - ComputeTaxLots keeps a FIFO queue of lots per security, from which  *)
(*     SimulateSell takes (internal/analytics/tax.go:127-337);             *)
(*   - ComputeLossPots keeps positions at average cost and two pots of     *)
(*     losses per year, carried forward (tax.go:353-490), and              *)
(*     ComputeTaxSummary a summary of one year (tax.go:540-678);           *)
(*   - HandleAnlageKAP and HandleLossPots walk the log once more, the one  *)
(*     per broker and the other per account, HandleFSAStatus per account   *)
(*     too, for the saver's allowance (handler/analysis.go), and           *)
(*     remainingFSA for what is left of it (handler/portfolio.go).         *)
(* They run in requests of their own and keep nothing, so one pass feeds   *)
(* each transaction to all of them, in the order of the log.               *)
(*                                                                         *)
(* Shares are whole and amounts are integers that the shares held divide,  *)
(* so an average cost is exact; the code's floats round.  Taxable amounts  *)
(* are counted in tenths, because 7 of 10 parts of a fund's gain are taxed.*)
(* Fees, rounding to cents and tax rates are left out.                     *)
(***************************************************************************)
EXTENDS Integers, Sequences, FiniteSets, FiniteSetsExt, SequencesExt

CONSTANTS
    Sec,       \* securities
    NoSec,     \* NULL security_isin
    Fund,      \* those whose asset_class is "etf"
    Account,   \* accounts, each of a broker of its own
    Menu,      \* what a transaction may be, but for its year
    LastYear,  \* the years of the log are 1 .. LastYear
    Target,    \* the year summarised
    Allowance, \* Sparerpauschbetrag, in tenths
    MaxLog     \* the longest log

Year == 1 .. LastYear
Pot  == {"equity", "general"}
In   == {"buy", "transfer"}        \* "savings_plan" is treated like "buy"
Out  == {"sell", "transfer_out"}
Gets == {"dividend", "interest"}
Type == In \cup Out \cup Gets

Entry == [type: Type, sec: Sec \cup {NoSec}, account: Account, qty: Nat, amt: Nat]

Txn == [type: Type, sec: Sec \cup {NoSec}, account: Account, qty: Nat, amt: Nat,
        year: Year]

ASSUME TaxAssumption ==
    /\ NoSec \notin Sec /\ Fund \subseteq Sec
    /\ Menu \subseteq Entry
    /\ \A t \in Menu : t.sec = NoSec => t.type \in Gets
    /\ LastYear \in Nat /\ Target \in 1 .. LastYear
    /\ MaxLog \in Nat /\ Allowance \in Nat
    /\ IsFiniteSet(Account)

VARIABLES
    log,      \* the transactions walked so far, oldest first
    year,     \* the year of the next one
    lots,     \* the open lots of each security, oldest first
    sale,     \* what the FIFO loop has still to take, and from where
    pos,      \* positions at average cost
    pots,     \* gains and losses of each year and pot
    carry,    \* the loss carried into `year`, per pot
    summary,  \* sums of ComputeTaxSummary for Target
    kapPos,   \* positions of HandleAnlageKAP
    kap,      \* its sums over all brokers for Target
    ytdPos,   \* positions of the two walks per account, which keep the same
    accounts, \* pots of Target, per account
    status,   \* income of Target that HandleFSAStatus counts, per account
    freePos,  \* positions of remainingFSA
    free      \* income of Target that remainingFSA counts

walks == <<pos, pots, summary, kapPos, kap, ytdPos, accounts, status, freePos,
           free>>
vars == <<log, year, lots, sale, pos, pots, carry, summary, kapPos, kap,
          ytdPos, accounts, status, freePos, free>>

(* A lot is what is left of the purchase `at` in the log; its shares cost  *)
(* log[at].amt \div log[at].qty each.                                      *)
Lot      == [at: Nat \ {0}, qty: Nat \ {0}]
Position == [qty: Int, cost: Int]
Sums     == [gain: Int, loss: Int]
Summary  == [gain: Int, loss: Int, fundGain: Int, paid: Int, fundPaid: Int]
Kap      == [gain: Int, loss: Int, paid: Int, interest: Int]

Idle      == [sec |-> NoSec, left |-> 0]
Nothing   == [qty |-> 0, cost |-> 0]
NoSums    == [gain |-> 0, loss |-> 0]
NoSummary == [gain |-> 0, loss |-> 0, fundGain |-> 0, paid |-> 0, fundPaid |-> 0]
NoKap     == [gain |-> 0, loss |-> 0, paid |-> 0, interest |-> 0]

Init ==
    /\ log = <<>>
    /\ year = 1
    /\ lots = [s \in Sec |-> <<>>]
    /\ sale = Idle
    /\ pos = [s \in Sec |-> Nothing]
    /\ pots = [y \in Year |-> [p \in Pot |-> NoSums]]
    /\ carry = [p \in Pot |-> 0]
    /\ summary = NoSummary
    /\ kapPos = [s \in Sec |-> Nothing]
    /\ kap = NoKap
    /\ ytdPos = [s \in Sec |-> Nothing]
    /\ accounts = [a \in Account |-> [p \in Pot |-> NoSums]]
    /\ status = [a \in Account |-> 0]
    /\ freePos = [s \in Sec |-> Nothing]
    /\ free = 0

-----------------------------------------------------------------------------
(* Positions at average cost *)

Bought(p, t) == [qty |-> p.qty + t.qty, cost |-> p.cost + t.amt]
Average(p)   == p.cost \div p.qty
Sold(p, t)   == [qty |-> p.qty - t.qty, cost |-> p.cost - t.qty * Average(p)]
Gain(p, t)   == t.amt - t.qty * Average(p)

(* A position of no shares is deleted, with what is left of its cost.      *)
SettledNever(p) == p   \* mutant: a position sold short is kept
Settled(p) == IF p.qty <= 0 THEN Nothing ELSE p

(* The taxable part of an amount, in tenths.                               *)
Taxable(s, x) == IF s \in Fund THEN 7 * x ELSE 10 * x

PotOf(s) == IF s \in Fund THEN "equity" ELSE "general"

Book(sums, x) == IF x < 0 THEN [sums EXCEPT !.loss = @ + x]
                          ELSE [sums EXCEPT !.gain = @ + x]

-----------------------------------------------------------------------------
(* Transactions.  The log is read newest first and turned round; the order *)
(* within a day is open, and so is the order of purchases and sales here.  *)

Record(t) ==
    /\ sale = Idle
    /\ year <= LastYear
    /\ Len(log) < MaxLog
    /\ log' = Append(log, [type |-> t.type, sec |-> t.sec, account |-> t.account,
                          qty |-> t.qty, amt |-> t.amt, year |-> year])
    /\ UNCHANGED <<year, carry>>

AcquireFirst(t) ==   \* mutant: lots pile up, the latest is sold first
    /\ t.type \in In
    /\ Record(t)
    /\ lots' = IF t.qty > 0
               THEN [lots EXCEPT ![t.sec] =
                        <<[at |-> Len(log) + 1, qty |-> t.qty]>> \o @]
               ELSE lots
    /\ pos' = [pos EXCEPT ![t.sec] = Bought(@, t)]
    /\ UNCHANGED <<sale, pots, summary, kapPos, kap, ytdPos, accounts, status,
                   freePos, free>>

(* A purchase, or securities that come in from another broker.             *)
Acquire(t) ==
    /\ t.type \in In
    /\ Record(t)
    /\ lots' = IF t.qty > 0
               THEN [lots EXCEPT ![t.sec] =
                        Append(@, [at |-> Len(log) + 1, qty |-> t.qty])]
               ELSE lots
    /\ pos' = [pos EXCEPT ![t.sec] = Bought(@, t)]
    /\ kapPos' = IF year <= Target
                 THEN [kapPos EXCEPT ![t.sec] = Bought(@, t)] ELSE kapPos
    /\ ytdPos' = [ytdPos EXCEPT ![t.sec] = Bought(@, t)]
    /\ freePos' = [freePos EXCEPT ![t.sec] = Bought(@, t)]
    /\ UNCHANGED <<sale, pots, summary, kap, accounts, status, free>>

(* Securities that go to another broker: no gain, no loss.                 *)
TransferOut(t) ==
    /\ t.type = "transfer_out"
    /\ Record(t)
    /\ sale' = [sec |-> t.sec, left |-> t.qty]
    /\ pos' = IF pos[t.sec].qty > 0
              THEN [pos EXCEPT ![t.sec] = Settled(Sold(@, t))] ELSE pos
    /\ kapPos' = IF year <= Target /\ kapPos[t.sec].qty > 0
                 THEN [kapPos EXCEPT ![t.sec] = Sold(@, t)] ELSE kapPos
    /\ ytdPos' = IF ytdPos[t.sec].qty > 0
                 THEN [ytdPos EXCEPT ![t.sec] = Sold(@, t)] ELSE ytdPos
    /\ freePos' = IF freePos[t.sec].qty > 0
                  THEN [freePos EXCEPT ![t.sec] = Sold(@, t)] ELSE freePos
    /\ UNCHANGED <<lots, pots, summary, kap, accounts, status, free>>

(* A sale in the loss pots and in the summary of Target.                   *)
SellAtAverage(t) ==
    IF pos[t.sec].qty <= 0
    THEN UNCHANGED <<pos, pots, summary>>
    ELSE LET g == Gain(pos[t.sec], t)
         IN /\ pos' = [pos EXCEPT ![t.sec] = Settled(Sold(@, t))]
            /\ pots' = [pots EXCEPT ![year][PotOf(t.sec)] =
                           Book(@, Taxable(t.sec, g))]
            /\ summary' =
                 IF year # Target THEN summary
                 ELSE IF g < 0 THEN [summary EXCEPT !.loss = @ + g]
                 ELSE [summary EXCEPT
                          !.gain = @ + g,
                          !.fundGain = @ + (IF t.sec \in Fund THEN g ELSE 0)]

SellForKapOnly(t) ==   \* mutant: sales of earlier years are passed over
    IF year # Target \/ kapPos[t.sec].qty <= 0
    THEN UNCHANGED <<kapPos, kap>>
    ELSE LET g == Gain(kapPos[t.sec], t)
         IN /\ kapPos' = [kapPos EXCEPT ![t.sec] = Sold(@, t)]
            /\ kap' = IF g > 0 THEN [kap EXCEPT !.gain = @ + Taxable(t.sec, g)]
                      ELSE [kap EXCEPT !.loss = @ + 10 * g]

(* A sale in the form: one of an earlier year only moves the position.     *)
SellForKap(t) ==
    IF year > Target \/ kapPos[t.sec].qty <= 0
    THEN UNCHANGED <<kapPos, kap>>
    ELSE LET g == Gain(kapPos[t.sec], t)
         IN /\ kapPos' = [kapPos EXCEPT ![t.sec] = Sold(@, t)]
            /\ kap' = IF year < Target THEN kap
                      ELSE IF g > 0
                      THEN [kap EXCEPT !.gain = @ + Taxable(t.sec, g)]
                      ELSE [kap EXCEPT !.loss = @ + 10 * g]

SellForAccountGross(t) ==   \* mutant: a fund's gains are taken in full
    IF year # Target \/ ytdPos[t.sec].qty <= 0
    THEN UNCHANGED <<ytdPos, accounts>>
    ELSE /\ ytdPos' = [ytdPos EXCEPT ![t.sec] = Sold(@, t)]
         /\ accounts' = [accounts EXCEPT ![t.account][PotOf(t.sec)] =
                            Book(@, 10 * Gain(ytdPos[t.sec], t))]

(* A sale in the walk per account: one of another year is passed over.     *)
SellForAccount(t) ==
    IF year # Target \/ ytdPos[t.sec].qty <= 0
    THEN UNCHANGED <<ytdPos, accounts>>
    ELSE LET g == Gain(ytdPos[t.sec], t)
         IN /\ ytdPos' = [ytdPos EXCEPT ![t.sec] = Sold(@, t)]
            /\ accounts' = [accounts EXCEPT ![t.account][PotOf(t.sec)] =
                               Book(@, Taxable(t.sec, g))]

(* A gain, a loss counting for nothing, in what the allowance is used by.  *)
TaxableGain(s, g) == IF g > 0 THEN Taxable(s, g) ELSE 0

(* The same sale in the status of the exemption orders.                    *)
SellForStatus(t) ==
    IF year # Target \/ ytdPos[t.sec].qty <= 0
    THEN UNCHANGED status
    ELSE status' = [status EXCEPT ![t.account] =
                       @ + TaxableGain(t.sec, Gain(ytdPos[t.sec], t))]

SellForFreeNet(t) ==   \* mutant: a loss gives allowance back
    IF freePos[t.sec].qty <= 0
    THEN UNCHANGED <<freePos, free>>
    ELSE /\ freePos' = [freePos EXCEPT ![t.sec] = Sold(@, t)]
         /\ free' = free + (IF year # Target THEN 0
                            ELSE Taxable(t.sec, Gain(freePos[t.sec], t)))

(* A sale in what is left of the allowance: one of an earlier year moves   *)
(* the position, as in the form.                                           *)
SellForFree(t) ==
    IF freePos[t.sec].qty <= 0
    THEN UNCHANGED <<freePos, free>>
    ELSE /\ freePos' = [freePos EXCEPT ![t.sec] = Sold(@, t)]
         /\ free' = free + (IF year # Target THEN 0
                            ELSE TaxableGain(t.sec, Gain(freePos[t.sec], t)))

Sell(t) ==
    /\ t.type = "sell"
    /\ Record(t)
    /\ sale' = [sec |-> t.sec, left |-> t.qty]
    /\ SellAtAverage(t)
    /\ SellForKap(t)
    /\ SellForAccount(t)
    /\ SellForStatus(t)
    /\ SellForFree(t)
    /\ UNCHANGED lots

(* Interest, or a dividend of a security or of none.                       *)
Income(t) ==
    LET interest == t.type = "interest"
        part     == IF interest THEN 10 * t.amt ELSE Taxable(t.sec, t.amt)
    IN /\ t.type \in Gets
       /\ Record(t)
       /\ pots' = [pots EXCEPT ![year]["general"].gain = @ + part]
       /\ IF year # Target
          THEN UNCHANGED <<summary, kap, accounts, status, free>>
          ELSE /\ summary' =
                    IF interest THEN summary
                    ELSE [summary EXCEPT !.paid = @ + t.amt,
                             !.fundPaid = @ + (IF t.sec \in Fund THEN t.amt ELSE 0)]
               /\ kap' = IF interest THEN [kap EXCEPT !.interest = @ + part]
                                     ELSE [kap EXCEPT !.paid = @ + part]
               /\ accounts' = [accounts EXCEPT ![t.account]["general"].gain =
                                  @ + part]
               /\ status' = [status EXCEPT ![t.account] = @ + part]
               /\ free' = free + part
       /\ UNCHANGED <<lots, sale, pos, kapPos, ytdPos, freePos>>

-----------------------------------------------------------------------------
(* The FIFO loop of a sale or an outgoing transfer *)

ConsumeLot ==
    /\ sale.left > 0
    /\ lots[sale.sec] # <<>>
    /\ LET oldest == Head(lots[sale.sec])
       IN IF oldest.qty <= sale.left
          THEN /\ sale' = [sale EXCEPT !.left = @ - oldest.qty]
               /\ lots' = [lots EXCEPT ![sale.sec] = Tail(@)]
          ELSE /\ lots' = [lots EXCEPT ![sale.sec][1].qty = @ - sale.left]
               /\ sale' = [sale EXCEPT !.left = 0]
    /\ UNCHANGED <<log, year, carry, walks>>

EndSale ==
    /\ sale # Idle
    /\ sale.left > 0 => lots[sale.sec] = <<>>
    /\ sale' = Idle
    /\ UNCHANGED <<log, year, lots, carry, walks>>

-----------------------------------------------------------------------------
(* Years *)

Balance(y, p) == pots[y][p].gain + pots[y][p].loss

CloseYearAlone ==   \* mutant: what came into the year is dropped
    /\ sale = Idle
    /\ year <= LastYear
    /\ year' = year + 1
    /\ carry' = [p \in Pot |-> IF Balance(year, p) < 0 THEN Balance(year, p) ELSE 0]
    /\ UNCHANGED <<log, lots, sale, walks>>

(* What a year leaves to the next: its result and what came into it, if    *)
(* that is a loss.  A year of no transactions leaves what came into it.    *)
CloseYear ==
    /\ sale = Idle
    /\ year <= LastYear
    /\ year' = year + 1
    /\ carry' = [p \in Pot |-> IF Balance(year, p) + carry[p] < 0
                               THEN Balance(year, p) + carry[p] ELSE 0]
    /\ UNCHANGED <<log, lots, sale, walks>>

Next ==
    \/ \E t \in Menu : Acquire(t) \/ Sell(t) \/ TransferOut(t) \/ Income(t)
    \/ ConsumeLot
    \/ EndSale
    \/ CloseYear

Spec == Init /\ [][Next]_vars

-----------------------------------------------------------------------------
(* A simulated sale, in value: lots are sold whole, oldest first, until the *)
(* amount is reached, the last one in part.                                *)

CostOf(lot) == (lot.qty * log[lot.at].amt) \div log[lot.at].qty

SimulateWhole(queue, price, amount) ==   \* mutant: the last lot is sold whole
    FoldLeft(
        LAMBDA sim, lot :
            IF sim.left <= 0 THEN sim
            ELSE [left |-> sim.left - Min({sim.left, lot.qty * price}),
                  cost |-> sim.cost + CostOf(lot)],
        [left |-> amount, cost |-> 0], queue)

SimulateSell(queue, price, amount) ==
    FoldLeft(
        LAMBDA sim, lot :
            IF sim.left <= 0 THEN sim
            ELSE LET value == lot.qty * price
                     part  == Min({sim.left, value})
                 IN [left |-> sim.left - part,
                     cost |-> sim.cost + (part * CostOf(lot)) \div value],
        [left |-> amount, cost |-> 0], queue)

-----------------------------------------------------------------------------
(* What ComputeTaxSummary shows of its sums, in tenths but for NetGain.    *)
(* The exempt part of a fund's dividends is in the total that is taken off *)
(* and has been taken off the dividends before.                            *)

Floored(x) == IF x < 0 THEN 0 ELSE x

NetGain             == summary.gain + summary.loss
TeilfreistellungAmt == 3 * summary.fundGain + 3 * summary.fundPaid
TaxableDividends    == 10 * summary.paid - 3 * summary.fundPaid
SummaryTaxable      == Floored(10 * NetGain - TeilfreistellungAmt + TaxableDividends)

(* What is left of an allowance after an income.                           *)
Remaining(income, allowance) == IF income > allowance THEN 0 ELSE allowance - income

(* The status page, for one taxpayer or a couple.                          *)
RemainingByStatus(joint) ==
    Remaining(MapThenSumSet(LAMBDA a : status[a], Account),
              IF joint THEN 2 * Allowance ELSE Allowance)

remainingFSA == Remaining(free, Allowance)

-----------------------------------------------------------------------------
(* Properties *)

TypeOK ==
    /\ log \in Seq(Txn)
    /\ year \in 1 .. LastYear + 1
    /\ lots \in [Sec -> Seq(Lot)]
    /\ sale \in [sec: Sec \cup {NoSec}, left: Nat]
    /\ sale.sec = NoSec => sale = Idle
    /\ pos \in [Sec -> Position]
    /\ pots \in [Year -> [Pot -> Sums]]
    /\ carry \in [Pot -> Int]
    /\ summary \in Summary
    /\ kapPos \in [Sec -> Position]
    /\ kap \in Kap
    /\ ytdPos \in [Sec -> Position]
    /\ accounts \in [Account -> [Pot -> Sums]]
    /\ status \in [Account -> Int]
    /\ freePos \in [Sec -> Position]
    /\ free \in Int

(* Purchases of a security that put shares into its queue.                 *)
Purchases(l, s) == {k \in DOMAIN l : /\ l[k].type \in In
                                     /\ l[k].sec = s
                                     /\ l[k].qty > 0}

(* A queue holds the latest purchases of s, each of them and in order, the *)
(* oldest perhaps in part.                                                 *)
Newest(queue, l, s) ==
    /\ \A i \in DOMAIN queue :
          /\ queue[i].at \in Purchases(l, s)
          /\ queue[i].qty <= l[queue[i].at].qty
          /\ i > 1 => queue[i].qty = l[queue[i].at].qty
    /\ \A i, j \in DOMAIN queue : i < j => queue[i].at < queue[j].at
    /\ queue # <<>> =>
          \A k \in Purchases(l, s) : k >= queue[1].at =>
              \E i \in DOMAIN queue : queue[i].at = k

(* First in, first out, whatever is sold, and even if more is sold than    *)
(* was bought: in the inventory of open lots, shares are sold in the order *)
(* they were bought in, and no purchase is passed over or sold twice.      *)
LotsAreNewest == \A s \in Sec : Newest(lots[s], log, s)

(* The queue and the average-cost position are kept by different code, and *)
(* agree between transactions on how many shares are held.                 *)
LotsMatchPosition ==
    sale = Idle =>
        \A s \in Sec :
            pos[s].qty = MapThenSumSet(LAMBDA i : lots[s][i].qty, DOMAIN lots[s])

(* The cost of each share of a queue, oldest first.                        *)
Shares(queue) ==
    FlattenSeq([i \in DOMAIN queue |->
        [j \in 1 .. queue[i].qty |-> log[queue[i].at].amt \div log[queue[i].at].qty]])

(* The simulator sells by value, with a fraction of the last lot, the loop *)
(* over the log by quantity: both give up the same shares, at what those   *)
(* cost.  The gain a sale is booked with is another one in general: every  *)
(* walk that books sales takes the average cost of the position.           *)
SimulationAgrees ==
    sale = Idle =>
        \A s \in Sec, price \in 1 .. 3 : \A k \in 1 .. Len(Shares(lots[s])) :
            LET sim == SimulateSell(lots[s], price, price * k)
            IN /\ sim.left = 0
               /\ sim.cost = FoldLeft(LAMBDA sum, c : sum + c, 0,
                                      SubSeq(Shares(lots[s]), 1, k))

(* The result of a pot over several years.                                 *)
Result(from, to, p) == MapThenSumSet(LAMBDA y : Balance(y, p), from .. to)

(* A loss is carried until gains of its own pot have used it up, once and  *)
(* whatever years lie between: what is carried is the worst result of the  *)
(* years up to the last one.                                               *)
CarryIsWorstRun ==
    \A p \in Pot :
        carry[p] = Min({0} \cup {Result(y, year - 1, p) : y \in 1 .. year - 1})

(* Shares of s after the first n transactions, as they say.                *)
Held(s, n) ==
    MapThenSumSet(LAMBDA k : IF log[k].type \in In THEN log[k].qty
                             ELSE IF log[k].type \in Out THEN -log[k].qty ELSE 0,
                  {k \in 1 .. n : log[k].sec = s})

NeverShort == \A n \in DOMAIN log : \A s \in Sec : Held(s, n) >= 0

NoEarlierSale == \A k \in DOMAIN log : log[k].type = "sell" => log[k].year >= Target

(* Three handlers answer the same question with walks of their own.  For a *)
(* log that never sells what is not held, the form says what the pots and  *)
(* the summary of that year say: gains and losses agree, once the exempt   *)
(* part of a fund's losses, which only the pots take off, is put back; and *)
(* but for interest, which the summary leaves out, the form's income is    *)
(* what the summary shows as net gain and dividends less the exempt part.  *)
(* What it shows as taxable is that without the exempt part of a fund's    *)
(* dividends, which it takes off a second time (tax.go:639-642).           *)
WalksAgree ==
    NeverShort =>
        LET equity  == pots[Target]["equity"]
            general == pots[Target]["general"]
        IN /\ kap.gain + kap.paid + kap.interest = equity.gain + general.gain
           /\ 7 * kap.loss = 10 * equity.loss + 7 * general.loss
           /\ kap.gain + kap.loss + kap.paid
                = 10 * (NetGain + summary.paid) - TeilfreistellungAmt
           /\ SummaryTaxable = Floored(kap.gain + kap.loss + kap.paid - 3 * summary.fundPaid)

(* The pots of the accounts add up to the pots of the year, if nothing was *)
(* sold before it: the walk per account passes over earlier sales.         *)
AccountsAddUp ==
    NeverShort /\ NoEarlierSale =>
        \A p \in Pot :
            /\ MapThenSumSet(LAMBDA a : accounts[a][p].gain, Account)
                 = pots[Target][p].gain
            /\ MapThenSumSet(LAMBDA a : accounts[a][p].loss, Account)
                 = pots[Target][p].loss

(* What the status page shows as left of the allowance and what the switch *)
(* reckons with differ by nothing, for a log that sold nothing before the  *)
(* year, however short its sales are; and with ?joint=1 the page, which    *)
(* then doubles the allowance, never shows less and shows one allowance    *)
(* more at most (analysis.go:2691, 2788; portfolio.go:4598).               *)
BalanceMirroredThisYear ==
    NoEarlierSale =>
        /\ RemainingByStatus(FALSE) = remainingFSA
        /\ RemainingByStatus(TRUE) - remainingFSA \in 0 .. Allowance
=============================================================================
