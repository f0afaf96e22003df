------------------------------ MODULE TaxProofs ------------------------------
(***************************************************************************)
(* Proofs about Tax for any securities, accounts, transactions and years:  *)
(*   - the types;                                                          *)
(*   - the FIFO queues hold the newest shares after every sale, also one   *)
(*     of more shares than are held, and as many as the position;          *)
(*   - the loss carried into a year is the worst run of results before it; *)
(*   - the form, the pots, the summary, the pots per account and the two   *)
(*     computations of what is left of the allowance agree;                *)
(*   - a simulated sale takes the shares a real one would take off the     *)
(*     queue, at what they cost (which is not the average cost a real sale *)
(*     is booked with).                                                    *)
(***************************************************************************)
EXTENDS Tax, Totals, SequenceTheorems

-----------------------------------------------------------------------------
(* Queues *)

(* A transaction that is no purchase of s does not change what is newest.  *)
LEMMA NewestKept ==
    ASSUME NEW l \in Seq(Txn), NEW t \in Txn, NEW s \in Sec,
           NEW queue \in Seq(Lot), Newest(queue, l, s),
           ~(t.type \in In /\ t.sec = s /\ t.qty > 0)
    PROVE  Newest(queue, Append(l, t), s)
<1> DEFINE m == Append(l, t)
<1>1. /\ Len(l) \in Nat /\ DOMAIN l = 1 .. Len(l)
      /\ m \in Seq(Txn) /\ Len(m) = Len(l) + 1 /\ DOMAIN m = 1 .. Len(l) + 1
      /\ \A i \in 1 .. Len(l) : m[i] = l[i]
      /\ m[Len(l) + 1] = t
  BY AppendProperties, LenProperties
<1>2. Purchases(m, s) = Purchases(l, s)
  BY <1>1 DEF Purchases
<1>3. \A k \in Purchases(l, s) : m[k] = l[k]
  BY <1>1 DEF Purchases
<1>4. QED
  BY <1>2, <1>3 DEF Newest

(* A purchase goes to the end of the queue.                                *)
LEMMA NewestAppend ==
    ASSUME NEW l \in Seq(Txn), NEW t \in Txn, NEW s \in Sec,
           NEW queue \in Seq(Lot), Newest(queue, l, s),
           t.type \in In, t.sec = s, t.qty > 0
    PROVE  Newest(Append(queue, [at |-> Len(l) + 1, qty |-> t.qty]),
                  Append(l, t), s)
<1> DEFINE m   == Append(l, t)
           n   == Len(l) + 1
           lot == [at |-> n, qty |-> t.qty]
           new == Append(queue, lot)
<1>1. /\ Len(l) \in Nat /\ DOMAIN l = 1 .. Len(l)
      /\ m \in Seq(Txn) /\ Len(m) = n /\ DOMAIN m = 1 .. n
      /\ \A i \in 1 .. Len(l) : m[i] = l[i]
      /\ m[n] = t
  BY AppendProperties, LenProperties
<1>2. lot \in Lot /\ lot.at = n /\ lot.qty = t.qty
  BY <1>1 DEF Lot, Txn
<1>3. /\ Len(queue) \in Nat /\ DOMAIN queue = 1 .. Len(queue)
      /\ DOMAIN new = 1 .. Len(queue) + 1
      /\ new # <<>>
      /\ \A i \in DOMAIN queue : new[i] = queue[i]
      /\ new[Len(queue) + 1] = lot
  BY <1>2, AppendProperties, LenProperties
<1>4. Purchases(m, s) = Purchases(l, s) \cup {n}
  BY <1>1 DEF Purchases
<1>5. \A k \in Purchases(l, s) : k \in Nat /\ k < n /\ m[k] = l[k]
  BY <1>1 DEF Purchases
<1>6. ASSUME NEW i \in DOMAIN new
      PROVE  /\ new[i].at \in Purchases(m, s)
             /\ new[i].qty <= m[new[i].at].qty
             /\ i > 1 => new[i].qty = m[new[i].at].qty
  <2>1. i \in DOMAIN queue \/ i = Len(queue) + 1
    BY <1>3
  <2>2. CASE i \in DOMAIN queue
    <3>1. new[i] = queue[i]
      BY <2>2, <1>3
    <3>2. /\ queue[i].at \in Purchases(l, s)
          /\ queue[i].qty <= l[queue[i].at].qty
          /\ i > 1 => queue[i].qty = l[queue[i].at].qty
      BY <2>2 DEF Newest
    <3>3. m[queue[i].at] = l[queue[i].at]
      BY <3>2, <1>5
    <3>4. QED
      BY <3>1, <3>2, <3>3, <1>4
  <2>3. CASE i = Len(queue) + 1
    <3>1. new[i].at = n /\ new[i].qty = t.qty /\ m[n].qty = t.qty /\ t.qty \in Nat
      BY <2>3, <1>1, <1>2, <1>3 DEF Txn
    <3>2. QED
      BY <3>1, <1>4
  <2>4. QED
    BY <2>1, <2>2, <2>3
<1>7. ASSUME NEW i \in DOMAIN new, NEW j \in DOMAIN new, i < j
      PROVE  new[i].at < new[j].at
  <2>1. i \in DOMAIN queue
    BY <1>3, <1>7
  <2>2. CASE j \in DOMAIN queue
    BY <2>1, <2>2, <1>3, <1>7 DEF Newest
  <2>3. CASE j = Len(queue) + 1
    <3>1. queue[i].at \in Purchases(l, s)
      BY <2>1 DEF Newest
    <3>2. QED
      BY <3>1, <2>1, <2>3, <1>2, <1>3, <1>5
  <2>4. QED
    BY <2>2, <2>3, <1>3
<1>8. ASSUME NEW k \in Purchases(m, s), k >= new[1].at
      PROVE  \E i \in DOMAIN new : new[i].at = k
  <2>1. CASE k = n
    BY <2>1, <1>2, <1>3
  <2>2. CASE k # n /\ queue = <<>>
    <3>1. new[1] = lot
      BY <2>2, <1>3
    <3>2. QED
      BY <3>1, <2>2, <1>2, <1>4, <1>5, <1>8
  <2>3. CASE k # n /\ queue # <<>>
    <3>1. 1 \in DOMAIN queue /\ new[1] = queue[1]
      BY <2>3, <1>3, EmptySeq
    <3>2. PICK i \in DOMAIN queue : queue[i].at = k
      BY <3>1, <2>3, <1>4, <1>8 DEF Newest
    <3>3. QED
      BY <3>2, <1>3
  <2>4. QED
    BY <2>1, <2>2, <2>3
<1>9. QED
  BY <1>6, <1>7, <1>8 DEF Newest

(* The oldest lot is sold out.                                             *)
LEMMA NewestTail ==
    ASSUME NEW l \in Seq(Txn), NEW s \in Sec,
           NEW queue \in Seq(Lot), queue # <<>>, Newest(queue, l, s)
    PROVE  Newest(Tail(queue), l, s)
<1> DEFINE rest == Tail(queue)
<1>1. /\ Len(queue) \in Nat \ {0} /\ DOMAIN queue = 1 .. Len(queue)
      /\ rest \in Seq(Lot) /\ DOMAIN rest = 1 .. Len(queue) - 1
      /\ \A i \in DOMAIN rest : rest[i] = queue[i + 1]
  BY HeadTailProperties, LenProperties, EmptySeq
<1>2. \A i \in DOMAIN rest : i + 1 \in DOMAIN queue /\ i + 1 > 1
  BY <1>1
<1>3. \A i, j \in DOMAIN rest : i < j => rest[i].at < rest[j].at
  BY <1>1, <1>2 DEF Newest
<1>4. ASSUME NEW k \in Purchases(l, s), rest # <<>>, k >= rest[1].at
      PROVE  \E i \in DOMAIN rest : rest[i].at = k
  <2>1. 1 \in DOMAIN rest /\ rest[1] = queue[2] /\ 2 \in DOMAIN queue
    <3>1. Len(rest) \in Nat \ {0} /\ DOMAIN rest = 1 .. Len(rest)
      BY <1>1, <1>4, EmptySeq, LenProperties
    <3>2. QED
      BY <3>1, <1>1
  <2>2. queue[1].at < queue[2].at /\ 1 \in DOMAIN queue
    BY <2>1, <1>1 DEF Newest
  <2>3. /\ queue[1].at \in Nat /\ queue[2].at \in Nat /\ k \in Nat
        /\ queue[2].at <= k
    <3>1. queue[1] \in Lot /\ queue[2] \in Lot
      BY <2>1, <2>2, <1>1, ElementOfSeq
    <3>2. DOMAIN l = 1 .. Len(l) /\ Len(l) \in Nat
      BY LenProperties
    <3>3. QED
      BY <3>1, <3>2, <2>1, <1>4, SMTT(30) DEF Lot, Purchases
  <2>4. PICK i \in DOMAIN queue : queue[i].at = k
    BY <2>2, <2>3 DEF Newest
  <2>5. i - 1 \in DOMAIN rest /\ i = (i - 1) + 1
    BY <2>2, <2>3, <2>4, <1>1
  <2>6. QED
    BY <2>4, <2>5, <1>1
<1>5. QED
  BY <1>1, <1>2, <1>3, <1>4 DEF Newest

(* The oldest lot is sold in part.                                         *)
LEMMA NewestPart ==
    ASSUME NEW l \in Seq(Txn), NEW s \in Sec,
           NEW queue \in Seq(Lot), queue # <<>>, Newest(queue, l, s),
           NEW new \in Seq(Lot), Len(new) = Len(queue),
           new[1].at = queue[1].at, new[1].qty <= queue[1].qty,
           \A i \in 2 .. Len(queue) : new[i] = queue[i]
    PROVE  Newest(new, l, s)
<1>1. /\ Len(queue) \in Nat \ {0} /\ DOMAIN queue = 1 .. Len(queue)
      /\ DOMAIN new = DOMAIN queue /\ new # <<>>
  BY LenProperties, EmptySeq
<1>2. \A i \in DOMAIN queue : new[i].at = queue[i].at
  BY <1>1
<1>3. \A i \in DOMAIN queue : i > 1 => new[i] = queue[i]
  BY <1>1
<1>4. new[1].qty <= l[new[1].at].qty
  <2>1. queue[1].at \in Purchases(l, s) /\ queue[1].qty <= l[queue[1].at].qty
    BY <1>1 DEF Newest
  <2>2. l[queue[1].at] \in Txn
    BY <2>1, ElementOfSeq, LenProperties DEF Purchases
  <2>3. queue[1] \in Lot /\ new[1] \in Lot
    BY <1>1, ElementOfSeq
  <2>4. QED
    BY <2>1, <2>2, <2>3 DEF Lot, Txn
<1>5. ASSUME NEW i \in DOMAIN new
      PROVE  /\ new[i].at \in Purchases(l, s)
             /\ new[i].qty <= l[new[i].at].qty
             /\ i > 1 => new[i].qty = l[new[i].at].qty
  <2>1. CASE i = 1
    BY <2>1, <1>1, <1>2, <1>4 DEF Newest
  <2>2. CASE i # 1
    BY <2>2, <1>1, <1>3 DEF Newest
  <2>3. QED
    BY <2>1, <2>2
<1>6. QED
  BY <1>1, <1>2, <1>5 DEF Newest

-----------------------------------------------------------------------------
(* Positions and sums *)

(* Buying and selling at average cost keeps a position one.                *)
LEMMA PositionTypes ==
    ASSUME NEW p \in Position, NEW t \in Entry
    PROVE  /\ Bought(p, t) \in Position
           /\ p.qty > 0 => /\ Sold(p, t) \in Position
                           /\ Settled(Sold(p, t)) \in Position
                           /\ Gain(p, t) \in Int
<1>1. p.qty \in Int /\ p.cost \in Int /\ t.qty \in Int /\ t.amt \in Int
  BY DEF Position, Entry
<1>2. Bought(p, t) \in Position
  BY <1>1 DEF Bought, Position
<1>3. ASSUME p.qty > 0
      PROVE  /\ Sold(p, t) \in Position
             /\ Gain(p, t) \in Int
  <2>1. Average(p) \in Int
    BY <1>1, <1>3 DEF Average
  <2>2. t.qty * Average(p) \in Int
    BY <1>1, <2>1
  <2>3. QED
    BY <1>1, <2>2 DEF Sold, Gain, Position
<1>4. Nothing \in Position
  BY DEF Nothing, Position
<1>5. QED
  BY <1>2, <1>3, <1>4 DEF Settled

(* Adding a result to a pot keeps it one.                                  *)
LEMMA SumTypes ==
    ASSUME NEW x \in Int, NEW s \in Sec \cup {NoSec}
    PROVE  /\ Taxable(s, x) \in Int
           /\ PotOf(s) \in Pot
           /\ \A sums \in Sums : Book(sums, x) \in Sums
<1>1. Taxable(s, x) \in Int
  BY DEF Taxable
<1>2. PotOf(s) \in Pot
  BY DEF PotOf, Pot
<1>3. ASSUME NEW sums \in Sums
      PROVE  Book(sums, x) \in Sums
  BY DEF Book, Sums
<1>4. QED
  BY <1>1, <1>2, <1>3

-----------------------------------------------------------------------------
(* The invariant *)

LotInv == TypeOK /\ LotsAreNewest

(* No lots are there at first.                                             *)
LEMMA InitLots == Init => LotInv
<1> SUFFICES ASSUME Init
             PROVE  LotInv
  OBVIOUS
<1> USE DEF Init
<1>1. log \in Seq(Txn) /\ year \in 1 .. LastYear + 1 /\ lots \in [Sec -> Seq(Lot)]
  BY TaxAssumption, EmptySeq
<1>2. sale \in [sec: Sec \cup {NoSec}, left: Nat] /\ sale = Idle
  BY DEF Idle
<1>3. /\ pos \in [Sec -> Position]
      /\ kapPos \in [Sec -> Position]
      /\ ytdPos \in [Sec -> Position]
      /\ freePos \in [Sec -> Position]
  BY DEF Nothing, Position
<1>4. /\ pots \in [Year -> [Pot -> Sums]]
      /\ accounts \in [Account -> [Pot -> Sums]]
      /\ carry \in [Pot -> Int]
  BY DEF NoSums, Sums
<1>5. summary \in Summary /\ kap \in Kap
  BY DEF NoSummary, Summary, NoKap, Kap
<1>6. LotsAreNewest
  BY DEF LotsAreNewest, Newest
<1>7. status \in [Account -> Int] /\ free \in Int
  OBVIOUS
<1>8. QED
  BY <1>1, <1>2, <1>3, <1>4, <1>5, <1>6, <1>7 DEF LotInv, TypeOK

(* What Record leaves: a longer log of the same year.                      *)
LEMMA RecordTypes ==
    ASSUME TypeOK, NEW t \in Menu, Record(t)
    PROVE  /\ log' \in Seq(Txn) /\ year' = year /\ year \in Year /\ carry' = carry
           /\ \E u \in Txn : /\ log' = Append(log, u)
                             /\ u.type = t.type /\ u.sec = t.sec /\ u.qty = t.qty
<1> DEFINE u == [type |-> t.type, sec |-> t.sec, account |-> t.account,
                 qty |-> t.qty, amt |-> t.amt, year |-> year]
<1>1. year \in Year /\ year' = year /\ carry' = carry
  BY TaxAssumption DEF Record, TypeOK, Year
<1>2. t \in Entry
  BY TaxAssumption
<1>3. u \in Txn
  BY <1>1, <1>2 DEF Entry, Txn
<1>4. log' = Append(log, u)
  BY DEF Record
<1>5. log' \in Seq(Txn)
  BY <1>3, <1>4, AppendProperties DEF TypeOK
<1>6. QED
  BY <1>1, <1>3, <1>4, <1>5

(* A purchase puts the newest lot at the end of its queue.                 *)
LEMMA AcquireLots ==
    ASSUME LotInv, NEW t \in Menu, Acquire(t)
    PROVE  LotInv'
<1>1. /\ log' \in Seq(Txn) /\ year' = year /\ year \in Year /\ carry' = carry
      /\ \E u \in Txn : /\ log' = Append(log, u)
                        /\ u.type = t.type /\ u.sec = t.sec /\ u.qty = t.qty
  BY RecordTypes DEF LotInv, Acquire
<1>2. PICK u \in Txn : /\ log' = Append(log, u)
                       /\ u.type = t.type /\ u.sec = t.sec /\ u.qty = t.qty
  BY <1>1
<1>3. t \in Entry /\ t.sec \in Sec /\ t.type \in In
  BY TaxAssumption DEF Acquire, Entry, In, Gets
<1> DEFINE lot == [at |-> Len(log) + 1, qty |-> t.qty]
<1>4. log \in Seq(Txn) /\ lots \in [Sec -> Seq(Lot)]
  BY DEF LotInv, TypeOK
<1>5. t.qty > 0 => lot \in Lot
  BY <1>3, <1>4, LenProperties DEF Lot, Entry
<1>6. lots' \in [Sec -> Seq(Lot)]
  <2>1. t.qty > 0 => Append(lots[t.sec], lot) \in Seq(Lot)
    BY <1>3, <1>4, <1>5, AppendProperties
  <2>2. QED
    BY <1>4, <2>1 DEF Acquire
<1>7. /\ pos' \in [Sec -> Position]
      /\ kapPos' \in [Sec -> Position]
      /\ ytdPos' \in [Sec -> Position]
      /\ freePos' \in [Sec -> Position]
  BY <1>3, PositionTypes DEF LotInv, TypeOK, Acquire
<1>8. TypeOK'
  BY <1>1, <1>6, <1>7 DEF LotInv, TypeOK, Acquire
<1>9. ASSUME NEW s \in Sec
      PROVE  Newest(lots'[s], log', s)
  <2>1. lots[s] \in Seq(Lot) /\ Newest(lots[s], log, s)
    BY <1>4 DEF LotInv, LotsAreNewest
  <2>2. CASE s = t.sec /\ t.qty > 0
    <3>1. lots'[s] = Append(lots[s], [at |-> Len(log) + 1, qty |-> u.qty])
      BY <2>2, <1>2, <1>3, <1>4 DEF Acquire
    <3>2. QED
      BY <3>1, <2>1, <2>2, <1>2, <1>3, <1>4, NewestAppend
  <2>3. CASE ~(s = t.sec /\ t.qty > 0)
    <3>1. lots'[s] = lots[s]
      BY <2>3, <1>3, <1>4 DEF Acquire
    <3>2. QED
      BY <3>1, <2>1, <2>3, <1>2, <1>4, NewestKept
  <2>4. QED
    BY <2>2, <2>3
<1>10. QED
  BY <1>8, <1>9 DEF LotInv, LotsAreNewest

(* A transaction that leaves the queues alone and is no purchase.          *)
LEMMA OtherLots ==
    ASSUME LotInv, NEW t \in Menu, Record(t), t.type \notin In, lots' = lots
    PROVE  LotsAreNewest'
<1>1. PICK u \in Txn : log' = Append(log, u) /\ u.type = t.type
  BY RecordTypes DEF LotInv
<1>2. ASSUME NEW s \in Sec
      PROVE  Newest(lots'[s], log', s)
  BY <1>1, NewestKept DEF LotInv, TypeOK, LotsAreNewest
<1>3. QED
  BY <1>2 DEF LotsAreNewest

(* An outgoing transfer leaves the queues to the loop.                     *)
LEMMA TransferOutLots ==
    ASSUME LotInv, NEW t \in Menu, TransferOut(t)
    PROVE  LotInv'
<1>1. t \in Entry /\ t.sec \in Sec /\ t.type \notin In
  BY TaxAssumption DEF TransferOut, Entry, In, Gets
<1>2. log' \in Seq(Txn) /\ year' = year /\ carry' = carry
  BY RecordTypes DEF LotInv, TransferOut
<1>3. sale' \in [sec: Sec \cup {NoSec}, left: Nat] /\ sale'.sec # NoSec
  BY <1>1, TaxAssumption DEF TransferOut, Entry
<1>4. /\ pos' \in [Sec -> Position]
      /\ kapPos' \in [Sec -> Position]
      /\ ytdPos' \in [Sec -> Position]
      /\ freePos' \in [Sec -> Position]
  BY <1>1, PositionTypes DEF LotInv, TypeOK, TransferOut
<1>5. TypeOK'
  BY <1>2, <1>3, <1>4 DEF LotInv, TypeOK, TransferOut
<1>6. LotsAreNewest'
  BY <1>1, OtherLots DEF TransferOut
<1>7. QED
  BY <1>5, <1>6 DEF LotInv

(* What is added to a field of a record of sums.                           *)
LEMMA AddTypes ==
    ASSUME NEW x \in Int, NEW y \in Int
    PROVE  /\ \A k \in Kap : /\ [k EXCEPT !.gain = @ + x] \in Kap
                             /\ [k EXCEPT !.loss = @ + x] \in Kap
                             /\ [k EXCEPT !.paid = @ + x] \in Kap
                             /\ [k EXCEPT !.interest = @ + x] \in Kap
           /\ \A m \in Summary :
                 /\ [m EXCEPT !.loss = @ + x] \in Summary
                 /\ [m EXCEPT !.gain = @ + x, !.fundGain = @ + y] \in Summary
                 /\ [m EXCEPT !.paid = @ + x, !.fundPaid = @ + y] \in Summary
           /\ \A sums \in Sums : [sums EXCEPT !.gain = @ + x] \in Sums
<1>1. ASSUME NEW k \in Kap
      PROVE  /\ [k EXCEPT !.gain = @ + x] \in Kap
             /\ [k EXCEPT !.loss = @ + x] \in Kap
             /\ [k EXCEPT !.paid = @ + x] \in Kap
             /\ [k EXCEPT !.interest = @ + x] \in Kap
  BY DEF Kap
<1>2. ASSUME NEW m \in Summary
      PROVE  /\ [m EXCEPT !.loss = @ + x] \in Summary
             /\ [m EXCEPT !.gain = @ + x, !.fundGain = @ + y] \in Summary
             /\ [m EXCEPT !.paid = @ + x, !.fundPaid = @ + y] \in Summary
  <2>1. [m EXCEPT !.loss = @ + x] \in Summary
    BY DEF Summary
  <2>2. [m EXCEPT !.gain = @ + x, !.fundGain = @ + y] \in Summary
    <3>1. [m EXCEPT !.gain = @ + x] \in Summary
      BY DEF Summary
    <3>2. [[m EXCEPT !.gain = @ + x] EXCEPT !.fundGain = @ + y] \in Summary
      <4>1. \A n \in Summary : [n EXCEPT !.fundGain = @ + y] \in Summary
        BY DEF Summary
      <4>2. QED
        BY <3>1, <4>1
    <3>3. [m EXCEPT !.gain = @ + x, !.fundGain = @ + y]
             = [[m EXCEPT !.gain = @ + x] EXCEPT !.fundGain = @ + y]
      OBVIOUS
    <3>4. QED
      BY <3>2, <3>3
  <2>3. [m EXCEPT !.paid = @ + x, !.fundPaid = @ + y] \in Summary
    <3>1. [m EXCEPT !.paid = @ + x] \in Summary
      BY DEF Summary
    <3>2. [[m EXCEPT !.paid = @ + x] EXCEPT !.fundPaid = @ + y] \in Summary
      <4>1. \A n \in Summary : [n EXCEPT !.fundPaid = @ + y] \in Summary
        BY DEF Summary
      <4>2. QED
        BY <3>1, <4>1
    <3>3. [m EXCEPT !.paid = @ + x, !.fundPaid = @ + y]
             = [[m EXCEPT !.paid = @ + x] EXCEPT !.fundPaid = @ + y]
      OBVIOUS
    <3>4. QED
      BY <3>2, <3>3
  <2>4. QED
    BY <2>1, <2>2, <2>3
<1>3. \A sums \in Sums : [sums EXCEPT !.gain = @ + x] \in Sums
  BY DEF Sums
<1>4. QED
  BY <1>1, <1>2, <1>3

(* The treatments of a sale.                                               *)
LEMMA SellTypes ==
    ASSUME TypeOK, NEW t \in Menu, Sell(t)
    PROVE  /\ pos' \in [Sec -> Position] /\ pots' \in [Year -> [Pot -> Sums]]
           /\ summary' \in Summary
           /\ kapPos' \in [Sec -> Position] /\ kap' \in Kap
           /\ ytdPos' \in [Sec -> Position]
           /\ accounts' \in [Account -> [Pot -> Sums]]
           /\ status' \in [Account -> Int]
           /\ freePos' \in [Sec -> Position] /\ free' \in Int
<1>1. t \in Entry /\ t.sec \in Sec /\ t.account \in Account
  BY TaxAssumption DEF Sell, Entry, Gets
<1>2. year \in Year
  BY RecordTypes DEF Sell
<1>3. /\ pos[t.sec] \in Position /\ kapPos[t.sec] \in Position
      /\ ytdPos[t.sec] \in Position /\ freePos[t.sec] \in Position
  BY <1>1 DEF TypeOK
<1>4. /\ pos' \in [Sec -> Position] /\ pots' \in [Year -> [Pot -> Sums]]
      /\ summary' \in Summary
  <2>1. CASE pos[t.sec].qty <= 0
    BY <2>1 DEF TypeOK, Sell, SellAtAverage
  <2>2. CASE ~(pos[t.sec].qty <= 0)
    <3> DEFINE g == Gain(pos[t.sec], t)
    <3>1. g \in Int /\ Settled(Sold(pos[t.sec], t)) \in Position
      BY <2>2, <1>1, <1>3, PositionTypes DEF Position
    <3>2. pos' = [pos EXCEPT ![t.sec] = Settled(Sold(@, t))]
      BY <2>2 DEF Sell, SellAtAverage
    <3>3. pos' \in [Sec -> Position]
      BY <3>1, <3>2, <1>1 DEF TypeOK
    <3>4. /\ PotOf(t.sec) \in Pot /\ Taxable(t.sec, g) \in Int
          /\ \A sums \in Sums : Book(sums, Taxable(t.sec, g)) \in Sums
      BY <3>1, <1>1, SumTypes
    <3>5. pots' = [pots EXCEPT ![year][PotOf(t.sec)] = Book(@, Taxable(t.sec, g))]
      BY <2>2 DEF Sell, SellAtAverage
    <3>6. pots' \in [Year -> [Pot -> Sums]]
      BY <3>4, <3>5, <1>2 DEF TypeOK
    <3>7. summary' = IF year # Target THEN summary
                     ELSE IF g < 0 THEN [summary EXCEPT !.loss = @ + g]
                     ELSE [summary EXCEPT
                              !.gain = @ + g,
                              !.fundGain = @ + (IF t.sec \in Fund THEN g ELSE 0)]
      BY <2>2 DEF Sell, SellAtAverage
    <3>8. summary' \in Summary
      <4> DEFINE f == IF t.sec \in Fund THEN g ELSE 0
      <4>1. g \in Int /\ f \in Int /\ summary \in Summary
        BY <3>1, SMTT(30) DEF TypeOK
      <4>2. /\ [summary EXCEPT !.loss = @ + g] \in Summary
            /\ [summary EXCEPT !.gain = @ + g, !.fundGain = @ + f] \in Summary
        <5> HIDE DEF g, f
        <5>1. QED
          BY <4>1, AddTypes
      <4>3. QED
        BY <4>1, <4>2, <3>7
    <3>9. QED
      BY <3>3, <3>6, <3>8
  <2>3. QED
    BY <2>1, <2>2
<1>5. kapPos' \in [Sec -> Position] /\ kap' \in Kap
  <2>1. CASE year > Target \/ kapPos[t.sec].qty <= 0
    BY <2>1 DEF TypeOK, Sell, SellForKap
  <2>2. CASE ~(year > Target \/ kapPos[t.sec].qty <= 0)
    <3> DEFINE g == Gain(kapPos[t.sec], t)
    <3>1. g \in Int /\ Sold(kapPos[t.sec], t) \in Position
      BY <2>2, <1>1, <1>3, PositionTypes DEF Position
    <3>2. Taxable(t.sec, g) \in Int
      BY <3>1, <1>1, SumTypes
    <3>3. /\ kapPos' = [kapPos EXCEPT ![t.sec] = Sold(@, t)]
          /\ kap' = IF year < Target THEN kap
                    ELSE IF g > 0 THEN [kap EXCEPT !.gain = @ + Taxable(t.sec, g)]
                    ELSE [kap EXCEPT !.loss = @ + 10 * g]
      BY <2>2 DEF Sell, SellForKap
    <3>4. kapPos' \in [Sec -> Position]
      BY <3>1, <3>3, <1>1 DEF TypeOK
    <3>5. kap' \in Kap
      <4> DEFINE x == Taxable(t.sec, g)
                 y == 10 * g
      <4>1. x \in Int /\ y \in Int /\ kap \in Kap
        BY <3>1, <3>2, SMTT(30) DEF TypeOK
      <4>2. /\ [kap EXCEPT !.gain = @ + x] \in Kap
            /\ [kap EXCEPT !.loss = @ + y] \in Kap
        <5> HIDE DEF x, y
        <5>1. QED
          BY <4>1, AddTypes
      <4>3. QED
        BY <4>1, <4>2, <3>3
    <3>6. QED
      BY <3>4, <3>5
  <2>3. QED
    BY <2>1, <2>2
<1>6. ytdPos' \in [Sec -> Position] /\ accounts' \in [Account -> [Pot -> Sums]]
  <2>1. CASE year # Target \/ ytdPos[t.sec].qty <= 0
    BY <2>1 DEF TypeOK, Sell, SellForAccount
  <2>2. CASE ~(year # Target \/ ytdPos[t.sec].qty <= 0)
    <3> DEFINE g == Gain(ytdPos[t.sec], t)
    <3>1. g \in Int /\ Sold(ytdPos[t.sec], t) \in Position
      BY <2>2, <1>1, <1>3, PositionTypes DEF Position
    <3>2. /\ PotOf(t.sec) \in Pot
          /\ \A sums \in Sums : Book(sums, Taxable(t.sec, g)) \in Sums
      BY <3>1, <1>1, SumTypes
    <3>3. /\ ytdPos' = [ytdPos EXCEPT ![t.sec] = Sold(@, t)]
          /\ accounts' = [accounts EXCEPT ![t.account][PotOf(t.sec)] =
                             Book(@, Taxable(t.sec, g))]
      BY <2>2 DEF Sell, SellForAccount
    <3>4. ytdPos' \in [Sec -> Position]
      BY <3>1, <3>3, <1>1 DEF TypeOK
    <3>5. accounts' \in [Account -> [Pot -> Sums]]
      BY <3>2, <3>3, <1>1 DEF TypeOK
    <3>6. QED
      BY <3>4, <3>5
  <2>3. QED
    BY <2>1, <2>2
<1>7. status' \in [Account -> Int]
  <2>1. CASE year # Target \/ ytdPos[t.sec].qty <= 0
    BY <2>1 DEF TypeOK, Sell, SellForStatus
  <2>2. CASE ~(year # Target \/ ytdPos[t.sec].qty <= 0)
    <3> DEFINE g == Gain(ytdPos[t.sec], t)
    <3>1. g \in Int
      BY <2>2, <1>1, <1>3, PositionTypes DEF Position
    <3>2. TaxableGain(t.sec, g) \in Int
      BY <3>1, <1>1, SumTypes DEF TaxableGain
    <3>3. status' = [status EXCEPT ![t.account] = @ + TaxableGain(t.sec, g)]
      BY <2>2 DEF Sell, SellForStatus
    <3> HIDE DEF g
    <3>4. QED
      BY <3>2, <3>3, <1>1 DEF TypeOK
  <2>3. QED
    BY <2>1, <2>2
<1>8. freePos' \in [Sec -> Position] /\ free' \in Int
  <2>1. CASE freePos[t.sec].qty <= 0
    BY <2>1 DEF TypeOK, Sell, SellForFree
  <2>2. CASE ~(freePos[t.sec].qty <= 0)
    <3> DEFINE g == Gain(freePos[t.sec], t)
    <3>1. g \in Int /\ Sold(freePos[t.sec], t) \in Position
      BY <2>2, <1>1, <1>3, PositionTypes DEF Position
    <3>2. TaxableGain(t.sec, g) \in Int
      BY <3>1, <1>1, SumTypes DEF TaxableGain
    <3>3. /\ freePos' = [freePos EXCEPT ![t.sec] = Sold(@, t)]
          /\ free' = free + (IF year # Target THEN 0 ELSE TaxableGain(t.sec, g))
      BY <2>2 DEF Sell, SellForFree
    <3>4. freePos' \in [Sec -> Position]
      BY <3>1, <3>3, <1>1 DEF TypeOK
    <3>5. free' \in Int
      <4> HIDE DEF g
      <4>1. QED
        BY <3>2, <3>3 DEF TypeOK
    <3>6. QED
      BY <3>4, <3>5
  <2>3. QED
    BY <2>1, <2>2
<1>9. QED
  BY <1>4, <1>5, <1>6, <1>7, <1>8

(* So does a sale.                                                         *)
LEMMA SellLots ==
    ASSUME LotInv, NEW t \in Menu, Sell(t)
    PROVE  LotInv'
<1>1. t \in Entry /\ t.sec \in Sec /\ t.type \notin In
  BY TaxAssumption DEF Sell, Entry, In, Gets
<1>2. log' \in Seq(Txn) /\ year' = year /\ carry' = carry
  BY RecordTypes DEF LotInv, Sell
<1>3. sale' \in [sec: Sec \cup {NoSec}, left: Nat] /\ sale'.sec # NoSec
  BY <1>1, TaxAssumption DEF Sell, Entry
<1>4. TypeOK'
  BY <1>2, <1>3, SellTypes DEF LotInv, TypeOK, Sell
<1>5. LotsAreNewest'
  BY <1>1, OtherLots DEF Sell
<1>6. QED
  BY <1>4, <1>5 DEF LotInv

(* Income touches no queue.                                                *)
LEMMA IncomeLots ==
    ASSUME LotInv, NEW t \in Menu, Income(t)
    PROVE  LotInv'
<1> DEFINE interest == t.type = "interest"
           part     == IF interest THEN 10 * t.amt ELSE Taxable(t.sec, t.amt)
<1>1. t \in Entry /\ t.account \in Account /\ t.amt \in Int /\ t.type \notin In
  BY TaxAssumption DEF Income, Entry, In, Gets
<1>2. part \in Int
  BY <1>1, SumTypes DEF Entry
<1>3. log' \in Seq(Txn) /\ year' = year /\ year \in Year /\ carry' = carry
  BY RecordTypes DEF LotInv, Income
<1>4. pots' \in [Year -> [Pot -> Sums]]
  <2> DEFINE sums == [pots[year]["general"] EXCEPT !.gain = @ + part]
  <2>1. pots' = [pots EXCEPT ![year] = [@ EXCEPT !["general"] = sums]]
    BY <1>3 DEF Income, LotInv, TypeOK, Pot
  <2>2. pots[year] \in [Pot -> Sums] /\ "general" \in Pot
    BY <1>3, SMTT(30) DEF LotInv, TypeOK, Pot
  <2>3. sums \in Sums
    <3> HIDE DEF part
    <3>1. QED
      BY <2>2, <1>2, AddTypes
  <2>4. [pots[year] EXCEPT !["general"] = sums] \in [Pot -> Sums]
    <3> HIDE DEF sums
    <3>1. QED
      BY <2>2, <2>3
  <2>5. QED
    <3> HIDE DEF sums
    <3>1. QED
      BY <2>1, <2>4, <1>3 DEF LotInv, TypeOK
<1>5. /\ summary' \in Summary /\ kap' \in Kap
      /\ accounts' \in [Account -> [Pot -> Sums]]
      /\ status' \in [Account -> Int] /\ free' \in Int
  <2>1. CASE year # Target
    BY <2>1 DEF LotInv, TypeOK, Income
  <2>2. CASE year = Target
    <3>1. /\ summary' =
                IF interest THEN summary
                ELSE [summary EXCEPT !.paid = @ + t.amt,
                         !.fundPaid = @ + (IF t.sec \in Fund THEN t.amt ELSE 0)]
          /\ kap' = IF interest THEN [kap EXCEPT !.interest = @ + part]
                                ELSE [kap EXCEPT !.paid = @ + part]
          /\ accounts' = [accounts EXCEPT ![t.account]["general"].gain = @ + part]
          /\ status' = [status EXCEPT ![t.account] = @ + part]
          /\ free' = free + part
      BY <2>2 DEF Income
    <3>2. summary' \in Summary
      <4> DEFINE f == IF t.sec \in Fund THEN t.amt ELSE 0
      <4>1. summary \in Summary /\ f \in Int
        BY <1>1, SMTT(30) DEF LotInv, TypeOK
      <4>2. [summary EXCEPT !.paid = @ + t.amt, !.fundPaid = @ + f] \in Summary
        <5> HIDE DEF f
        <5>1. QED
          BY <4>1, <1>1, AddTypes
      <4>3. QED
        BY <4>1, <4>2, <3>1
    <3>3. kap' \in Kap
      <4>1. kap \in Kap
        BY SMTT(30) DEF LotInv, TypeOK
      <4>2. /\ [kap EXCEPT !.interest = @ + part] \in Kap
            /\ [kap EXCEPT !.paid = @ + part] \in Kap
        <5> HIDE DEF part
        <5>1. QED
          BY <4>1, <1>2, AddTypes
      <4>3. QED
        BY <4>2, <3>1
    <3>4. accounts' \in [Account -> [Pot -> Sums]]
      <4> DEFINE sums == [accounts[t.account]["general"] EXCEPT !.gain = @ + part]
      <4>1. /\ accounts[t.account] \in [Pot -> Sums] /\ "general" \in Pot
            /\ accounts \in [Account -> [Pot -> Sums]]
        BY <1>1 DEF LotInv, TypeOK, Pot
      <4>2. accounts' = [accounts EXCEPT ![t.account] =
                            [@ EXCEPT !["general"] = sums]]
        BY <3>1, <4>1, <1>1, SMTT(30)
      <4>3. sums \in Sums
        <5> HIDE DEF part
        <5>1. QED
          BY <4>1, <1>2, AddTypes
      <4>4. [accounts[t.account] EXCEPT !["general"] = sums] \in [Pot -> Sums]
        <5> HIDE DEF sums
        <5>1. QED
          BY <4>1, <4>3
      <4>5. QED
        <5> HIDE DEF sums
        <5>1. QED
          BY <4>1, <4>2, <4>4, <1>1
    <3>5. status' \in [Account -> Int] /\ free' \in Int
      <4> HIDE DEF part
      <4>1. QED
        BY <3>1, <1>1, <1>2 DEF LotInv, TypeOK
    <3>6. QED
      BY <3>2, <3>3, <3>4, <3>5
  <2>3. QED
    BY <2>1, <2>2
<1>6. TypeOK'
  BY <1>3, <1>4, <1>5 DEF LotInv, TypeOK, Income
<1>7. LotsAreNewest'
  BY <1>1, OtherLots DEF Income
<1>8. QED
  BY <1>6, <1>7 DEF LotInv

(* A pass of the FIFO loop.                                                *)
LEMMA ConsumeLots ==
    ASSUME LotInv, ConsumeLot
    PROVE  LotInv'
<1> DEFINE s      == sale.sec
           queue  == lots[s]
           oldest == Head(queue)
<1>1. s \in Sec /\ sale.left \in Nat /\ sale.left > 0
  BY DEF LotInv, TypeOK, ConsumeLot, Idle
<1>2. /\ queue \in Seq(Lot) /\ queue # <<>> /\ Newest(queue, log, s)
      /\ log \in Seq(Txn) /\ lots \in [Sec -> Seq(Lot)]
  BY <1>1 DEF LotInv, TypeOK, LotsAreNewest, ConsumeLot
<1>3. /\ Len(queue) \in Nat \ {0} /\ 1 \in 1 .. Len(queue)
      /\ DOMAIN queue = 1 .. Len(queue)
      /\ oldest = queue[1] /\ queue[1] \in Lot
  BY <1>2, EmptySeq, LenProperties, ElementOfSeq
<1>4. /\ UNCHANGED <<log, year, carry, walks>>
      /\ IF oldest.qty <= sale.left
         THEN /\ sale' = [sale EXCEPT !.left = @ - oldest.qty]
              /\ lots' = [lots EXCEPT ![s] = Tail(@)]
         ELSE /\ lots' = [lots EXCEPT ![s][1].qty = @ - sale.left]
              /\ sale' = [sale EXCEPT !.left = 0]
  BY DEF ConsumeLot
<1>5. /\ lots' \in [Sec -> Seq(Lot)]
      /\ \A r \in Sec \ {s} : lots'[r] = lots[r]
      /\ Newest(lots'[s], log, s)
      /\ sale' \in [sec: Sec \cup {NoSec}, left: Nat] /\ sale'.sec = s
  <2>1. CASE oldest.qty <= sale.left
    <3>1. sale' = [sale EXCEPT !.left = @ - oldest.qty]
      BY <2>1, <1>4
    <3>2. lots' = [lots EXCEPT ![s] = Tail(queue)] /\ Tail(queue) \in Seq(Lot)
      BY <2>1, <1>2, <1>4, HeadTailProperties
    <3>3. sale.left - oldest.qty \in Nat
      BY <2>1, <1>1, <1>3 DEF Lot
    <3>4. Newest(Tail(queue), log, s)
      BY <1>1, <1>2, NewestTail
    <3>5. QED
      BY <3>1, <3>2, <3>3, <3>4, <1>1, <1>2 DEF LotInv, TypeOK
  <2>2. CASE ~(oldest.qty <= sale.left)
    <3> DEFINE lot == [queue[1] EXCEPT !.qty = @ - sale.left]
               new == [queue EXCEPT ![1] = lot]
    <3>1. /\ lots' = [lots EXCEPT ![s] = new]
          /\ sale' = [sale EXCEPT !.left = 0]
      BY <2>2, <1>1, <1>2, <1>3, <1>4
    <3>2. /\ lot \in Lot /\ lot.at = queue[1].at
          /\ lot.qty <= queue[1].qty
      BY <2>2, <1>1, <1>3, SMTT(30) DEF Lot
    <3>3. /\ new \in Seq(Lot) /\ Len(new) = Len(queue)
          /\ new[1] = lot
          /\ \A i \in 2 .. Len(queue) : new[i] = queue[i]
      BY <3>2, <1>2, <1>3, ExceptSeq
    <3>4. Newest(new, log, s)
      <4>1. new[1].at = queue[1].at /\ new[1].qty <= queue[1].qty
        BY <3>2, <3>3
      <4> HIDE DEF lot, new, queue, oldest
      <4>2. QED
        BY <3>3, <4>1, <1>1, <1>2, NewestPart
    <3>5. QED
      BY <3>1, <3>3, <3>4, <1>1, <1>2 DEF LotInv, TypeOK
  <2>3. QED
    BY <2>1, <2>2
<1>6. TypeOK'
  BY <1>1, <1>4, <1>5, TaxAssumption DEF LotInv, TypeOK, walks
<1>7. LotsAreNewest'
  BY <1>4, <1>5 DEF LotInv, LotsAreNewest
<1>8. QED
  BY <1>6, <1>7 DEF LotInv

(* A sale ends with the queues as they are.                                *)
LEMMA EndSaleLots ==
    ASSUME LotInv, EndSale
    PROVE  LotInv'
<1>1. Idle \in [sec: Sec \cup {NoSec}, left: Nat]
  BY DEF Idle
<1>2. QED
  BY <1>1 DEF LotInv, TypeOK, LotsAreNewest, EndSale, walks

(* So does a year.                                                         *)
LEMMA CloseYearLots ==
    ASSUME LotInv, CloseYear
    PROVE  LotInv'
<1>1. year \in Year /\ year' \in 1 .. LastYear + 1
  BY TaxAssumption DEF LotInv, TypeOK, CloseYear, Year
<1>2. \A p \in Pot : Balance(year, p) \in Int /\ carry[p] \in Int
  BY <1>1 DEF LotInv, TypeOK, Balance, Sums
<1>3. carry' \in [Pot -> Int]
  BY <1>2 DEF CloseYear
<1>4. QED
  BY <1>1, <1>3 DEF LotInv, TypeOK, LotsAreNewest, CloseYear, walks

(* The queues hold the newest shares after every step.                     *)
THEOREM LotInvInductive == Spec => []LotInv
<1>1. LotInv /\ [Next]_vars => LotInv'
  <2> SUFFICES ASSUME LotInv, [Next]_vars
               PROVE  LotInv'
    OBVIOUS
  <2>1. ASSUME NEW t \in Menu, Acquire(t)
        PROVE  LotInv'
    BY <2>1, AcquireLots
  <2>2. ASSUME NEW t \in Menu, Sell(t)
        PROVE  LotInv'
    BY <2>2, SellLots
  <2>3. ASSUME NEW t \in Menu, TransferOut(t)
        PROVE  LotInv'
    BY <2>3, TransferOutLots
  <2>4. ASSUME NEW t \in Menu, Income(t)
        PROVE  LotInv'
    BY <2>4, IncomeLots
  <2>5. CASE ConsumeLot
    BY <2>5, ConsumeLots
  <2>6. CASE EndSale
    BY <2>6, EndSaleLots
  <2>7. CASE CloseYear
    BY <2>7, CloseYearLots
  <2>8. CASE UNCHANGED vars
    BY <2>8 DEF LotInv, TypeOK, LotsAreNewest, vars
  <2>9. QED
    BY <2>1, <2>2, <2>3, <2>4, <2>5, <2>6, <2>7, <2>8 DEF Next
<1>2. QED
  BY InitLots, <1>1, PTL DEF Spec

(* Whatever is bought, sold, moved and paid, quantities in the queues are  *)
(* positive, and sums and positions are numbers: no step divides by the    *)
(* quantity of a position that holds none.                                 *)
THEOREM TaxTypeCorrect == Spec => []TypeOK
<1>1. LotInv => TypeOK
  BY DEF LotInv
<1>2. QED
  BY LotInvInductive, <1>1, PTL

(* The FIFO queue of a security holds its latest purchases, each of them   *)
(* and in order, the oldest perhaps in part, after any log and between any *)
(* two passes of the loop that takes a sale off it.                        *)
THEOREM LotsSafe == Spec => []LotsAreNewest
<1>1. LotInv => LotsAreNewest
  BY DEF LotInv
<1>2. QED
  BY LotInvInductive, <1>1, PTL

-----------------------------------------------------------------------------
(* Losses carried *)

Balances(p) == [y \in Year |-> Balance(y, p)]

(* The result of some years is a total.                                    *)
LEMMA BalanceSum ==
    ASSUME NEW p, NEW S \in SUBSET Year, IsFiniteSet(S)
    PROVE  MapThenSumSet(LAMBDA y : Balance(y, p), S) = Total(Balances(p), S)
<1> DEFINE F == Balances(p)
           it == CHOOSE it : it = [s \in SUBSET S |->
                    IF s = {} THEN 0
                    ELSE Balance(Pick(s), p) + it[s \ {Pick(s)}]]
<1>1. \A s \in SUBSET S : s # {} => F[Pick(s)] = Balance(Pick(s), p)
  BY PickIn DEF Balances
<1> HIDE DEF F
<1>2. ASSUME NEW b
      PROVE  [s \in SUBSET S |-> IF s = {} THEN 0
                 ELSE F[Pick(s)] + b[s \ {Pick(s)}]]
             = [s \in SUBSET S |-> IF s = {} THEN 0
                 ELSE Balance(Pick(s), p) + b[s \ {Pick(s)}]]
  BY <1>1
<1>3. PICK a : AddsUp(a, F, S) /\ Total(F, S) = a[S]
  BY AddsUpExists, TotalIs
<1>4. it = [s \in SUBSET S |-> IF s = {} THEN 0
               ELSE Balance(Pick(s), p) + it[s \ {Pick(s)}]]
  BY <1>2, <1>3 DEF AddsUp
<1> HIDE DEF it
<1>5. AddsUp(it, F, S)
  BY <1>2, <1>4 DEF AddsUp
<1>6. it[S] = Total(F, S)
  BY <1>3, <1>5, AddsUpOnce
<1>7. MapThenSumSet(LAMBDA y : Balance(y, p), S) = it[S]
  BY DEF MapThenSumSet, MapThenFoldSet, Pick, it
<1>8. QED
  BY <1>6, <1>7 DEF F

(* The least element of a set is its minimum.                              *)
LEMMA MinIs ==
    ASSUME NEW S \in SUBSET Int, NEW x \in S, \A y \in S : x <= y
    PROVE  Min(S) = x
<1>1. Min(S) \in S /\ \A y \in S : Min(S) <= y
  BY DEF Min
<1>2. Min(S) \in Int /\ x \in Int /\ Min(S) <= x /\ x <= Min(S)
  BY <1>1
<1>3. QED
  BY <1>2

(* The results of the years from each one up to n.                         *)
Runs(p, n) == {Total(Balances(p), y .. n) : y \in 1 .. n}

(* What is carried is the least of them, or nothing.                       *)
CarryOK ==
    \A p \in Pot : /\ carry[p] \in {0} \cup Runs(p, year - 1)
                   /\ \A x \in {0} \cup Runs(p, year - 1) : carry[p] <= x

CarryInv == TypeOK /\ CarryOK

(* The result of a year is an integer.                                     *)
LEMMA BalanceType ==
    ASSUME TypeOK, NEW p \in Pot
    PROVE  \A y \in Year : Balance(y, p) \in Int /\ Balances(p)[y] = Balance(y, p)
BY DEF TypeOK, Sums, Balance, Balances

(* A run of years is finite.                                               *)
LEMMA YearsFinite ==
    ASSUME NEW n \in Nat, n <= LastYear
    PROVE  \A y \in 1 .. n : /\ y .. n \subseteq Year /\ IsFiniteSet(y .. n)
                             /\ y \in Nat
BY TaxAssumption, FS_Interval DEF Year

(* One year more: every run grows by its result, and one begins with it.   *)
LEMMA RunsStep ==
    ASSUME TypeOK, NEW p \in Pot, year \in Year
    PROVE  /\ {0} \cup Runs(p, year - 1) \subseteq Int
           /\ Runs(p, year) =
                 {x + Balance(year, p) : x \in {0} \cup Runs(p, year - 1)}
<1> DEFINE n == year - 1
           F == Balances(p)
           b == Balance(year, p)
<1>1. n \in Nat /\ year \in Nat /\ year = n + 1 /\ year <= LastYear /\ n <= LastYear
      /\ LastYear \in Nat
  BY TaxAssumption DEF Year
<1>2. b \in Int /\ F[year] = b /\ \A y \in Year : F[y] \in Int
  BY BalanceType
<1> HIDE DEF n, F, b
<1>3. ASSUME NEW y \in 1 .. n
      PROVE  /\ Total(F, y .. n) \in Int
             /\ Total(F, y .. year) = Total(F, y .. n) + b
  <2>1. y .. n \subseteq Year /\ IsFiniteSet(y .. n)
    BY <1>1, YearsFinite
  <2>2. y .. year = (y .. n) \cup {year} /\ year \notin y .. n
    BY <1>1
  <2>3. \A k \in (y .. n) \cup {year} : F[k] \in Int
    BY <1>2, <2>1
  <2>4. Total(F, (y .. n) \cup {year}) = Total(F, y .. n) + F[year]
    BY <2>1, <2>2, <2>3, TotalAdd
  <2>5. Total(F, y .. n) \in Int
    BY <2>1, <2>3, TotalType
  <2>6. QED
    BY <1>2, <2>2, <2>4, <2>5
<1>4. Total(F, year .. year) = b
  <2>1. year .. year = {} \cup {year}
    BY <1>1
  <2>2. Total(F, {} \cup {year}) = Total(F, {}) + F[year]
    BY <1>2, TotalAdd, FS_EmptySet
  <2>3. Total(F, {}) = 0
    BY TotalStep, FS_EmptySet
  <2>4. QED
    BY <1>2, <2>1, <2>2, <2>3
<1>5. 1 .. year = (1 .. n) \cup {year}
  BY <1>1
<1>6. Runs(p, n) = {Total(F, y .. n) : y \in 1 .. n}
  BY DEF Runs, F
<1>7. Runs(p, year) = {Total(F, y .. year) : y \in 1 .. year}
  BY DEF Runs, F
<1>8. Runs(p, year) = {x + b : x \in {0} \cup Runs(p, n)}
  <2>1. ASSUME NEW y \in 1 .. year
        PROVE  \E x \in {0} \cup Runs(p, n) : Total(F, y .. year) = x + b
    <3>1. CASE y = year
      BY <1>2, <1>4, <3>1
    <3>2. CASE y \in 1 .. n
      BY <1>3, <1>6, <3>2
    <3>3. QED
      BY <1>5, <3>1, <3>2
  <2>2. ASSUME NEW x \in {0} \cup Runs(p, n)
        PROVE  \E y \in 1 .. year : Total(F, y .. year) = x + b
    <3>1. CASE x = 0
      <4>1. year \in 1 .. year /\ x + b = b
        BY <1>2, <1>5, <3>1
      <4>2. QED
        BY <1>4, <4>1
    <3>2. CASE x \in Runs(p, n)
      BY <1>3, <1>5, <1>6, <3>2
    <3>3. QED
      BY <3>1, <3>2
  <2>3. QED
    BY <1>7, <2>1, <2>2
<1>9. {0} \cup Runs(p, n) \subseteq Int
  BY <1>3, <1>6
<1>10. QED
  BY <1>8, <1>9 DEF n, b

(* Closing a year keeps the carry at the worst run.                        *)
LEMMA CloseYearCarry ==
    ASSUME CarryInv, CloseYear
    PROVE  CarryOK'
<1>1. year \in Year /\ year' = year + 1 /\ year \in Nat
  BY TaxAssumption DEF CarryInv, TypeOK, CloseYear, Year
<1>2. \A p, n : Runs(p, n)' = Runs(p, n)
  BY DEF CloseYear, walks, Runs, Balances, Balance
<1>3. ASSUME NEW p \in Pot
      PROVE  /\ carry'[p] \in {0} \cup Runs(p, year)
             /\ \A x \in {0} \cup Runs(p, year) : carry'[p] <= x
  <2> DEFINE b == Balance(year, p)
             R == {0} \cup Runs(p, year - 1)
  <2>1. b \in Int
    BY <1>1, BalanceType DEF CarryInv
  <2>2. R \subseteq Int /\ Runs(p, year) = {x + b : x \in R}
    BY <1>1, RunsStep DEF CarryInv
  <2>3. carry[p] \in R /\ \A x \in R : carry[p] <= x
    BY DEF CarryInv, CarryOK
  <2>4. carry'[p] = IF b + carry[p] < 0 THEN b + carry[p] ELSE 0
    BY DEF CloseYear
  <2> HIDE DEF b, R
  <2>5. carry[p] + b \in Runs(p, year)
    BY <2>2, <2>3
  <2>6. carry[p] \in Int /\ carry[p] <= 0
    BY <2>2, <2>3 DEF R
  <2>7. ASSUME NEW x \in Runs(p, year) PROVE x \in Int /\ carry[p] + b <= x
    <3>1. PICK z \in R : x = z + b
      BY <2>2
    <3>2. z \in Int /\ carry[p] <= z
      BY <2>2, <2>3
    <3>3. QED
      BY <2>1, <2>6, <3>1, <3>2
  <2>8. carry'[p] \in Int /\ carry'[p] <= b + carry[p] /\ carry'[p] <= 0
    BY <2>1, <2>4, <2>6
  <2>9. ASSUME NEW x \in Runs(p, year) PROVE carry'[p] <= x
    BY <2>1, <2>6, <2>7, <2>8
  <2>10. carry'[p] \in {0} \cup Runs(p, year)
    BY <2>1, <2>4, <2>5, <2>6
  <2>11. QED
    BY <2>8, <2>9, <2>10
<1>4. year' - 1 = year
  BY <1>1
<1>5. QED
  BY <1>2, <1>3, <1>4 DEF CarryOK

(* A transaction changes the pots of its own year only.                    *)
LEMMA PotsOfYear ==
    ASSUME TypeOK, [Next]_vars, ~CloseYear
    PROVE  /\ year' = year /\ carry' = carry
           /\ \A y \in Year : y # year => pots'[y] = pots[y]
<1>1. CASE \E t \in Menu : Acquire(t) \/ TransferOut(t)
  BY <1>1 DEF Acquire, TransferOut, Record
<1>2. CASE \E t \in Menu : Sell(t)
  BY <1>2 DEF Sell, Record, SellAtAverage, TypeOK
<1>3. CASE \E t \in Menu : Income(t)
  BY <1>3 DEF Income, Record, TypeOK
<1>4. CASE ConsumeLot \/ EndSale \/ UNCHANGED vars
  BY <1>4 DEF ConsumeLot, EndSale, walks, vars
<1>5. QED
  BY <1>1, <1>2, <1>3, <1>4 DEF Next

(* Every step keeps the carry at the worst run.                            *)
LEMMA CarryStays ==
    ASSUME CarryInv, TypeOK', [Next]_vars
    PROVE  CarryInv'
<1>1. CASE CloseYear
  BY <1>1, CloseYearCarry DEF CarryInv
<1>2. CASE ~CloseYear
  <2>1. /\ year' = year /\ carry' = carry
        /\ \A y \in Year : y # year => pots'[y] = pots[y]
    BY <1>2, PotsOfYear DEF CarryInv
  <2>2. year \in 1 .. LastYear + 1 /\ LastYear \in Nat
    BY TaxAssumption DEF CarryInv, TypeOK
  <2>3. ASSUME NEW p \in Pot PROVE Runs(p, year - 1)' = Runs(p, year - 1)
    <3> DEFINE F == Balances(p)
               G == Balances(p)'
    <3>1. ASSUME NEW y \in 1 .. year - 1
          PROVE  Total(G, y .. year - 1) = Total(F, y .. year - 1)
      <4>1. y .. year - 1 \subseteq Year /\ IsFiniteSet(y .. year - 1)
        BY <2>2, YearsFinite
      <4>2. \A k \in y .. year - 1 : k # year
        BY <2>2
      <4>3. \A k \in y .. year - 1 : F[k] = G[k]
        BY <2>1, <4>1, <4>2 DEF Balances, Balance
      <4> HIDE DEF F, G
      <4>4. QED
        BY <4>1, <4>3, TotalSame
    <3>2. Runs(p, year - 1)' = {Total(G, y .. year - 1) : y \in 1 .. year - 1}
      BY <2>1 DEF Runs
    <3>3. QED
      BY <3>1, <3>2 DEF Runs
  <2>4. QED
    BY <2>1, <2>3 DEF CarryInv, CarryOK
<1>3. QED
  BY <1>1, <1>2

(* Before the first year nothing is carried.                               *)
LEMMA InitCarry == Init => CarryInv
<1> SUFFICES ASSUME Init PROVE CarryInv
  OBVIOUS
<1>1. TypeOK
  BY InitLots DEF LotInv
<1>2. \A p : Runs(p, year - 1) = {}
  BY DEF Init, Runs
<1>3. QED
  BY <1>1, <1>2 DEF Init, CarryInv, CarryOK

(* The carry of the invariant is the one of the property.                  *)
LEMMA CarryImplies == CarryInv => CarryIsWorstRun
<1> SUFFICES ASSUME CarryInv, NEW p \in Pot
             PROVE  carry[p] = Min({0} \cup {Result(y, year - 1, p) :
                                              y \in 1 .. year - 1})
  BY DEF CarryIsWorstRun
<1> DEFINE R == {0} \cup Runs(p, year - 1)
<1>1. year \in 1 .. LastYear + 1 /\ LastYear \in Nat
  BY TaxAssumption DEF CarryInv, TypeOK
<1>2. ASSUME NEW y \in 1 .. year - 1
      PROVE  /\ Result(y, year - 1, p) = Total(Balances(p), y .. year - 1)
             /\ Total(Balances(p), y .. year - 1) \in Int
  <2>1. y .. year - 1 \subseteq Year /\ IsFiniteSet(y .. year - 1)
    BY <1>1, YearsFinite
  <2>2. Total(Balances(p), y .. year - 1) \in Int
    BY <2>1, BalanceType, TotalType DEF CarryInv
  <2>3. QED
    BY <2>1, <2>2, BalanceSum DEF Result
<1>3. R = {0} \cup {Result(y, year - 1, p) : y \in 1 .. year - 1}
  BY <1>2 DEF Runs
<1>4. R \subseteq Int
  BY <1>2 DEF Runs
<1>5. carry[p] \in R /\ \A x \in R : carry[p] <= x
  BY DEF CarryInv, CarryOK
<1> HIDE DEF R
<1>6. QED
  BY <1>3, <1>4, <1>5, MinIs

(* The loss carried into a year is the worst run of the results up to it,  *)
(* for any transactions and years, though it is computed year by year and  *)
(* never looks back (tax.go:448-490).                                      *)
THEOREM CarrySafe == Spec => []CarryIsWorstRun
BY InitCarry, CarryStays, CarryImplies, TaxTypeCorrect, PTL DEF Spec

-----------------------------------------------------------------------------
(* Shares of a queue *)

QtyOf(queue) == [i \in DOMAIN queue |-> queue[i].qty]

Shown(queue) == Total(QtyOf(queue), DOMAIN queue)

(* The shares of a queue are a total.                                      *)
LEMMA QtySum ==
    ASSUME NEW queue, IsFiniteSet(DOMAIN queue)
    PROVE  MapThenSumSet(LAMBDA i : queue[i].qty, DOMAIN queue) = Shown(queue)
<1> DEFINE S == DOMAIN queue
           F == QtyOf(queue)
           it == CHOOSE it : it = [s \in SUBSET S |->
                    IF s = {} THEN 0
                    ELSE queue[Pick(s)].qty + it[s \ {Pick(s)}]]
<1>1. \A s \in SUBSET S : s # {} => F[Pick(s)] = queue[Pick(s)].qty
  BY PickIn DEF QtyOf
<1> HIDE DEF F, S
<1>2. ASSUME NEW b
      PROVE  [s \in SUBSET S |-> IF s = {} THEN 0
                 ELSE F[Pick(s)] + b[s \ {Pick(s)}]]
             = [s \in SUBSET S |-> IF s = {} THEN 0
                 ELSE queue[Pick(s)].qty + b[s \ {Pick(s)}]]
  BY <1>1
<1>3. PICK a : AddsUp(a, F, S) /\ Total(F, S) = a[S]
  <2>1. IsFiniteSet(S)
    BY DEF S
  <2>2. QED
    BY <2>1, AddsUpExists, TotalIs
<1>4. it = [s \in SUBSET S |-> IF s = {} THEN 0
               ELSE queue[Pick(s)].qty + it[s \ {Pick(s)}]]
  BY <1>2, <1>3 DEF AddsUp
<1> HIDE DEF it
<1>5. AddsUp(it, F, S)
  BY <1>2, <1>4 DEF AddsUp
<1>6. it[S] = Total(F, S)
  <2>1. IsFiniteSet(S)
    BY DEF S
  <2>2. QED
    BY <1>3, <1>5, <2>1, AddsUpOnce
<1>7. MapThenSumSet(LAMBDA i : queue[i].qty, S) = it[S]
  BY DEF MapThenSumSet, MapThenFoldSet, Pick, it
<1>8. QED
  BY <1>6, <1>7 DEF F, S, Shown

(* The shares of a queue, lot by lot.                                      *)
LEMMA QueueFacts ==
    ASSUME NEW queue \in Seq(Lot)
    PROVE  /\ Len(queue) \in Nat /\ DOMAIN queue = 1 .. Len(queue)
           /\ IsFiniteSet(DOMAIN queue)
           /\ \A i \in DOMAIN queue : /\ QtyOf(queue)[i] = queue[i].qty
                                      /\ QtyOf(queue)[i] \in Nat
           /\ Shown(queue) \in Nat
           /\ queue = <<>> => Shown(queue) = 0
<1>1. Len(queue) \in Nat /\ DOMAIN queue = 1 .. Len(queue)
  BY LenProperties
<1>2. IsFiniteSet(DOMAIN queue)
  BY <1>1, FS_Interval
<1>3. \A i \in DOMAIN queue : /\ QtyOf(queue)[i] = queue[i].qty
                              /\ QtyOf(queue)[i] \in Nat
  <2>1. \A i \in DOMAIN queue : queue[i] \in Lot
    BY ElementOfSeq, <1>1
  <2>2. QED
    BY <2>1 DEF QtyOf, Lot
<1>4. Shown(queue) \in Nat
  <2>1. \A i \in DOMAIN queue : QtyOf(queue)[i] \in Int /\ QtyOf(queue)[i] >= 0
    BY <1>3
  <2>2. Shown(queue) \in Int /\ Shown(queue) >= 0
    BY <1>2, <2>1, TotalType DEF Shown
  <2>3. QED
    BY <2>2
<1>5. queue = <<>> => Shown(queue) = 0
  <2>1. Total(QtyOf(queue), {}) = 0
    BY TotalStep, FS_EmptySet
  <2>2. QED
    BY <2>1 DEF Shown
<1>6. QED
  BY <1>1, <1>2, <1>3, <1>4, <1>5

(* A lot more is its shares more.                                          *)
LEMMA ShownAppend ==
    ASSUME NEW queue \in Seq(Lot), NEW lot \in Lot
    PROVE  Shown(Append(queue, lot)) = Shown(queue) + lot.qty
<1> DEFINE new == Append(queue, lot)
           n == Len(queue) + 1
           F == QtyOf(queue)
           G == QtyOf(new)
<1>1. /\ new \in Seq(Lot) /\ DOMAIN queue = 1 .. Len(queue)
      /\ Len(queue) \in Nat /\ DOMAIN new = 1 .. n
      /\ \A i \in DOMAIN queue : new[i] = queue[i]
      /\ new[n] = lot
  BY AppendProperties, LenProperties
<1>2. DOMAIN new = DOMAIN queue \cup {n} /\ n \notin DOMAIN queue
  BY <1>1
<1>3. \A i \in DOMAIN new : G[i] = new[i].qty /\ G[i] \in Int
  <2> HIDE DEF new
  <2>1. QED
    BY <1>1, QueueFacts
<1>4. IsFiniteSet(DOMAIN queue) /\ \A i \in DOMAIN queue : F[i] = queue[i].qty
  BY QueueFacts
<1> HIDE DEF F, G, new, n
<1>5. Total(G, DOMAIN queue) = Total(F, DOMAIN queue)
  <2>1. \A i \in DOMAIN queue : G[i] = F[i]
    BY <1>1, <1>2, <1>3, <1>4
  <2>2. QED
    BY <1>4, <2>1, TotalSame
<1>6. Total(G, DOMAIN new) = Total(G, DOMAIN queue) + G[n]
  BY <1>2, <1>3, <1>4, TotalAdd
<1>7. G[n] = lot.qty
  BY <1>1, <1>2, <1>3
<1>8. QED
  BY <1>5, <1>6, <1>7 DEF Shown, F, G, new

(* Sums do not depend on where a sequence begins.                          *)
LEMMA TotalShift ==
    ASSUME NEW f, NEW g, NEW n \in Nat,
           \A i \in 1 .. n : g[i] = f[i + 1] /\ g[i] \in Int
    PROVE  Total(f, 2 .. n + 1) = Total(g, 1 .. n)
<1> DEFINE P(m) == Total(f, 2 .. m + 1) = Total(g, 1 .. m)
           C == {m \in 0 .. n : ~P(m)}
<1> SUFFICES ASSUME C # {} PROVE FALSE
  OBVIOUS
<1> HIDE DEF P
<1>1. C \in SUBSET Nat
  OBVIOUS
<1>2. PICK m \in C : \A k \in C : m <= k
  <2> HIDE DEF C
  <2> QED
    BY <1>1, LeastElement
<1>3. m # 0
  <2>1. 2 .. 0 + 1 = {} /\ 1 .. 0 = {}
    OBVIOUS
  <2>2. Total(f, {}) = 0 /\ Total(g, {}) = 0
    BY TotalStep, FS_EmptySet
  <2>3. P(0)
    BY <2>1, <2>2 DEF P
  <2>4. QED
    BY <2>3
<1> DEFINE k == m - 1
<1>4. k \in 0 .. n /\ k < m /\ m = k + 1 /\ m \in 1 .. n /\ m \in Nat
  BY <1>3
<1>5. P(k)
  BY <1>2, <1>4
<1> HIDE DEF k, C
<1>6. 2 .. m + 1 = (2 .. k + 1) \cup {m + 1} /\ m + 1 \notin 2 .. k + 1
  BY <1>4
<1>7. 1 .. m = (1 .. k) \cup {m} /\ m \notin 1 .. k
  BY <1>4
<1>8. \A i \in (1 .. k) \cup {m} : g[i] \in Int
  BY <1>4
<1>9. \A i \in (2 .. k + 1) \cup {m + 1} : f[i] \in Int
  <2> SUFFICES ASSUME NEW i \in (2 .. k + 1) \cup {m + 1} PROVE f[i] \in Int
    OBVIOUS
  <2>1. i - 1 \in 1 .. n /\ (i - 1) + 1 = i
    BY <1>4
  <2>2. QED
    BY <2>1
<1>10. IsFiniteSet(1 .. k) /\ IsFiniteSet(2 .. k + 1)
  BY <1>4, FS_Interval
<1>11. Total(f, (2 .. k + 1) \cup {m + 1}) = Total(f, 2 .. k + 1) + f[m + 1]
  <2> DEFINE U == 2 .. k + 1
             x == m + 1
  <2>1. IsFiniteSet(U) /\ x \notin U /\ \A y \in U \cup {x} : f[y] \in Int
    BY <1>6, <1>9, <1>10
  <2> HIDE DEF U, x
  <2>2. Total(f, U \cup {x}) = Total(f, U) + f[x]
    BY <2>1, TotalAdd
  <2>3. QED
    BY <2>2 DEF U, x
<1>12. Total(g, (1 .. k) \cup {m}) = Total(g, 1 .. k) + g[m]
  BY <1>7, <1>8, <1>10, TotalAdd
<1>13. g[m] = f[m + 1]
  BY <1>4
<1>14. P(m)
  BY <1>5, <1>6, <1>7, <1>11, <1>12, <1>13 DEF P
<1>15. QED
  BY <1>14 DEF C

(* Without its first lot a queue has the shares of the others.             *)
LEMMA ShownTail ==
    ASSUME NEW queue \in Seq(Lot), queue # <<>>
    PROVE  Shown(queue) = queue[1].qty + Shown(Tail(queue))
<1> DEFINE rest == Tail(queue)
           n == Len(queue) - 1
           F == QtyOf(queue)
           G == QtyOf(rest)
<1>1. /\ Len(queue) \in Nat \ {0} /\ DOMAIN queue = 1 .. Len(queue)
      /\ rest \in Seq(Lot) /\ DOMAIN rest = 1 .. n
      /\ \A i \in DOMAIN rest : rest[i] = queue[i + 1]
  BY HeadTailProperties, LenProperties, EmptySeq
<1>2. n \in Nat /\ Len(queue) = n + 1 /\ 1 \in DOMAIN queue
  BY <1>1
<1>3. IsFiniteSet(DOMAIN queue) /\ \A i \in DOMAIN queue : F[i] = queue[i].qty /\ F[i] \in Int
  BY QueueFacts
<1>4. \A i \in DOMAIN rest : G[i] = rest[i].qty /\ G[i] \in Int
  <2> HIDE DEF rest
  <2>1. QED
    BY <1>1, QueueFacts
<1> HIDE DEF rest, n, F, G
<1>5. \A i \in 1 .. n : G[i] = F[i + 1] /\ G[i] \in Int
  <2> SUFFICES ASSUME NEW i \in 1 .. n PROVE G[i] = F[i + 1] /\ G[i] \in Int
    OBVIOUS
  <2>1. i \in DOMAIN rest /\ i + 1 \in DOMAIN queue
    BY <1>1, <1>2
  <2>2. QED
    BY <2>1, <1>1, <1>3, <1>4
<1>6. Total(F, 2 .. n + 1) = Total(G, 1 .. n)
  BY <1>2, <1>5, TotalShift
<1>7. DOMAIN queue \ {1} = 2 .. n + 1
  BY <1>1, <1>2
<1>8. Total(F, DOMAIN queue) = F[1] + Total(F, DOMAIN queue \ {1})
  BY <1>2, <1>3, TotalOff
<1>9. QED
  BY <1>1, <1>2, <1>3, <1>6, <1>7, <1>8 DEF Shown, F, G, rest

(* Only the first lot changes when part of it is sold.                     *)
LEMMA ShownPart ==
    ASSUME NEW queue \in Seq(Lot), queue # <<>>,
           NEW new \in Seq(Lot), Len(new) = Len(queue),
           \A i \in 2 .. Len(queue) : new[i] = queue[i]
    PROVE  Shown(new) - new[1].qty = Shown(queue) - queue[1].qty
<1>1. /\ Len(queue) \in Nat \ {0} /\ DOMAIN queue = 1 .. Len(queue)
      /\ DOMAIN new = DOMAIN queue
  BY LenProperties, EmptySeq
<1> DEFINE F == QtyOf(queue)
           G == QtyOf(new)
           S == DOMAIN queue
<1>2. IsFiniteSet(S) /\ 1 \in S
  BY <1>1, QueueFacts
<1>3. \A i \in S : /\ F[i] = queue[i].qty /\ F[i] \in Int
                   /\ G[i] = new[i].qty /\ G[i] \in Int
  BY <1>1, QueueFacts
<1>4. \A i \in S \ {1} : F[i] = G[i]
  <2>1. \A i \in S \ {1} : i \in 2 .. Len(queue)
    BY <1>1
  <2>2. QED
    BY <1>3, <2>1
<1>5. IsFiniteSet(S \ {1})
  BY <1>2, FS_Subset
<1>6. Shown(queue) = Total(F, S) /\ Shown(new) = Total(G, S)
  BY <1>1 DEF Shown
<1>7. (\A i \in S : F[i] \in Int) /\ (\A i \in S : G[i] \in Int)
  BY <1>3
<1> HIDE DEF F, G, S
<1>8. Total(F, S) = F[1] + Total(F, S \ {1})
  BY <1>2, <1>7, TotalOff
<1>9. Total(G, S) = G[1] + Total(G, S \ {1})
  BY <1>2, <1>7, TotalOff
<1>10. Total(F, S \ {1}) = Total(G, S \ {1})
  BY <1>4, <1>5, TotalSame
<1>11. Total(F, S \ {1}) \in Int
  BY <1>3, <1>5, TotalType
<1>12. F[1] \in Int /\ G[1] \in Int /\ F[1] = queue[1].qty /\ G[1] = new[1].qty
  BY <1>2, <1>3
<1>13. QED
  BY <1>6, <1>8, <1>9, <1>10, <1>11, <1>12

-----------------------------------------------------------------------------
(* Queues and positions *)

(* Shares of s that are left once the sale being taken off is.             *)
LeftOf(s) ==
    LET left == IF sale.sec = s THEN sale.left ELSE 0
    IN  IF Shown(lots[s]) > left THEN Shown(lots[s]) - left ELSE 0

(* A position is taken from at once, its queue lot by lot.                 *)
QueueOK == \A s \in Sec : pos[s].qty = LeftOf(s)

QueueInv == LotInv /\ QueueOK

(* Queue, position and sale have their types.                              *)
LEMMA QueueTypes ==
    ASSUME TypeOK, NEW s \in Sec
    PROVE  /\ lots[s] \in Seq(Lot) /\ Shown(lots[s]) \in Nat
           /\ sale.left \in Nat /\ pos[s] \in Position /\ pos[s].qty \in Int
           /\ (sale = Idle => sale.sec # s /\ LeftOf(s) = Shown(lots[s]))
<1>1. lots[s] \in Seq(Lot)
  BY DEF TypeOK
<1>2. Shown(lots[s]) \in Nat
  BY <1>1, QueueFacts
<1>3. sale.left \in Nat /\ pos[s] \in Position
  BY DEF TypeOK
<1>4. pos[s].qty \in Int
  BY <1>3 DEF Position
<1>5. sale = Idle => sale.sec # s
  BY TaxAssumption DEF Idle
<1>6. sale = Idle => LeftOf(s) = Shown(lots[s])
  BY <1>2, <1>5 DEF LeftOf
<1>7. QED
  BY <1>1, <1>2, <1>3, <1>4, <1>5, <1>6

(* A purchase adds its shares to queue and position.                       *)
LEMMA AcquireQueue ==
    ASSUME QueueInv, NEW t \in Menu, Acquire(t)
    PROVE  QueueOK'
<1>1. t \in Entry /\ t.sec \in Sec /\ t.qty \in Nat
  BY TaxAssumption DEF Acquire, Entry, In, Gets
<1>2. TypeOK /\ QueueOK /\ sale = Idle /\ sale' = sale
  BY DEF QueueInv, LotInv, Acquire, Record
<1>3. log \in Seq(Txn) /\ Len(log) \in Nat
  BY <1>2, LenProperties DEF TypeOK
<1>4. ASSUME NEW s \in Sec PROVE pos'[s].qty = LeftOf(s)'
  <2>1. /\ lots[s] \in Seq(Lot) /\ Shown(lots[s]) \in Nat
        /\ pos[s].qty = Shown(lots[s]) /\ sale.sec # s
    BY <1>2, QueueTypes DEF QueueOK
  <2>2. pos'[s].qty = Shown(lots'[s]) /\ Shown(lots'[s]) \in Nat
    <3>1. CASE s # t.sec
      <4>1. pos'[s] = pos[s] /\ lots'[s] = lots[s]
        BY <1>2, <3>1 DEF Acquire, TypeOK
      <4>2. QED
        BY <2>1, <4>1
    <3>2. CASE s = t.sec
      <4>1. pos'[s].qty = pos[s].qty + t.qty
        BY <1>1, <1>2, <3>2 DEF Acquire, TypeOK, Bought
      <4>2. CASE t.qty > 0
        <5> DEFINE lot == [at |-> Len(log) + 1, qty |-> t.qty]
        <5>1. lots'[s] = Append(lots[s], lot)
          BY <1>1, <1>2, <3>2, <4>2 DEF Acquire, TypeOK
        <5>2. lot \in Lot /\ lot.qty = t.qty
          BY <1>1, <1>3, <4>2 DEF Lot
        <5> HIDE DEF lot
        <5>3. Shown(lots'[s]) = Shown(lots[s]) + t.qty
          BY <2>1, <5>1, <5>2, ShownAppend
        <5>4. QED
          BY <1>1, <2>1, <4>1, <5>3
      <4>3. CASE ~(t.qty > 0)
        <5>1. lots'[s] = lots[s] /\ t.qty = 0
          BY <1>1, <4>3 DEF Acquire
        <5>2. QED
          BY <2>1, <4>1, <5>1
      <4>4. QED
        BY <4>2, <4>3
    <3>3. QED
      BY <3>1, <3>2
  <2>3. QED
    BY <1>2, <2>1, <2>2 DEF LeftOf
<1>5. QED
  BY <1>4 DEF QueueOK

(* A sale takes its shares off the position at once, off the queue later.  *)
LEMMA LeavesQueue ==
    ASSUME QueueInv, NEW t \in Menu, Sell(t) \/ TransferOut(t)
    PROVE  QueueOK'
<1>1. t \in Entry /\ t.sec \in Sec /\ t.qty \in Nat
  BY TaxAssumption DEF Sell, TransferOut, Entry, Gets
<1>2. /\ TypeOK /\ QueueOK /\ sale = Idle /\ lots' = lots
      /\ sale' = [sec |-> t.sec, left |-> t.qty]
  BY DEF QueueInv, LotInv, Sell, TransferOut, Record
<1>3. IF pos[t.sec].qty <= 0 THEN pos' = pos
      ELSE pos' = [pos EXCEPT ![t.sec] = Settled(Sold(pos[t.sec], t))]
  <2>1. pos[t.sec].qty \in Int
    BY <1>1, <1>2, QueueTypes
  <2>2. QED
    BY <2>1 DEF Sell, SellAtAverage, TransferOut
<1>4. ASSUME NEW s \in Sec PROVE pos'[s].qty = LeftOf(s)'
  <2>1. /\ lots[s] \in Seq(Lot) /\ Shown(lots[s]) \in Nat
        /\ pos[s].qty = Shown(lots[s])
    BY <1>2, QueueTypes DEF QueueOK
  <2>2. LeftOf(s)' = IF s = t.sec
                     THEN IF Shown(lots[s]) > t.qty THEN Shown(lots[s]) - t.qty
                                                    ELSE 0
                     ELSE Shown(lots[s])
    BY <1>2, <2>1 DEF LeftOf
  <2>3. CASE s # t.sec
    <3>1. pos'[s] = pos[s]
      BY <1>2, <1>3, <2>3 DEF TypeOK
    <3>2. QED
      BY <2>1, <2>2, <2>3, <3>1
  <2>4. CASE s = t.sec /\ pos[s].qty <= 0
    <3>1. pos'[s] = pos[s]
      BY <1>3, <2>4
    <3>2. QED
      BY <1>1, <2>1, <2>2, <2>4, <3>1
  <2>5. CASE s = t.sec /\ ~(pos[s].qty <= 0)
    <3>1. pos'[s] = Settled(Sold(pos[s], t))
      BY <1>2, <1>3, <2>5 DEF TypeOK
    <3>2. Sold(pos[s], t).qty = pos[s].qty - t.qty
      BY DEF Sold
    <3>3. pos'[s].qty = IF pos[s].qty - t.qty <= 0 THEN 0 ELSE pos[s].qty - t.qty
      BY <3>1, <3>2 DEF Settled, Nothing
    <3>4. QED
      BY <1>1, <2>1, <2>2, <2>5, <3>3
  <2>6. QED
    BY <2>3, <2>4, <2>5
<1>5. QED
  BY <1>4 DEF QueueOK

(* What a sale takes off the queue it has no longer to take.               *)
LEMMA ConsumeQueue ==
    ASSUME QueueInv, ConsumeLot
    PROVE  QueueOK'
<1> DEFINE r      == sale.sec
           queue  == lots[r]
           oldest == Head(queue)
<1>1. TypeOK /\ QueueOK /\ pos' = pos /\ sale.left > 0 /\ queue # <<>>
  BY DEF QueueInv, LotInv, ConsumeLot, walks
<1>2. r \in Sec /\ lots \in [Sec -> Seq(Lot)] /\ sale.left \in Nat
  BY <1>1 DEF TypeOK, Idle
<1>3. /\ queue \in Seq(Lot) /\ Len(queue) \in Nat \ {0}
      /\ DOMAIN queue = 1 .. Len(queue) /\ 1 \in DOMAIN queue
      /\ oldest = queue[1] /\ queue[1] \in Lot
  BY <1>1, <1>2, EmptySeq, LenProperties, ElementOfSeq
<1>4. queue[1].qty \in Nat /\ Shown(queue) \in Nat /\ pos[r].qty = LeftOf(r)
  BY <1>1, <1>2, <1>3, QueueTypes DEF Lot, QueueOK
<1>5. IF oldest.qty <= sale.left
      THEN /\ sale' = [sale EXCEPT !.left = @ - oldest.qty]
           /\ lots' = [lots EXCEPT ![r] = Tail(@)]
      ELSE /\ lots' = [lots EXCEPT ![r][1].qty = @ - sale.left]
           /\ sale' = [sale EXCEPT !.left = 0]
  BY DEF ConsumeLot
<1>6. LeftOf(r) = IF Shown(queue) > sale.left THEN Shown(queue) - sale.left ELSE 0
  BY DEF LeftOf
<1>7. /\ sale'.sec = r /\ \A s \in Sec : s # r => lots'[s] = lots[s]
      /\ pos[r].qty = IF Shown(lots'[r]) > sale'.left
                      THEN Shown(lots'[r]) - sale'.left ELSE 0
  <2>1. CASE oldest.qty <= sale.left
    <3>1. /\ sale'.sec = r /\ sale'.left = sale.left - queue[1].qty
          /\ lots'[r] = Tail(queue) /\ \A s \in Sec : s # r => lots'[s] = lots[s]
      BY <1>1, <1>2, <1>3, <1>5, <2>1 DEF TypeOK
    <3>2. Shown(queue) = queue[1].qty + Shown(Tail(queue))
      BY <1>1, <1>3, ShownTail
    <3>3. Tail(queue) \in Seq(Lot)
      BY <1>1, <1>3, HeadTailProperties
    <3>4. Shown(Tail(queue)) \in Nat
      BY <3>3, QueueFacts
    <3> HIDE DEF queue, oldest, r
    <3>5. QED
      BY <1>2, <1>4, <1>6, <3>1, <3>2, <3>4
  <2>2. CASE ~(oldest.qty <= sale.left)
    <3> DEFINE lot == [queue[1] EXCEPT !.qty = @ - sale.left]
               new == [queue EXCEPT ![1] = lot]
    <3>1. /\ lots' = [lots EXCEPT ![r] = new]
          /\ sale' = [sale EXCEPT !.left = 0]
      BY <2>2, <1>1, <1>2, <1>3, <1>5
    <3>2. lot \in Lot /\ lot.qty = queue[1].qty - sale.left
      BY <2>2, <1>2, <1>3, <1>4, SMTT(30) DEF Lot
    <3>3. /\ new \in Seq(Lot) /\ Len(new) = Len(queue)
          /\ new[1] = lot
          /\ \A i \in 2 .. Len(queue) : new[i] = queue[i]
      BY <3>2, <1>3, ExceptSeq
    <3>4. sale'.sec = r /\ sale'.left = 0
      BY <3>1, <1>1 DEF TypeOK
    <3>5. lots'[r] = new /\ \A s \in Sec : s # r => lots'[s] = lots[s]
      BY <3>1, <1>2
    <3> HIDE DEF new, lot
    <3>6. Shown(new) - new[1].qty = Shown(queue) - queue[1].qty
      BY <1>1, <1>3, <3>3, ShownPart
    <3>7. Shown(new) \in Nat
      BY <3>3, QueueFacts
    <3>8. new[1].qty = queue[1].qty - sale.left
      BY <3>2, <3>3
    <3> HIDE DEF queue, oldest, r
    <3>9. Shown(new) = Shown(queue) - sale.left
      <4> DEFINE a == Shown(new)
                 b == Shown(queue)
                 c == queue[1].qty
                 d == sale.left
      <4>1. a \in Int /\ b \in Int /\ c \in Int /\ d \in Int
        BY <1>2, <1>4, <3>7
      <4>2. a - (c - d) = b - c
        BY <3>6, <3>8
      <4> HIDE DEF a, b, c, d
      <4>3. a = b - d
        BY <4>1, <4>2
      <4>4. QED
        BY <4>3 DEF a, b, d
    <3>10. QED
      BY <1>2, <1>4, <1>6, <3>4, <3>5, <3>7, <3>9
  <2>3. QED
    BY <2>1, <2>2
<1>8. ASSUME NEW s \in Sec PROVE pos'[s].qty = LeftOf(s)'
  <2>1. CASE s = r
    BY <1>1, <1>7, <2>1 DEF LeftOf
  <2>2. CASE s # r
    <3>1. LeftOf(s)' = LeftOf(s)
      BY <1>7, <2>2 DEF LeftOf
    <3>2. QED
      BY <1>1, <3>1 DEF QueueOK
  <2>3. QED
    BY <2>1, <2>2
<1>9. QED
  BY <1>8 DEF QueueOK

(* A sale ends when it has its shares or the queue is empty.               *)
LEMMA EndSaleQueue ==
    ASSUME QueueInv, EndSale
    PROVE  QueueOK'
<1>1. TypeOK /\ QueueOK /\ pos' = pos /\ lots' = lots /\ sale' = Idle
  BY DEF QueueInv, LotInv, EndSale, walks
<1>2. ASSUME NEW s \in Sec PROVE LeftOf(s)' = LeftOf(s)
  <2>1. /\ lots[s] \in Seq(Lot) /\ Shown(lots[s]) \in Nat /\ sale.left \in Nat
        /\ lots[s] = <<>> => Shown(lots[s]) = 0
    BY <1>1, QueueTypes, QueueFacts
  <2>2. LeftOf(s)' = Shown(lots[s])
    BY <1>1, <2>1, TaxAssumption DEF LeftOf, Idle
  <2>3. sale.sec = s /\ sale.left > 0 => lots[s] = <<>>
    BY DEF EndSale
  <2>4. LeftOf(s) = Shown(lots[s])
    BY <2>1, <2>3 DEF LeftOf
  <2>5. QED
    BY <2>2, <2>4
<1>3. QED
  BY <1>1, <1>2 DEF QueueOK

(* Every step keeps position and queue together.                           *)
LEMMA QueueStays ==
    ASSUME QueueInv, LotInv', [Next]_vars
    PROVE  QueueInv'
<1> SUFFICES QueueOK'
  BY DEF QueueInv
<1>1. ASSUME NEW t \in Menu, Acquire(t) PROVE QueueOK'
  BY <1>1, AcquireQueue
<1>2. ASSUME NEW t \in Menu, Sell(t) \/ TransferOut(t) PROVE QueueOK'
  BY <1>2, LeavesQueue
<1>3. ASSUME NEW t \in Menu, Income(t) PROVE QueueOK'
  BY <1>3 DEF Income, QueueInv, QueueOK, LeftOf
<1>4. CASE ConsumeLot
  BY <1>4, ConsumeQueue
<1>5. CASE EndSale
  BY <1>5, EndSaleQueue
<1>6. CASE CloseYear \/ UNCHANGED vars
  BY <1>6 DEF CloseYear, walks, vars, QueueInv, QueueOK, LeftOf
<1>7. QED
  BY <1>1, <1>2, <1>3, <1>4, <1>5, <1>6 DEF Next

(* Position and queue start empty.                                         *)
LEMMA InitQueue == Init => QueueInv
<1> SUFFICES ASSUME Init PROVE QueueInv
  OBVIOUS
<1>1. LotInv
  BY InitLots
<1>2. ASSUME NEW s \in Sec PROVE pos[s].qty = LeftOf(s)
  <2>1. lots[s] = <<>> /\ sale = Idle /\ pos[s].qty = 0
    BY DEF Init, Nothing
  <2>2. LeftOf(s) = Shown(lots[s]) /\ Shown(lots[s]) = 0
    BY <1>1, <2>1, QueueTypes, QueueFacts DEF LotInv
  <2>3. QED
    BY <2>1, <2>2
<1>3. QED
  BY <1>1, <1>2 DEF QueueInv, QueueOK

(* Between two sales nothing is left to take.                              *)
LEMMA QueueImplies == QueueInv => LotsMatchPosition
<1> SUFFICES ASSUME QueueInv, sale = Idle, NEW s \in Sec
             PROVE  pos[s].qty = MapThenSumSet(LAMBDA i : lots[s][i].qty,
                                               DOMAIN lots[s])
  BY DEF LotsMatchPosition
<1>1. lots[s] \in Seq(Lot) /\ pos[s].qty = Shown(lots[s])
  BY QueueTypes DEF QueueInv, LotInv, QueueOK
<1> DEFINE queue == lots[s]
<1>2. IsFiniteSet(DOMAIN queue)
  BY <1>1, QueueFacts
<1>3. MapThenSumSet(LAMBDA i : queue[i].qty, DOMAIN queue) = Shown(queue)
  BY <1>2, QtySum
<1>4. QED
  BY <1>1, <1>3

(* Between sales the lots of a security hold as many shares as its         *)
(* position says, for any transactions and also after a sale of more than  *)
(* was held: two loops over the same log never disagree on how many shares *)
(* there are (tax.go:128-161, 371-409).                                    *)
THEOREM QueueSafe == Spec => []LotsMatchPosition
BY InitQueue, QueueStays, QueueImplies, LotInvInductive, PTL DEF Spec

-----------------------------------------------------------------------------
(* What is left of the allowance *)

(* Both walks are at the same average costs, and at the same income.       *)
MirrorOK ==
    NoEarlierSale => /\ year <= Target => ytdPos = freePos
                     /\ free = Total(status, Account)

MirrorInv == TypeOK /\ MirrorOK

(* A log that sold nothing before Target did not before its last           *)
(* transaction either, and that one is no earlier sale.                    *)
LEMMA NoEarlierSaleBefore ==
    ASSUME TypeOK, NEW t \in Menu, Record(t), NoEarlierSale'
    PROVE  NoEarlierSale /\ (t.type = "sell" => year >= Target)
<1> DEFINE u == [type |-> t.type, sec |-> t.sec, account |-> t.account,
                 qty |-> t.qty, amt |-> t.amt, year |-> year]
<1>1. log' = Append(log, u) /\ log \in Seq(Txn)
  BY DEF Record, TypeOK
<1> HIDE DEF u
<1>2. /\ DOMAIN log = 1 .. Len(log) /\ Len(log) \in Nat
      /\ DOMAIN log' = 1 .. Len(log) + 1
      /\ \A k \in DOMAIN log : k \in DOMAIN log' /\ log'[k] = log[k]
      /\ Len(log) + 1 \in DOMAIN log' /\ log'[Len(log) + 1] = u
  BY <1>1, LenProperties
<1>3. \A k \in DOMAIN log' : log'[k].type = "sell" => log'[k].year >= Target
  BY DEF NoEarlierSale
<1>4. NoEarlierSale
  BY <1>2, <1>3 DEF NoEarlierSale
<1>5. u.type = "sell" => u.year >= Target
  BY <1>2, <1>3
<1>6. QED
  BY <1>4, <1>5 DEF u

(* A sale changes what is left of the allowance on both sides alike.       *)
LEMMA SellMirrored ==
    ASSUME MirrorInv, NEW t \in Menu, Sell(t), NoEarlierSale'
    PROVE  /\ year' <= Target => ytdPos' = freePos'
           /\ free' = Total(status', Account)
<1>1. TypeOK /\ t \in Entry /\ t.sec \in Sec /\ t.account \in Account
  BY TaxAssumption DEF MirrorInv, Sell, Entry, Gets
<1>2. NoEarlierSale /\ year >= Target
  BY <1>1, NoEarlierSaleBefore DEF Sell
<1>3. /\ year <= Target => ytdPos = freePos
      /\ free = Total(status, Account)
  BY <1>2 DEF MirrorInv, MirrorOK
<1>4. /\ year' = year /\ year \in Int /\ Target \in Int /\ free \in Int
      /\ status \in [Account -> Int] /\ freePos \in [Sec -> Position]
  BY <1>1, TaxAssumption DEF Sell, Record, TypeOK
<1>5. CASE year # Target
  <2>1. status' = status
    BY <1>5 DEF Sell, SellForStatus
  <2>2. free' = free
    BY <1>4, <1>5 DEF Sell, SellForFree
  <2>3. ~(year' <= Target)
    BY <1>2, <1>4, <1>5
  <2>4. QED
    BY <1>3, <2>1, <2>2, <2>3
<1>6. CASE year = Target
  <2>1. ytdPos = freePos
    BY <1>3, <1>4, <1>6
  <2>2. CASE freePos[t.sec].qty <= 0
    BY <1>3, <1>6, <2>1, <2>2
       DEF Sell, SellForAccount, SellForStatus, SellForFree
  <2>3. CASE ~(freePos[t.sec].qty <= 0)
    <3> DEFINE d == TaxableGain(t.sec, Gain(freePos[t.sec], t))
    <3>1. /\ ytdPos' = [ytdPos EXCEPT ![t.sec] = Sold(@, t)]
          /\ freePos' = [freePos EXCEPT ![t.sec] = Sold(@, t)]
          /\ status' = [status EXCEPT ![t.account] = @ + d]
          /\ free' = free + d
      BY <1>6, <2>1, <2>3 DEF Sell, SellForAccount, SellForStatus, SellForFree
    <3>2. d \in Int
      <4>1. freePos[t.sec] \in Position /\ freePos[t.sec].qty > 0
        BY <1>1, <1>4, <2>3 DEF Position
      <4>2. Gain(freePos[t.sec], t) \in Int
        BY <1>1, <4>1, PositionTypes
      <4>3. QED
        BY <1>1, <4>2, SumTypes DEF TaxableGain
    <3> HIDE DEF d
    <3>3. Total(status', Account) = Total(status, Account) + d
      BY <1>1, <1>4, <3>1, <3>2, TaxAssumption, TotalChange
    <3>4. ytdPos' = freePos'
      BY <2>1, <3>1
    <3>5. QED
      BY <1>3, <3>1, <3>3, <3>4
  <2>4. QED
    BY <2>2, <2>3
<1>7. QED
  BY <1>5, <1>6

(* So does a dividend or interest.                                         *)
LEMMA IncomeMirrored ==
    ASSUME MirrorInv, NEW t \in Menu, Income(t), NoEarlierSale'
    PROVE  /\ year' <= Target => ytdPos' = freePos'
           /\ free' = Total(status', Account)
<1> DEFINE part == IF t.type = "interest" THEN 10 * t.amt
                   ELSE Taxable(t.sec, t.amt)
<1>1. TypeOK /\ t \in Entry /\ t.account \in Account /\ t.amt \in Int
  BY TaxAssumption DEF MirrorInv, Entry
<1>2. NoEarlierSale
  BY <1>1, NoEarlierSaleBefore DEF Income
<1>3. /\ year <= Target => ytdPos = freePos
      /\ free = Total(status, Account)
  BY <1>2 DEF MirrorInv, MirrorOK
<1>4. UNCHANGED <<year, ytdPos, freePos>> /\ status \in [Account -> Int]
  BY <1>1 DEF Income, Record, TypeOK
<1>5. part \in Int
  BY <1>1, SumTypes DEF Entry
<1>6. CASE year # Target
  BY <1>3, <1>4, <1>6 DEF Income
<1>7. CASE year = Target
  <2>1. status' = [status EXCEPT ![t.account] = @ + part] /\ free' = free + part
    BY <1>7 DEF Income
  <2> HIDE DEF part
  <2>2. Total(status', Account) = Total(status, Account) + part
    BY <1>1, <1>4, <1>5, <2>1, TaxAssumption, TotalChange
  <2>3. QED
    BY <1>3, <1>4, <2>1, <2>2
<1>8. QED
  BY <1>6, <1>7

(* Every step keeps the two computations of the allowance together.        *)
LEMMA MirrorStays ==
    ASSUME MirrorInv, TypeOK', [Next]_vars
    PROVE  MirrorInv'
<1> SUFFICES ASSUME NoEarlierSale'
             PROVE  /\ year' <= Target => ytdPos' = freePos'
                    /\ free' = Total(status', Account)
  BY DEF MirrorInv, MirrorOK
<1>1. TypeOK /\ MirrorOK
  BY DEF MirrorInv
<1>2. ASSUME NEW t \in Menu, Acquire(t) \/ TransferOut(t)
      PROVE  /\ year' <= Target => ytdPos' = freePos'
             /\ free' = Total(status', Account)
  <2>1. NoEarlierSale
    BY <1>1, <1>2, NoEarlierSaleBefore DEF Acquire, TransferOut
  <2>2. UNCHANGED <<year, status, free>>
    BY <1>2 DEF Acquire, TransferOut, Record
  <2>3. ytdPos = freePos => ytdPos' = freePos'
    BY <1>2 DEF Acquire, TransferOut
  <2>4. QED
    BY <1>1, <2>1, <2>2, <2>3 DEF MirrorOK
<1>3. ASSUME NEW t \in Menu, Sell(t)
      PROVE  /\ year' <= Target => ytdPos' = freePos'
             /\ free' = Total(status', Account)
  BY <1>3, SellMirrored
<1>4. ASSUME NEW t \in Menu, Income(t)
      PROVE  /\ year' <= Target => ytdPos' = freePos'
             /\ free' = Total(status', Account)
  BY <1>4, IncomeMirrored
<1>5. CASE CloseYear
  <2>1. UNCHANGED <<log, ytdPos, freePos, free, status>> /\ year' = year + 1
    BY <1>5 DEF CloseYear, walks
  <2>2. NoEarlierSale
    BY <2>1 DEF NoEarlierSale
  <2>3. year' <= Target => year <= Target
    BY <1>1, <2>1, TaxAssumption DEF TypeOK
  <2>4. QED
    BY <1>1, <2>1, <2>2, <2>3 DEF MirrorOK
<1>6. CASE ConsumeLot \/ EndSale \/ UNCHANGED vars
  <2>1. UNCHANGED <<log, year, ytdPos, freePos, free, status>>
    BY <1>6 DEF ConsumeLot, EndSale, walks, vars
  <2>2. NoEarlierSale
    BY <2>1 DEF NoEarlierSale
  <2>3. QED
    BY <1>1, <2>1, <2>2 DEF MirrorOK
<1>7. QED
  BY <1>2, <1>3, <1>4, <1>5, <1>6 DEF Next

(* Nothing of the allowance is used at first.                              *)
LEMMA InitMirror == Init => MirrorInv
<1> SUFFICES ASSUME Init PROVE MirrorInv
  OBVIOUS
<1>1. TypeOK /\ ytdPos = freePos /\ free = 0 /\ status = [a \in Account |-> 0]
  BY InitLots DEF LotInv, Init
<1>2. Total(status, Account) = 0
  BY <1>1, TaxAssumption, TotalZero
<1>3. QED
  BY <1>1, <1>2 DEF MirrorInv, MirrorOK

(* The accounts' sum is the one the property names.                        *)
LEMMA MirrorImplies == MirrorInv => BalanceMirroredThisYear
<1> SUFFICES ASSUME MirrorInv, NoEarlierSale
             PROVE  /\ RemainingByStatus(FALSE) = remainingFSA
                    /\ RemainingByStatus(TRUE) - remainingFSA \in 0 .. Allowance
  BY DEF BalanceMirroredThisYear
<1>1. free = Total(status, Account)
  BY DEF MirrorInv, MirrorOK
<1>2. free = MapThenSumSet(LAMBDA a : status[a], Account)
  BY <1>1 DEF Total
<1>3. /\ RemainingByStatus(FALSE) = Remaining(free, Allowance)
      /\ RemainingByStatus(TRUE) = Remaining(free, 2 * Allowance)
  BY <1>2 DEF RemainingByStatus
<1>4. Allowance \in Nat /\ free \in Int
  BY TaxAssumption DEF MirrorInv, TypeOK
<1>5. Remaining(free, 2 * Allowance) - Remaining(free, Allowance) \in 0 .. Allowance
  BY <1>4 DEF Remaining
<1>6. QED
  BY <1>3, <1>5 DEF remainingFSA

(* What is left of the single allowance is the same whether it is added up *)
(* per account, as the status page does, or in one walk, as the switch     *)
(* does, for any accounts and transactions, as long as nothing was sold in *)
(* an earlier year; and what the page shows a couple is as much or up to   *)
(* one allowance more (analysis.go:2691-2801, portfolio.go:4512-4599).     *)
THEOREM MirrorSafe == Spec => []BalanceMirroredThisYear
BY InitMirror, MirrorStays, MirrorImplies, TaxTypeCorrect, PTL DEF Spec

-----------------------------------------------------------------------------
(* Shares by the log *)

(* A position that a step sells out, or sends away whole, has an average   *)
(* cost that is not rounded.                                               *)
ExactOut ==
    \A s \in Sec : pos[s].qty > 0 /\ pos'[s].qty = 0 =>
                       pos[s].cost = pos[s].qty * Average(pos[s])

SharesOf(l) == [k \in DOMAIN l |-> IF l[k].type \in In THEN l[k].qty
                                   ELSE IF l[k].type \in Out THEN -l[k].qty ELSE 0]

Moves(l, s, n) == {k \in 1 .. n : l[k].sec = s}

(* Shares of s after the first n transactions of l.                        *)
HeldBy(l, s, n) == Total(SharesOf(l), Moves(l, s, n))

NotShort(l) == \A n \in DOMAIN l : \A s \in Sec : HeldBy(l, s, n) >= 0

(* A position that was never short is what the log says.                   *)
HeldOK == NotShort(log) =>
             \A s \in Sec : /\ pos[s].qty = HeldBy(log, s, Len(log))
                            /\ pos[s].qty >= 0

(* The transactions of a security are finitely many.                       *)
LEMMA MovesFinite ==
    ASSUME NEW l \in Seq(Txn), NEW s, NEW n \in 0 .. Len(l)
    PROVE  /\ Moves(l, s, n) \subseteq DOMAIN l /\ IsFiniteSet(Moves(l, s, n))
           /\ \A k \in DOMAIN l : SharesOf(l)[k] \in Int
           /\ HeldBy(l, s, n) \in Int
<1>1. DOMAIN l = 1 .. Len(l) /\ Len(l) \in Nat
  BY LenProperties
<1>2. Moves(l, s, n) \subseteq 1 .. n /\ n \in Nat /\ 1 .. n \subseteq DOMAIN l
  BY <1>1 DEF Moves
<1>3. IsFiniteSet(Moves(l, s, n))
  <2>1. IsFiniteSet(1 .. n)
    BY <1>2, FS_Interval
  <2>2. QED
    BY <1>2, <2>1, FS_Subset
<1>4. \A k \in DOMAIN l : l[k].qty \in Nat
  <2>1. \A k \in DOMAIN l : l[k] \in Txn
    BY <1>1, ElementOfSeq
  <2>2. QED
    BY <2>1 DEF Txn
<1>5. \A k \in DOMAIN l : SharesOf(l)[k] \in Int
  BY <1>4 DEF SharesOf
<1>6. HeldBy(l, s, n) \in Int
  BY <1>2, <1>3, <1>5, TotalType DEF HeldBy
<1>7. QED
  BY <1>2, <1>3, <1>5, <1>6

(* One transaction more moves its own shares only.                         *)
LEMMA HeldAppend ==
    ASSUME NEW l \in Seq(Txn), NEW u \in Txn, NEW s
    PROVE  LET m == Append(l, u)
           IN  /\ \A n \in 0 .. Len(l) : HeldBy(m, s, n) = HeldBy(l, s, n)
               /\ HeldBy(m, s, Len(m)) =
                     HeldBy(l, s, Len(l))
                        + IF u.sec # s THEN 0
                          ELSE IF u.type \in In THEN u.qty
                          ELSE IF u.type \in Out THEN -u.qty ELSE 0
<1> DEFINE m == Append(l, u)
           N == Len(l) + 1
<1>1. /\ m \in Seq(Txn) /\ Len(m) = N /\ Len(l) \in Nat
      /\ DOMAIN l = 1 .. Len(l) /\ DOMAIN m = 1 .. N
      /\ \A k \in DOMAIN l : m[k] = l[k]
      /\ m[N] = u
  BY AppendProperties, LenProperties
<1>2. \A k \in DOMAIN l : SharesOf(m)[k] = SharesOf(l)[k]
  BY <1>1 DEF SharesOf
<1>3. SharesOf(m)[N] = IF u.type \in In THEN u.qty
                       ELSE IF u.type \in Out THEN -u.qty ELSE 0
  BY <1>1 DEF SharesOf
<1> HIDE DEF m
<1>4. ASSUME NEW n \in 0 .. Len(l)
      PROVE  /\ Moves(m, s, n) = Moves(l, s, n)
             /\ HeldBy(m, s, n) = HeldBy(l, s, n)
  <2>1. \A k \in 1 .. n : k \in DOMAIN l
    BY <1>1
  <2>2. Moves(m, s, n) = Moves(l, s, n)
    BY <1>1, <2>1 DEF Moves
  <2>3. IsFiniteSet(Moves(l, s, n)) /\ Moves(l, s, n) \subseteq DOMAIN l
    BY MovesFinite
  <2>4. Total(SharesOf(m), Moves(l, s, n)) = Total(SharesOf(l), Moves(l, s, n))
    BY <1>2, <2>3, TotalSame
  <2>5. QED
    BY <2>2, <2>4 DEF HeldBy
<1> DEFINE M == Moves(l, s, Len(l))
<1>5. Moves(m, s, N) = IF u.sec = s THEN M \cup {N} ELSE M
  <2>1. 1 .. N = (1 .. Len(l)) \cup {N}
    BY <1>1
  <2>2. Moves(m, s, N) = Moves(m, s, Len(l)) \cup {k \in {N} : m[k].sec = s}
    BY <2>1 DEF Moves
  <2>3. Moves(m, s, Len(l)) = M
    BY <1>1, <1>4
  <2>4. QED
    BY <1>1, <2>2, <2>3
<1>6. IsFiniteSet(M) /\ M \subseteq DOMAIN l /\ HeldBy(l, s, Len(l)) \in Int
  BY <1>1, MovesFinite
<1>7. N \notin M
  BY <1>1, <1>6
<1>8. HeldBy(m, s, Len(l)) = Total(SharesOf(m), M)
  BY <1>1, <1>4 DEF HeldBy
<1>9. HeldBy(m, s, Len(l)) = HeldBy(l, s, Len(l))
  BY <1>1, <1>4
<1>10. \A k \in M \cup {N} : SharesOf(m)[k] \in Int
  <2>1. \A k \in DOMAIN m : SharesOf(m)[k] \in Int
    BY <1>1, MovesFinite
  <2>2. M \cup {N} \subseteq DOMAIN m
    BY <1>1, <1>6
  <2>3. QED
    BY <2>1, <2>2
<1> HIDE DEF M, N
<1>11. CASE u.sec = s
  <2>1. Total(SharesOf(m), M \cup {N}) = Total(SharesOf(m), M) + SharesOf(m)[N]
    BY <1>6, <1>7, <1>10, TotalAdd
  <2>2. HeldBy(m, s, N) = HeldBy(l, s, Len(l)) + SharesOf(m)[N]
    BY <1>5, <1>8, <1>9, <1>11, <2>1 DEF HeldBy
  <2>3. QED
    BY <1>1, <1>3, <1>4, <1>11, <2>2 DEF m
<1>12. CASE u.sec # s
  <2>1. HeldBy(m, s, N) = HeldBy(l, s, Len(l))
    BY <1>5, <1>8, <1>9, <1>12 DEF HeldBy
  <2>2. QED
    BY <1>1, <1>4, <1>6, <1>12, <2>1 DEF m
<1>13. QED
  BY <1>11, <1>12

(* A log that is not short was not before its last transaction.            *)
LEMMA NotShortBefore ==
    ASSUME NEW l \in Seq(Txn), NEW u \in Txn, NotShort(Append(l, u))
    PROVE  /\ NotShort(l)
           /\ \A s \in Sec : HeldBy(Append(l, u), s, Len(l) + 1) >= 0
<1> DEFINE m == Append(l, u)
<1>1. /\ Len(l) \in Nat /\ DOMAIN l = 1 .. Len(l) /\ DOMAIN m = 1 .. Len(l) + 1
  BY AppendProperties, LenProperties
<1>2. \A n \in DOMAIN m : \A s \in Sec : HeldBy(m, s, n) >= 0
  BY DEF NotShort
<1>3. ASSUME NEW n \in DOMAIN l, NEW s \in Sec PROVE HeldBy(l, s, n) >= 0
  <2>1. n \in DOMAIN m /\ n \in 0 .. Len(l)
    BY <1>1
  <2>2. HeldBy(m, s, n) = HeldBy(l, s, n)
    BY <2>1, HeldAppend
  <2>3. QED
    BY <1>2, <2>1, <2>2
<1>4. NotShort(l)
  BY <1>3 DEF NotShort
<1>5. Len(l) + 1 \in DOMAIN m
  BY <1>1
<1>6. QED
  BY <1>2, <1>4, <1>5

(* A position sold out at an exact cost has none left.                     *)
LEMMA SoldSame ==
    ASSUME NEW p \in Position, NEW t \in Entry, p.qty > 0, t.qty <= p.qty
    PROVE  /\ Settled(Sold(p, t)).qty = p.qty - t.qty
           /\ (t.qty = p.qty => p.cost = p.qty * Average(p)) =>
                 Settled(Sold(p, t)) = Sold(p, t)
<1>1. p.qty \in Int /\ p.cost \in Int /\ t.qty \in Int
  BY DEF Position, Entry
<1>2. Sold(p, t).qty = p.qty - t.qty /\ Sold(p, t).cost = p.cost - t.qty * Average(p)
  BY DEF Sold
<1>3. CASE t.qty = p.qty
  <2>1. Settled(Sold(p, t)) = Nothing
    BY <1>1, <1>2, <1>3 DEF Settled
  <2>2. Nothing.qty = 0 /\ p.qty - t.qty = 0
    BY <1>1, <1>3 DEF Nothing
  <2>3. ASSUME p.cost = p.qty * Average(p) PROVE Sold(p, t) = Nothing
    <3>1. Sold(p, t).cost = p.cost - p.cost
      BY <1>2, <1>3, <2>3
    <3>2. p.cost - p.cost = 0
      BY <1>1
    <3>3. QED
      BY <1>2, <2>2, <3>1, <3>2 DEF Sold, Nothing
  <2>4. Settled(Sold(p, t)).qty = p.qty - t.qty
    BY <2>1, <2>2
  <2>5. QED
    BY <1>3, <2>1, <2>3, <2>4
<1>4. CASE t.qty # p.qty
  BY <1>1, <1>2, <1>4 DEF Settled
<1>5. QED
  BY <1>3, <1>4

(* A purchase, sale or transfer moves the shares the log says.             *)
LEMMA RecordHeld ==
    ASSUME TypeOK, HeldOK, NEW t \in Menu, Record(t), NotShort(log')
    PROVE  /\ NotShort(log)
           /\ \A s \in Sec :
                 /\ pos[s].qty \in Nat
                 /\ HeldBy(log', s, Len(log')) \in Nat
                 /\ HeldBy(log', s, Len(log')) =
                       pos[s].qty + IF t.sec # s THEN 0
                                    ELSE IF t.type \in In THEN t.qty
                                    ELSE IF t.type \in Out THEN -t.qty ELSE 0
<1>1. PICK u \in Txn : /\ log' = Append(log, u)
                       /\ u.type = t.type /\ u.sec = t.sec /\ u.qty = t.qty
  BY RecordTypes
<1>2. log \in Seq(Txn)
  BY DEF TypeOK
<1>3. /\ NotShort(log)
      /\ \A s \in Sec : HeldBy(log', s, Len(log) + 1) >= 0
  BY <1>1, <1>2, NotShortBefore
<1>4. Len(log') = Len(log) + 1 /\ Len(log) \in Nat /\ log' \in Seq(Txn)
  BY <1>1, <1>2, AppendProperties, LenProperties
<1>5. ASSUME NEW s \in Sec
      PROVE  /\ pos[s].qty \in Nat
             /\ HeldBy(log', s, Len(log')) \in Nat
             /\ HeldBy(log', s, Len(log')) =
                   pos[s].qty + IF t.sec # s THEN 0
                                ELSE IF t.type \in In THEN t.qty
                                ELSE IF t.type \in Out THEN -t.qty ELSE 0
  <2>1. pos[s].qty = HeldBy(log, s, Len(log)) /\ pos[s].qty >= 0
    BY <1>3 DEF HeldOK
  <2>2. pos[s].qty \in Int
    BY QueueTypes
  <2>3. HeldBy(log', s, Len(log')) >= 0 /\ HeldBy(log', s, Len(log')) \in Int
    BY <1>3, <1>4, MovesFinite
  <2>4. QED
    BY <1>1, <1>2, <2>1, <2>2, <2>3, HeldAppend
<1>6. QED
  BY <1>3, <1>5

(* A sale or a transfer of what is held at an exact cost.                  *)
LEMMA OutExact ==
    ASSUME TypeOK, HeldOK, NEW t \in Menu, Sell(t) \/ TransferOut(t),
           NotShort(log')
    PROVE  /\ t.sec \in Sec /\ t \in Entry
           /\ \A s \in Sec : pos'[s].qty = HeldBy(log', s, Len(log'))
           /\ ExactOut => pos' = IF pos[t.sec].qty > 0
                                 THEN [pos EXCEPT ![t.sec] = Sold(pos[t.sec], t)]
                                 ELSE pos
<1> DEFINE s == t.sec
<1>1. t \in Entry /\ s \in Sec /\ t.type \in Out /\ t.type \notin In /\ t.qty \in Nat
  BY TaxAssumption DEF Sell, TransferOut, Entry, Gets, In, Out
<1>2. /\ NotShort(log)
      /\ \A r \in Sec : pos[r].qty \in Nat
      /\ \A r \in Sec : r # s => HeldBy(log', r, Len(log')) = pos[r].qty
      /\ HeldBy(log', s, Len(log')) = pos[s].qty - t.qty
      /\ t.qty <= pos[s].qty
  <2>1. Record(t)
    BY DEF Sell, TransferOut
  <2>2. \A r \in Sec :
           /\ pos[r].qty \in Nat
           /\ HeldBy(log', r, Len(log')) \in Nat
           /\ HeldBy(log', r, Len(log')) = pos[r].qty + IF t.sec # r THEN 0 ELSE -t.qty
    BY <1>1, <2>1, RecordHeld
  <2>3. NotShort(log)
    BY <2>1, RecordHeld
  <2>4. HeldBy(log', s, Len(log')) = pos[s].qty - t.qty /\ t.qty <= pos[s].qty
    BY <1>1, <2>2
  <2>5. \A r \in Sec : r # s => HeldBy(log', r, Len(log')) = pos[r].qty
    BY <2>2
  <2>6. QED
    BY <2>2, <2>3, <2>4, <2>5
<1>3. pos' = IF pos[s].qty > 0
             THEN [pos EXCEPT ![s] = Settled(Sold(pos[s], t))] ELSE pos
  <2>1. pos[s].qty > 0 <=> ~(pos[s].qty <= 0)
    BY <1>1, <1>2
  <2>2. QED
    BY <2>1 DEF Sell, SellAtAverage, TransferOut
<1>4. pos \in [Sec -> Position]
  BY DEF TypeOK
<1>5. CASE pos[s].qty > 0
  <2>1. /\ Settled(Sold(pos[s], t)).qty = pos[s].qty - t.qty
        /\ (t.qty = pos[s].qty => pos[s].cost = pos[s].qty * Average(pos[s])) =>
              Settled(Sold(pos[s], t)) = Sold(pos[s], t)
    BY <1>1, <1>2, <1>4, <1>5, SoldSame
  <2>2. \A r \in Sec : pos'[r].qty = HeldBy(log', r, Len(log'))
    BY <1>1, <1>2, <1>3, <1>4, <1>5, <2>1
  <2>3. t.qty = pos[s].qty => pos'[s].qty = 0
    BY <1>1, <1>2, <2>2
  <2>4. ExactOut => Settled(Sold(pos[s], t)) = Sold(pos[s], t)
    BY <1>1, <1>5, <2>1, <2>3 DEF ExactOut
  <2>5. QED
    BY <1>1, <1>3, <1>5, <2>2, <2>4
<1>6. CASE ~(pos[s].qty > 0)
  <2>1. t.qty = 0 /\ pos' = pos
    BY <1>1, <1>2, <1>3, <1>6
  <2>2. QED
    BY <1>1, <1>2, <1>6, <2>1
<1>7. QED
  BY <1>5, <1>6

(* Every step keeps position and log together.                             *)
LEMMA HeldStays ==
    ASSUME TypeOK, HeldOK, [Next]_vars
    PROVE  HeldOK'
<1>1. ASSUME NEW t \in Menu, Acquire(t), NotShort(log'), NEW s \in Sec
      PROVE  pos'[s].qty = HeldBy(log', s, Len(log')) /\ pos'[s].qty >= 0
  <2>1. t.type \in In /\ Record(t) /\ t.sec \in Sec
    BY <1>1, TaxAssumption DEF Acquire, Entry, In, Gets
  <2>2. /\ HeldBy(log', s, Len(log')) \in Nat /\ pos[s].qty \in Nat
        /\ HeldBy(log', s, Len(log')) = pos[s].qty + IF t.sec # s THEN 0 ELSE t.qty
    BY <1>1, <2>1, RecordHeld
  <2>3. pos'[s].qty = IF s = t.sec THEN pos[s].qty + t.qty ELSE pos[s].qty
    BY <1>1, <2>1 DEF Acquire, TypeOK, Bought
  <2>4. QED
    BY <2>2, <2>3
<1>2. ASSUME NEW t \in Menu, Sell(t) \/ TransferOut(t), NotShort(log'), NEW s \in Sec
      PROVE  pos'[s].qty = HeldBy(log', s, Len(log')) /\ pos'[s].qty >= 0
  <2>1. pos'[s].qty = HeldBy(log', s, Len(log'))
    BY <1>2, OutExact
  <2>2. Record(t)
    BY <1>2 DEF Sell, TransferOut
  <2>3. HeldBy(log', s, Len(log')) \in Nat
    BY <1>2, <2>2, RecordHeld
  <2>4. QED
    BY <2>1, <2>3
<1>3. ASSUME NEW t \in Menu, Income(t), NotShort(log'), NEW s \in Sec
      PROVE  pos'[s].qty = HeldBy(log', s, Len(log')) /\ pos'[s].qty >= 0
  <2>1. t.type \notin In /\ t.type \notin Out /\ Record(t) /\ pos' = pos
    BY <1>3 DEF Income, In, Out, Gets
  <2>2. /\ HeldBy(log', s, Len(log')) \in Nat /\ pos[s].qty \in Nat
        /\ HeldBy(log', s, Len(log')) = pos[s].qty + 0
    BY <1>3, <2>1, RecordHeld
  <2>3. QED
    BY <2>1, <2>2
<1>4. CASE ConsumeLot \/ EndSale \/ CloseYear \/ UNCHANGED vars
  <2>1. log' = log /\ pos' = pos
    BY <1>4 DEF ConsumeLot, EndSale, CloseYear, walks, vars
  <2>2. QED
    BY <2>1 DEF HeldOK
<1>5. QED
  BY <1>1, <1>2, <1>3, <1>4 DEF Next, HeldOK

-----------------------------------------------------------------------------
(* The form, the pots and the summary *)

(* What WalksAgree says of the sums k of the form, e and n of the two pots *)
(* and m of the summary.                                                   *)
Agree(k, e, n, m) ==
    /\ k.gain + k.paid + k.interest = e.gain + n.gain
    /\ 7 * k.loss = 10 * e.loss + 7 * n.loss
    /\ k.gain + k.loss + k.paid
         = 10 * (m.gain + m.loss + m.paid) - 3 * (m.fundGain + m.fundPaid)

SumsAgree == Agree(kap, pots[Target]["equity"], pots[Target]["general"], summary)

(* The form is at the costs of the pots until Target is over.              *)
WalkOK == NotShort(log) => /\ year <= Target => kapPos = pos
                           /\ SumsAgree

(* A step adds k to the form, e and n to the pots, and m to the summary.   *)
Adds(z, x, y) == z.gain = x.gain + y.gain /\ z.loss = x.loss + y.loss

Moved(k, e, n, m) ==
    /\ Adds(kap', kap, k)
    /\ kap'.paid = kap.paid + k.paid /\ kap'.interest = kap.interest + k.interest
    /\ Adds(pots'[Target]["equity"], pots[Target]["equity"], e)
    /\ Adds(pots'[Target]["general"], pots[Target]["general"], n)
    /\ Adds(summary', summary, m)
    /\ summary'.fundGain = summary.fundGain + m.fundGain
    /\ summary'.paid = summary.paid + m.paid
    /\ summary'.fundPaid = summary.fundPaid + m.fundPaid

(* The sums are integers.                                                  *)
LEMMA SumsAre ==
    ASSUME TypeOK
    PROVE  /\ Target \in Year /\ "equity" \in Pot /\ "general" \in Pot
           /\ \A p \in Pot : /\ pots[Target][p] \in Sums
                             /\ pots[Target][p].gain \in Int
                             /\ pots[Target][p].loss \in Int
           /\ kap \in Kap /\ summary \in Summary
           /\ kap.gain \in Int /\ kap.loss \in Int /\ kap.paid \in Int
           /\ kap.interest \in Int
           /\ summary.gain \in Int /\ summary.loss \in Int
           /\ summary.fundGain \in Int /\ summary.paid \in Int
           /\ summary.fundPaid \in Int
<1>1. Target \in Year /\ "equity" \in Pot /\ "general" \in Pot
  BY TaxAssumption DEF Year, Pot
<1>2. \A p \in Pot : pots[Target][p] \in Sums
  BY <1>1 DEF TypeOK
<1>3. kap \in Kap /\ summary \in Summary
  BY DEF TypeOK
<1>4. \A sums \in Sums : sums.gain \in Int /\ sums.loss \in Int
  BY DEF Sums
<1>5. /\ kap.gain \in Int /\ kap.loss \in Int /\ kap.paid \in Int
      /\ kap.interest \in Int
  BY <1>3 DEF Kap
<1>6. /\ summary.gain \in Int /\ summary.loss \in Int
      /\ summary.fundGain \in Int /\ summary.paid \in Int
      /\ summary.fundPaid \in Int
  BY <1>3 DEF Summary
<1>7. QED
  BY <1>1, <1>2, <1>3, <1>4, <1>5, <1>6

(* A result is booked on the gains or on the losses.                       *)
LEMMA BookIs ==
    ASSUME NEW sums \in Sums, NEW x \in Int
    PROVE  /\ Book(sums, x).gain = sums.gain + IF x < 0 THEN 0 ELSE x
           /\ Book(sums, x).loss = sums.loss + IF x < 0 THEN x ELSE 0
<1>1. sums.gain \in Int /\ sums.loss \in Int
  BY DEF Sums
<1>2. CASE x < 0
  BY <1>1, <1>2 DEF Book, Sums
<1>3. CASE ~(x < 0)
  BY <1>1, <1>3 DEF Book, Sums
<1>4. QED
  BY <1>2, <1>3

(* What a step adds keeps the sums in agreement if it agrees itself.       *)
LEMMA SumsMove ==
    ASSUME TypeOK, SumsAgree, NEW k \in Kap, NEW e \in Sums, NEW n \in Sums,
           NEW m \in Summary, Agree(k, e, n, m), Moved(k, e, n, m)
    PROVE  SumsAgree'
<1> DEFINE E == pots[Target]["equity"]
           N == pots[Target]["general"]
           F == pots'[Target]["equity"]
           O == pots'[Target]["general"]
<1>1. /\ E \in Sums /\ N \in Sums /\ kap \in Kap /\ summary \in Summary
  BY SumsAre
<1>2. /\ Agree(kap, E, N, summary)
      /\ SumsAgree' <=> Agree(kap', F, O, summary')
  BY DEF SumsAgree
<1>3. /\ Adds(kap', kap, k) /\ Adds(F, E, e) /\ Adds(O, N, n)
      /\ Adds(summary', summary, m)
      /\ kap'.paid = kap.paid + k.paid
      /\ kap'.interest = kap.interest + k.interest
      /\ summary'.fundGain = summary.fundGain + m.fundGain
      /\ summary'.paid = summary.paid + m.paid
      /\ summary'.fundPaid = summary.fundPaid + m.fundPaid
  BY DEF Moved
<1> HIDE DEF E, N, F, O
<1> DEFINE kg == kap.gain   kl == kap.loss   kp == kap.paid   ki == kap.interest
           dg == k.gain     dl == k.loss     dp == k.paid     di == k.interest
           eg == E.gain     el == E.loss     ng == N.gain     nl == N.loss
           fg == e.gain     fl == e.loss     og == n.gain     ol == n.loss
           sg == summary.gain      sl == summary.loss  sf == summary.fundGain
           sp == summary.paid      sq == summary.fundPaid
           mg == m.gain     ml == m.loss     mf == m.fundGain
           mp == m.paid     mq == m.fundPaid
<1>4. /\ kg \in Int /\ kl \in Int /\ kp \in Int /\ ki \in Int
      /\ dg \in Int /\ dl \in Int /\ dp \in Int /\ di \in Int
  BY <1>1 DEF Kap
<1>5. /\ eg \in Int /\ el \in Int /\ ng \in Int /\ nl \in Int
      /\ fg \in Int /\ fl \in Int /\ og \in Int /\ ol \in Int
  BY <1>1 DEF Sums
<1>6. /\ sg \in Int /\ sl \in Int /\ sf \in Int /\ sp \in Int /\ sq \in Int
      /\ mg \in Int /\ ml \in Int /\ mf \in Int /\ mp \in Int /\ mq \in Int
  BY <1>1 DEF Summary
<1>7. /\ kg + kp + ki = eg + ng /\ dg + dp + di = fg + og
      /\ 7 * kl = 10 * el + 7 * nl /\ 7 * dl = 10 * fl + 7 * ol
      /\ kg + kl + kp = 10 * (sg + sl + sp) - 3 * (sf + sq)
      /\ dg + dl + dp = 10 * (mg + ml + mp) - 3 * (mf + mq)
  BY <1>2 DEF Agree
<1>8. /\ kap'.gain = kg + dg /\ kap'.loss = kl + dl
      /\ kap'.paid = kp + dp /\ kap'.interest = ki + di
      /\ F.gain = eg + fg /\ F.loss = el + fl
      /\ O.gain = ng + og /\ O.loss = nl + ol
      /\ summary'.gain = sg + mg /\ summary'.loss = sl + ml
      /\ summary'.fundGain = sf + mf /\ summary'.paid = sp + mp
      /\ summary'.fundPaid = sq + mq
  BY <1>3 DEF Adds
<1> HIDE DEF kg, kl, kp, ki, dg, dl, dp, di, eg, el, ng, nl, fg, fl, og, ol,
             sg, sl, sf, sp, sq, mg, ml, mf, mp, mq
<1>9. (kg + dg) + (kp + dp) + (ki + di) = (eg + fg) + (ng + og)
  BY <1>4, <1>5, <1>7
<1>10. 7 * (kl + dl) = 10 * (el + fl) + 7 * (nl + ol)
  BY <1>4, <1>5, <1>7
<1>11. (kg + dg) + (kl + dl) + (kp + dp)
          = 10 * ((sg + mg) + (sl + ml) + (sp + mp)) - 3 * ((sf + mf) + (sq + mq))
  BY <1>4, <1>6, <1>7
<1>12. Agree(kap', F, O, summary')
  BY <1>8, <1>9, <1>10, <1>11 DEF Agree
<1>13. QED
  BY <1>2, <1>12

(* One sale of Target, with the gain g, in all three.                      *)
LEMMA SaleAgrees ==
    ASSUME TypeOK, NEW s \in Sec, NEW g \in Int, SumsAgree,
           pots' = [pots EXCEPT ![Target][PotOf(s)] = Book(@, Taxable(s, g))],
           summary' = IF g < 0 THEN [summary EXCEPT !.loss = @ + g]
                      ELSE [summary EXCEPT
                               !.gain = @ + g,
                               !.fundGain = @ + (IF s \in Fund THEN g ELSE 0)],
           kap' = IF g > 0 THEN [kap EXCEPT !.gain = @ + Taxable(s, g)]
                  ELSE [kap EXCEPT !.loss = @ + 10 * g]
    PROVE  SumsAgree'
<1> DEFINE x == Taxable(s, g)
           P == PotOf(s)
<1>1. /\ x \in Int /\ P \in Pot
      /\ x = IF s \in Fund THEN 7 * g ELSE 10 * g
      /\ P = IF s \in Fund THEN "equity" ELSE "general"
  BY SumTypes DEF Taxable, PotOf
<1>2. /\ pots \in [Year -> [Pot -> Sums]] /\ Target \in Year
      /\ kap \in Kap /\ summary \in Summary
  BY SumsAre DEF TypeOK
<1> HIDE DEF x, P
<1>3. /\ pots'[Target][P] = Book(pots[Target][P], x)
      /\ \A p \in Pot : p # P => pots'[Target][p] = pots[Target][p]
  BY <1>1, <1>2 DEF x, P
<1>4. /\ pots'[Target][P].gain = pots[Target][P].gain + IF x < 0 THEN 0 ELSE x
      /\ pots'[Target][P].loss = pots[Target][P].loss + IF x < 0 THEN x ELSE 0
  BY <1>1, <1>3, SumsAre, BookIs
<1>5. /\ kap'.gain = kap.gain + IF g > 0 THEN x ELSE 0
      /\ kap'.loss = kap.loss + IF g > 0 THEN 0 ELSE 10 * g
      /\ kap'.paid = kap.paid /\ kap'.interest = kap.interest
  <2>1. CASE g > 0
    BY <1>1, <1>2, <2>1, SumsAre DEF Kap, x
  <2>2. CASE ~(g > 0)
    BY <1>2, <2>2, SumsAre DEF Kap
  <2>3. QED
    BY <2>1, <2>2
<1>6. /\ summary'.gain = summary.gain + IF g < 0 THEN 0 ELSE g
      /\ summary'.loss = summary.loss + IF g < 0 THEN g ELSE 0
      /\ summary'.fundGain = summary.fundGain
                                + IF g >= 0 /\ s \in Fund THEN g ELSE 0
      /\ summary'.paid = summary.paid /\ summary'.fundPaid = summary.fundPaid
  <2>1. CASE g < 0
    BY <1>2, <2>1, SumsAre DEF Summary
  <2>2. CASE ~(g < 0)
    BY <1>2, <2>2, SumsAre DEF Summary
  <2>3. QED
    BY <2>1, <2>2
<1> DEFINE won == IF g < 0 THEN 0 ELSE g
           lost == IF g < 0 THEN g ELSE 0
<1>7. won \in Int /\ lost \in Int
  OBVIOUS
<1> DEFINE part == IF s \in Fund THEN 7 ELSE 10
           k == [gain |-> part * won, loss |-> 10 * lost, paid |-> 0,
                 interest |-> 0]
           b == [gain |-> part * won, loss |-> part * lost]
           m == [gain |-> won, loss |-> lost,
                 fundGain |-> IF s \in Fund THEN won ELSE 0, paid |-> 0,
                 fundPaid |-> 0]
<1>8. /\ (IF x < 0 THEN 0 ELSE x) = part * won
      /\ (IF x < 0 THEN x ELSE 0) = part * lost
      /\ (IF g > 0 THEN x ELSE 0) = part * won
      /\ (IF g > 0 THEN 0 ELSE 10 * g) = 10 * lost
      /\ (IF g >= 0 /\ s \in Fund THEN g ELSE 0) = IF s \in Fund THEN won ELSE 0
      /\ part * won \in Int /\ part * lost \in Int /\ 10 * lost \in Int
  <2>1. CASE s \in Fund
    BY <1>1, <2>1
  <2>2. CASE s \notin Fund
    BY <1>1, <2>2
  <2>3. QED
    BY <2>1, <2>2
<1>9. k \in Kap /\ b \in Sums /\ NoSums \in Sums /\ m \in Summary
  BY <1>7, <1>8 DEF Kap, Sums, NoSums, Summary
<1>10. Adds(pots'[Target][P], pots[Target][P], b)
  BY <1>4, <1>8 DEF Adds
<1>11. \A q \in Pot \ {P} : Adds(pots'[Target][q], pots[Target][q], NoSums)
  BY <1>3, SumsAre DEF Adds, NoSums
<1>12. /\ Adds(kap', kap, k)
       /\ kap'.paid = kap.paid + k.paid
       /\ kap'.interest = kap.interest + k.interest
  BY <1>5, <1>8, SumsAre DEF Adds
<1>13. /\ Adds(summary', summary, m)
       /\ summary'.fundGain = summary.fundGain + m.fundGain
       /\ summary'.paid = summary.paid + m.paid
       /\ summary'.fundPaid = summary.fundPaid + m.fundPaid
  BY <1>6, <1>8, SumsAre DEF Adds
<1>14. CASE s \in Fund
  <2>1. P = "equity" /\ "general" \in Pot \ {P}
    BY <1>1, <1>14 DEF Pot
  <2>2. Agree(k, b, NoSums, m)
    <3>1. /\ k.gain = 7 * won /\ k.loss = 10 * lost /\ k.paid = 0
          /\ k.interest = 0 /\ b.gain = 7 * won /\ b.loss = 7 * lost
          /\ m.gain = won /\ m.loss = lost /\ m.fundGain = won /\ m.paid = 0
          /\ m.fundPaid = 0 /\ NoSums.gain = 0 /\ NoSums.loss = 0
      BY <1>14 DEF NoSums
    <3> HIDE DEF won, lost, k, b, m
    <3>2. /\ 7 * won + 0 + 0 = 7 * won + 0
          /\ 7 * (10 * lost) = 10 * (7 * lost) + 7 * 0
          /\ 7 * won + 10 * lost + 0 = 10 * (won + lost + 0) - 3 * (won + 0)
      BY <1>7
    <3>3. QED
      BY <3>1, <3>2 DEF Agree
  <2> HIDE DEF won, lost, part, k, b, m
  <2>3. Moved(k, b, NoSums, m)
    BY <1>10, <1>11, <1>12, <1>13, <2>1 DEF Moved
  <2>4. QED
    BY <1>9, <2>2, <2>3, SumsMove
<1>15. CASE s \notin Fund
  <2>1. P = "general" /\ "equity" \in Pot \ {P}
    BY <1>1, <1>15 DEF Pot
  <2>2. Agree(k, NoSums, b, m)
    <3>1. /\ k.gain = 10 * won /\ k.loss = 10 * lost /\ k.paid = 0
          /\ k.interest = 0 /\ b.gain = 10 * won /\ b.loss = 10 * lost
          /\ m.gain = won /\ m.loss = lost /\ m.fundGain = 0 /\ m.paid = 0
          /\ m.fundPaid = 0 /\ NoSums.gain = 0 /\ NoSums.loss = 0
      BY <1>15 DEF NoSums
    <3> HIDE DEF won, lost, k, b, m
    <3>2. /\ 10 * won + 0 + 0 = 0 + 10 * won
          /\ 7 * (10 * lost) = 10 * 0 + 7 * (10 * lost)
          /\ 10 * won + 10 * lost + 0 = 10 * (won + lost + 0) - 3 * (0 + 0)
      BY <1>7
    <3>3. QED
      BY <3>1, <3>2 DEF Agree
  <2> HIDE DEF won, lost, part, k, b, m
  <2>3. Moved(k, NoSums, b, m)
    BY <1>10, <1>11, <1>12, <1>13, <2>1 DEF Moved
  <2>4. QED
    BY <1>9, <2>2, <2>3, SumsMove
<1>16. QED
  BY <1>14, <1>15

(* A step that leaves the sums of Target alone.                            *)
LEMMA SumsKept ==
    ASSUME SumsAgree, pots'[Target] = pots[Target], kap' = kap,
           summary' = summary
    PROVE  SumsAgree'
BY DEF SumsAgree

(* Income too.                                                             *)
LEMMA IncomeAgrees ==
    ASSUME TypeOK, NEW t \in Menu, Income(t), SumsAgree
    PROVE  SumsAgree'
<1> DEFINE interest == t.type = "interest"
           part == IF interest THEN 10 * t.amt ELSE Taxable(t.sec, t.amt)
<1>1. t \in Entry /\ t.amt \in Int
  BY TaxAssumption DEF Entry
<1>2. /\ part \in Int
      /\ part = IF interest \/ t.sec \notin Fund THEN 10 * t.amt ELSE 7 * t.amt
  BY <1>1 DEF Taxable
<1>3. /\ pots \in [Year -> [Pot -> Sums]] /\ Target \in Year /\ year \in Year
      /\ kap \in Kap /\ summary \in Summary
  BY SumsAre, RecordTypes DEF TypeOK, Income
<1>4. pots' = [pots EXCEPT ![year]["general"].gain = @ + part]
  BY DEF Income
<1>5. CASE year # Target
  BY <1>3, <1>4, <1>5, SumsKept DEF Income
<1>6. CASE year = Target
  <2> HIDE DEF part
  <2>1. /\ pots'[Target]["equity"] = pots[Target]["equity"]
        /\ pots'[Target]["general"].gain = pots[Target]["general"].gain + part
        /\ pots'[Target]["general"].loss = pots[Target]["general"].loss
    BY <1>3, <1>4, <1>6, SumsAre DEF Pot, Sums
  <2>2. /\ summary' =
              IF interest THEN summary
              ELSE [summary EXCEPT !.paid = @ + t.amt,
                       !.fundPaid = @ + (IF t.sec \in Fund THEN t.amt ELSE 0)]
        /\ kap' = IF interest THEN [kap EXCEPT !.interest = @ + part]
                              ELSE [kap EXCEPT !.paid = @ + part]
    BY <1>6 DEF Income, part
  <2>3. /\ kap'.gain = kap.gain /\ kap'.loss = kap.loss
        /\ kap'.paid = kap.paid + IF interest THEN 0 ELSE part
        /\ kap'.interest = kap.interest + IF interest THEN part ELSE 0
    <3>1. CASE interest
      BY <1>3, <2>2, <3>1, SumsAre DEF Kap
    <3>2. CASE ~interest
      BY <1>3, <2>2, <3>2, SumsAre DEF Kap
    <3>3. QED
      BY <3>1, <3>2
  <2>4. /\ summary'.gain = summary.gain /\ summary'.loss = summary.loss
        /\ summary'.fundGain = summary.fundGain
        /\ summary'.paid = summary.paid + IF interest THEN 0 ELSE t.amt
        /\ summary'.fundPaid = summary.fundPaid
              + IF ~interest /\ t.sec \in Fund THEN t.amt ELSE 0
    <3>1. CASE interest
      BY <1>3, <2>2, <3>1, SumsAre DEF Summary
    <3>2. CASE ~interest
      BY <1>3, <2>2, <3>2, SumsAre DEF Summary
    <3>3. QED
      BY <3>1, <3>2
  <2> DEFINE k == [gain |-> 0, loss |-> 0, paid |-> IF interest THEN 0 ELSE part,
                   interest |-> IF interest THEN part ELSE 0]
             n == [gain |-> part, loss |-> 0]
             m == [gain |-> 0, loss |-> 0, fundGain |-> 0,
                   paid |-> IF interest THEN 0 ELSE t.amt,
                   fundPaid |-> IF ~interest /\ t.sec \in Fund THEN t.amt ELSE 0]
  <2> HIDE DEF interest
  <2>5. k \in Kap /\ n \in Sums /\ NoSums \in Sums /\ m \in Summary
    BY <1>1, <1>2 DEF Kap, Sums, NoSums, Summary
  <2>6. /\ Adds(pots'[Target]["equity"], pots[Target]["equity"], NoSums)
        /\ Adds(pots'[Target]["general"], pots[Target]["general"], n)
    BY <2>1, SumsAre DEF Adds, NoSums
  <2>7. /\ Adds(kap', kap, k)
        /\ kap'.paid = kap.paid + k.paid
        /\ kap'.interest = kap.interest + k.interest
    BY <2>3, SumsAre DEF Adds
  <2>8. /\ Adds(summary', summary, m)
        /\ summary'.fundGain = summary.fundGain + m.fundGain
        /\ summary'.paid = summary.paid + m.paid
        /\ summary'.fundPaid = summary.fundPaid + m.fundPaid
    BY <2>4, SumsAre DEF Adds
  <2>9. Agree(k, NoSums, n, m)
    <3>1. CASE interest
      BY <1>1, <1>2, <3>1 DEF Agree, NoSums
    <3>2. CASE ~interest
      BY <1>1, <1>2, <3>2 DEF Agree, NoSums
    <3>3. QED
      BY <3>1, <3>2
  <2> HIDE DEF k, n, m
  <2>10. Moved(k, NoSums, n, m)
    BY <2>6, <2>7, <2>8 DEF Moved
  <2>11. QED
    BY <2>5, <2>9, <2>10, SumsMove
<1>7. QED
  BY <1>5, <1>6

(* A sale moves the form, the pots and the summary alike.                  *)
LEMMA SellWalks ==
    ASSUME TypeOK, HeldOK, WalkOK, ExactOut, NEW t \in Menu, Sell(t),
           NotShort(log')
    PROVE  (year' <= Target => kapPos' = pos') /\ SumsAgree'
<1> DEFINE s == t.sec
           g == Gain(pos[s], t)
<1>1. /\ Record(t) /\ SellAtAverage(t) /\ SellForKap(t) /\ year' = year
      /\ year \in Year
  BY RecordTypes DEF Sell, Record
<1>2. NotShort(log) /\ pos[s].qty \in Nat
  BY <1>1, RecordHeld, OutExact
<1>3. /\ t \in Entry /\ s \in Sec
      /\ pos' = IF pos[s].qty > 0 THEN [pos EXCEPT ![s] = Sold(pos[s], t)]
                ELSE pos
  BY OutExact
<1>4. SumsAgree /\ (year <= Target => kapPos = pos)
  BY <1>2 DEF WalkOK
<1>5. year \in Int /\ Target \in Int /\ Target \in Year
  BY <1>1, TaxAssumption DEF Year
<1>6. year <= Target => kapPos' = pos'
  <2>1. CASE year <= Target /\ pos[s].qty > 0
    <3>1. kapPos' = [kapPos EXCEPT ![s] = Sold(@, t)] /\ kapPos = pos
      BY <1>1, <1>2, <1>4, <1>5, <2>1 DEF SellForKap
    <3>2. QED
      BY <1>3, <2>1, <3>1
  <2>2. CASE year <= Target /\ ~(pos[s].qty > 0)
    <3>1. kapPos' = kapPos /\ kapPos = pos
      BY <1>1, <1>2, <1>4, <2>2 DEF SellForKap
    <3>2. QED
      BY <1>3, <2>2, <3>1
  <2>3. QED
    BY <2>1, <2>2
<1>7. CASE year # Target
  <2>1. kap' = kap
    BY <1>1, <1>5, <1>7 DEF SellForKap
  <2>2. summary' = summary
    BY <1>1, <1>7 DEF SellAtAverage
  <2>3. pots'[Target] = pots[Target]
    BY <1>1, <1>5, <1>7 DEF SellAtAverage, TypeOK
  <2>4. QED
    BY <1>1, <1>4, <1>6, <2>1, <2>2, <2>3, SumsKept
<1>8. CASE year = Target /\ ~(pos[s].qty > 0)
  <2>1. kap' = kap /\ summary' = summary /\ pots' = pots
    BY <1>1, <1>2, <1>4, <1>5, <1>8 DEF SellForKap, SellAtAverage
  <2>2. QED
    BY <1>1, <1>4, <1>6, <2>1, SumsKept
<1>9. CASE year = Target /\ pos[s].qty > 0
  <2>1. kapPos = pos /\ ~(year > Target) /\ ~(pos[s].qty <= 0) /\ ~(year < Target)
    BY <1>2, <1>4, <1>5, <1>9
  <2>2. /\ pots' = [pots EXCEPT ![Target][PotOf(s)] = Book(@, Taxable(s, g))]
        /\ summary' = IF g < 0 THEN [summary EXCEPT !.loss = @ + g]
                      ELSE [summary EXCEPT
                               !.gain = @ + g,
                               !.fundGain = @ + (IF s \in Fund THEN g ELSE 0)]
    BY <1>1, <1>9, <2>1 DEF SellAtAverage
  <2>3. kap' = IF g > 0 THEN [kap EXCEPT !.gain = @ + Taxable(s, g)]
               ELSE [kap EXCEPT !.loss = @ + 10 * g]
    BY <1>1, <2>1 DEF SellForKap
  <2>4. g \in Int
    BY <1>3, <1>9, PositionTypes DEF TypeOK
  <2> HIDE DEF g
  <2>5. SumsAgree'
    BY <1>3, <1>4, <2>2, <2>3, <2>4, SaleAgrees
  <2>6. QED
    BY <1>1, <1>6, <2>5
<1>10. QED
  BY <1>7, <1>8, <1>9

(* A transaction, a lot sold or a new year keeps the walks in agreement.   *)
LEMMA WalkStays ==
    ASSUME TypeOK, HeldOK, WalkOK, ExactOut, [Next]_vars
    PROVE  WalkOK'
<1> SUFFICES ASSUME NotShort(log')
             PROVE  (year' <= Target => kapPos' = pos') /\ SumsAgree'
  BY DEF WalkOK
<1>1. ASSUME NEW t \in Menu, Record(t)
      PROVE  /\ year' = year /\ SumsAgree
             /\ year <= Target => kapPos = pos
  BY <1>1, RecordHeld DEF WalkOK, Record
<1>2. ASSUME NEW t \in Menu, Acquire(t)
      PROVE  (year' <= Target => kapPos' = pos') /\ SumsAgree'
  <2>1. Record(t)
    BY <1>2 DEF Acquire
  <2>2. UNCHANGED <<pots, summary, kap>>
    BY <1>2 DEF Acquire
  <2>3. year <= Target => kapPos' = pos'
    BY <1>1, <1>2, <2>1 DEF Acquire
  <2>4. QED
    BY <1>1, <2>1, <2>2, <2>3, SumsKept
<1>3. ASSUME NEW t \in Menu, TransferOut(t)
      PROVE  (year' <= Target => kapPos' = pos') /\ SumsAgree'
  <2>1. Record(t)
    BY <1>3 DEF TransferOut
  <2>2. UNCHANGED <<pots, summary, kap>>
    BY <1>3 DEF TransferOut
  <2>3. pos' = IF pos[t.sec].qty > 0
               THEN [pos EXCEPT ![t.sec] = Sold(pos[t.sec], t)] ELSE pos
    BY <1>3, OutExact
  <2>4. year <= Target => kapPos' = pos'
    BY <1>1, <1>3, <2>1, <2>3 DEF TransferOut
  <2>5. QED
    BY <1>1, <2>1, <2>2, <2>4, SumsKept
<1>4. ASSUME NEW t \in Menu, Sell(t)
      PROVE  (year' <= Target => kapPos' = pos') /\ SumsAgree'
  BY <1>4, SellWalks
<1>5. ASSUME NEW t \in Menu, Income(t)
      PROVE  (year' <= Target => kapPos' = pos') /\ SumsAgree'
  <2>1. Record(t) /\ UNCHANGED <<pos, kapPos>>
    BY <1>5 DEF Income
  <2>2. SumsAgree'
    BY <1>1, <1>5, <2>1, IncomeAgrees
  <2>3. QED
    BY <1>1, <2>1, <2>2
<1>6. CASE CloseYear
  <2>1. /\ UNCHANGED <<log, pos, kapPos, pots, summary, kap>>
        /\ year' = year + 1
    BY <1>6 DEF CloseYear, walks
  <2>2. SumsAgree /\ (year <= Target => kapPos = pos)
    BY <2>1 DEF WalkOK
  <2>3. year' <= Target => year <= Target
    BY <2>1, TaxAssumption DEF TypeOK
  <2>4. QED
    BY <2>1, <2>2, <2>3, SumsKept
<1>7. CASE ConsumeLot \/ EndSale \/ UNCHANGED vars
  <2>1. UNCHANGED <<log, year, pos, kapPos, pots, summary, kap>>
    BY <1>7 DEF ConsumeLot, EndSale, walks, vars
  <2>2. SumsAgree /\ (year <= Target => kapPos = pos)
    BY <2>1 DEF WalkOK
  <2>3. QED
    BY <2>1, <2>2, SumsKept
<1>8. QED
  BY <1>2, <1>3, <1>4, <1>5, <1>6, <1>7 DEF Next

(* A step that changes nothing sells nothing out.                          *)
LEMMA ExactIs ==
    ASSUME [ExactOut]_vars
    PROVE  ExactOut
<1>1. CASE UNCHANGED vars
  BY <1>1 DEF vars, ExactOut
<1>2. QED
  BY <1>1

(* Nothing is held at first, and nothing gained.                           *)
LEMMA InitWalk == Init => HeldOK /\ WalkOK
<1> SUFFICES ASSUME Init PROVE HeldOK /\ WalkOK
  OBVIOUS
<1>1. TypeOK
  BY InitLots DEF LotInv
<1>2. /\ kapPos = pos /\ kap = NoKap /\ summary = NoSummary
      /\ pots[Target]["equity"] = NoSums /\ pots[Target]["general"] = NoSums
  BY <1>1, SumsAre DEF Init
<1>3. SumsAgree
  BY <1>2 DEF SumsAgree, Agree, NoKap, NoSummary, NoSums
<1>4. ASSUME NEW s \in Sec PROVE pos[s].qty = 0 /\ HeldBy(log, s, Len(log)) = 0
  <2>1. log = <<>> /\ Len(log) = 0 /\ pos[s].qty = 0
    BY DEF Init, Nothing
  <2>2. Moves(log, s, 0) = {}
    BY DEF Moves
  <2>3. Total(SharesOf(log), {}) = 0
    BY TotalStep, FS_EmptySet
  <2>4. QED
    BY <2>1, <2>2, <2>3 DEF HeldBy
<1>5. QED
  BY <1>2, <1>3, <1>4 DEF HeldOK, WalkOK

(* The shares of the property are a total.                                 *)
LEMMA HeldSum ==
    ASSUME TypeOK, NEW s, NEW n \in DOMAIN log
    PROVE  Held(s, n) = HeldBy(log, s, n)
<1> DEFINE S == Moves(log, s, n)
           F == SharesOf(log)
           shares(k) == IF log[k].type \in In THEN log[k].qty
                        ELSE IF log[k].type \in Out THEN -log[k].qty ELSE 0
           it == CHOOSE it : it = [v \in SUBSET S |->
                    IF v = {} THEN 0 ELSE shares(Pick(v)) + it[v \ {Pick(v)}]]
<1>1. IsFiniteSet(S) /\ S \subseteq DOMAIN log
  <2>1. log \in Seq(Txn) /\ n \in 0 .. Len(log)
    BY LenProperties DEF TypeOK
  <2>2. QED
    BY <2>1, MovesFinite
<1>2. \A v \in SUBSET S : v # {} => F[Pick(v)] = shares(Pick(v))
  BY <1>1, PickIn DEF SharesOf
<1>3. S = {k \in 1 .. n : log[k].sec = s}
  BY DEF Moves
<1> HIDE DEF F, S
<1>4. ASSUME NEW b
      PROVE  [v \in SUBSET S |-> IF v = {} THEN 0
                 ELSE F[Pick(v)] + b[v \ {Pick(v)}]]
             = [v \in SUBSET S |-> IF v = {} THEN 0
                 ELSE shares(Pick(v)) + b[v \ {Pick(v)}]]
  BY <1>2
<1>5. PICK a : AddsUp(a, F, S)
  BY <1>1, AddsUpExists
<1>6. it = [v \in SUBSET S |-> IF v = {} THEN 0
               ELSE shares(Pick(v)) + it[v \ {Pick(v)}]]
  BY <1>4, <1>5, ZenonT(40) DEF AddsUp
<1> HIDE DEF it
<1>7. AddsUp(it, F, S)
  BY <1>4, <1>6 DEF AddsUp
<1>8. it[S] = Total(F, S)
  BY <1>1, <1>7, SummedIs
<1>9. MapThenSumSet(shares, S) = it[S]
  BY DEF MapThenSumSet, MapThenFoldSet, Pick, it
<1>10. QED
  BY <1>3, <1>8, <1>9 DEF F, S, Held, HeldBy

(* A log that is never short is not short in totals.                       *)
LEMMA NeverShortIs ==
    ASSUME TypeOK, NeverShort
    PROVE  NotShort(log)
BY HeldSum DEF NeverShort, NotShort

(* In the figures ComputeTaxSummary makes of its sums and shows.           *)
LEMMA ShownAgrees ==
    ASSUME TypeOK, SumsAgree
    PROVE  LET equity  == pots[Target]["equity"]
               general == pots[Target]["general"]
           IN /\ kap.gain + kap.paid + kap.interest = equity.gain + general.gain
              /\ 7 * kap.loss = 10 * equity.loss + 7 * general.loss
              /\ kap.gain + kap.loss + kap.paid
                   = 10 * (NetGain + summary.paid) - TeilfreistellungAmt
              /\ SummaryTaxable
                   = Floored(kap.gain + kap.loss + kap.paid - 3 * summary.fundPaid)
<1> DEFINE income == kap.gain + kap.loss + kap.paid
           shown  == 10 * NetGain - TeilfreistellungAmt + TaxableDividends
<1>1. income = 10 * (summary.gain + summary.loss + summary.paid)
               - 3 * (summary.fundGain + summary.fundPaid)
  BY DEF SumsAgree, Agree
<1>2. income = 10 * (NetGain + summary.paid) - TeilfreistellungAmt
  BY <1>1, SumsAre DEF NetGain, TeilfreistellungAmt
<1>3. shown = income - 3 * summary.fundPaid
  BY <1>1, SumsAre DEF NetGain, TeilfreistellungAmt, TaxableDividends
<1>4. SummaryTaxable = Floored(shown)
  BY DEF SummaryTaxable
<1>5. income = kap.gain + kap.loss + kap.paid
  OBVIOUS
<1> HIDE DEF shown, income
<1>6. shown = kap.gain + kap.loss + kap.paid - 3 * summary.fundPaid
  BY <1>3, <1>5, SumsAre DEF Summary
<1>7. SummaryTaxable = Floored(kap.gain + kap.loss + kap.paid - 3 * summary.fundPaid)
  BY <1>4, <1>6, Zenon
<1>8. QED
  BY <1>2, <1>5, <1>7 DEF SumsAgree, Agree

(* Form, loss pots and summary agree on the year, the summary in what it   *)
(* shows, its taxable gain less by the exempt part of fund dividends; any  *)
(* securities, transactions and years, as long as no average cost is       *)
(* rounded: three handlers walk the same log with switches of their own,   *)
(* and two of them pass over years the third does not                      *)
(* (analysis.go:1827-1938, tax.go:400-428, 579-642).                       *)
THEOREM WalksSafe == Spec /\ [][ExactOut]_vars => []WalksAgree
<1>1. Init => TypeOK /\ HeldOK /\ WalkOK
  BY InitWalk, InitLots DEF LotInv
<1>2. /\ TypeOK /\ HeldOK /\ WalkOK /\ [ExactOut]_vars /\ TypeOK' /\ [Next]_vars
      => TypeOK' /\ HeldOK' /\ WalkOK'
  BY ExactIs, HeldStays, WalkStays
<1>3. TypeOK /\ WalkOK => WalksAgree
  BY NeverShortIs, ShownAgrees DEF WalkOK, WalksAgree
<1>4. QED
  BY <1>1, <1>2, <1>3, TaxTypeCorrect, PTL DEF Spec

-----------------------------------------------------------------------------
(* The pots of the accounts *)

GainsOf(p)  == [a \in Account |-> accounts[a][p].gain]
LossesOf(p) == [a \in Account |-> accounts[a][p].loss]

PotsAddUp == \A p \in Pot : /\ Total(GainsOf(p), Account) = pots[Target][p].gain
                            /\ Total(LossesOf(p), Account) = pots[Target][p].loss

(* The walk per account is at the costs of the pots until Target is over.  *)
AccountsOK ==
    NotShort(log) /\ NoEarlierSale => /\ year <= Target => ytdPos = pos
                                      /\ PotsAddUp

(* The gains and losses of an account and a pot are integers.              *)
LEMMA AccountTypes ==
    ASSUME TypeOK, NEW p \in Pot
    PROVE  /\ GainsOf(p) \in [Account -> Int] /\ LossesOf(p) \in [Account -> Int]
           /\ \A a \in Account : accounts[a][p] \in Sums
<1>1. \A a \in Account : accounts[a][p] \in Sums
  BY DEF TypeOK
<1>2. \A sums \in Sums : sums.gain \in Int /\ sums.loss \in Int
  BY DEF Sums
<1>3. QED
  BY <1>1, <1>2 DEF GainsOf, LossesOf

(* What one account and its pot gain alike keeps the sums.                 *)
LEMMA PotGrows ==
    ASSUME TypeOK, PotsAddUp, NEW a \in Account, NEW P \in Pot, NEW d \in Sums,
           NEW b \in Sums, NEW c \in Sums,
           Adds(b, accounts[a][P], d), Adds(c, pots[Target][P], d),
           accounts' = [accounts EXCEPT ![a] = [@ EXCEPT ![P] = b]],
           pots' = [pots EXCEPT ![Target] = [@ EXCEPT ![P] = c]]
    PROVE  PotsAddUp'
<1>1. /\ accounts \in [Account -> [Pot -> Sums]] /\ Target \in Year
      /\ pots \in [Year -> [Pot -> Sums]] /\ IsFiniteSet(Account)
  BY SumsAre, TaxAssumption DEF TypeOK
<1>2. d.gain \in Int /\ d.loss \in Int
  BY DEF Sums
<1>3. /\ pots'[Target][P] = c
      /\ \A p \in Pot : p # P => pots'[Target][p] = pots[Target][p]
      /\ accounts'[a][P] = b
      /\ \A e \in Account : e # a => accounts'[e] = accounts[e]
      /\ \A p \in Pot : p # P => accounts'[a][p] = accounts[a][p]
  BY <1>1
<1>4. /\ b.gain = accounts[a][P].gain + d.gain
      /\ b.loss = accounts[a][P].loss + d.loss
      /\ c.gain = pots[Target][P].gain + d.gain
      /\ c.loss = pots[Target][P].loss + d.loss
  BY DEF Adds
<1>5. ASSUME NEW p \in Pot, p # P
      PROVE  GainsOf(p)' = GainsOf(p) /\ LossesOf(p)' = LossesOf(p)
  <2>1. \A e \in Account : accounts'[e][p] = accounts[e][p]
    BY <1>3, <1>5
  <2>2. QED
    BY <2>1 DEF GainsOf, LossesOf
<1>6. /\ Total(GainsOf(P)', Account) = Total(GainsOf(P), Account) + d.gain
      /\ Total(LossesOf(P)', Account) = Total(LossesOf(P), Account) + d.loss
  <2> DEFINE G == GainsOf(P)   L == LossesOf(P)
             H == GainsOf(P)'  M == LossesOf(P)'
             u == d.gain       v == d.loss
  <2>1. \A e \in Account : /\ G[e] = accounts[e][P].gain
                           /\ L[e] = accounts[e][P].loss
                           /\ H[e] = accounts'[e][P].gain
                           /\ M[e] = accounts'[e][P].loss
    BY DEF GainsOf, LossesOf
  <2>2. /\ G = [e \in Account |-> G[e]] /\ L = [e \in Account |-> L[e]]
        /\ H = [e \in Account |-> H[e]] /\ M = [e \in Account |-> M[e]]
    BY DEF GainsOf, LossesOf
  <2> HIDE DEF G, L, H, M
  <2>3. /\ H[a] = G[a] + d.gain /\ M[a] = L[a] + d.loss
        /\ \A e \in Account : e # a => H[e] = G[e] /\ M[e] = L[e]
    BY <1>3, <1>4, <2>1
  <2>4. /\ H = [G EXCEPT ![a] = @ + d.gain]
        /\ M = [L EXCEPT ![a] = @ + d.loss]
    BY <2>2, <2>3
  <2>5. G \in [Account -> Int] /\ L \in [Account -> Int]
    BY AccountTypes DEF G, L
  <2>6. u \in Int /\ v \in Int
    BY <1>2
  <2>7. IsFiniteSet(Account)
    BY <1>1
  <2>8. H = [G EXCEPT ![a] = @ + u] /\ M = [L EXCEPT ![a] = @ + v]
    BY <2>4
  <2> HIDE DEF u, v
  <2>9. Total([G EXCEPT ![a] = @ + u], Account) = Total(G, Account) + u
    BY <2>5, <2>6, <2>7, TotalChange
  <2>10. Total([L EXCEPT ![a] = @ + v], Account) = Total(L, Account) + v
    BY <2>5, <2>6, <2>7, TotalChange
  <2>11. QED
    BY <2>8, <2>9, <2>10 DEF G, L, H, M, u, v
<1>7. ASSUME NEW p \in Pot
      PROVE  /\ Total(GainsOf(p)', Account) = pots'[Target][p].gain
             /\ Total(LossesOf(p)', Account) = pots'[Target][p].loss
  <2>1. CASE p = P
    BY <1>3, <1>4, <1>6, <2>1 DEF PotsAddUp
  <2>2. CASE p # P
    BY <1>3, <1>5, <2>2 DEF PotsAddUp
  <2>3. QED
    BY <2>1, <2>2
<1>8. QED
  BY <1>7 DEF PotsAddUp

(* A step that leaves accounts and pots alone keeps the sums.              *)
LEMMA PotsStay ==
    ASSUME PotsAddUp, accounts' = accounts, pots'[Target] = pots[Target]
    PROVE  PotsAddUp'
<1>1. \A p \in Pot : GainsOf(p)' = GainsOf(p) /\ LossesOf(p)' = LossesOf(p)
  BY DEF GainsOf, LossesOf
<1>2. QED
  BY <1>1 DEF PotsAddUp

(* A sale of Target goes to the pot of its account and of the year alike.  *)
LEMMA SellAddsUp ==
    ASSUME TypeOK, HeldOK, AccountsOK, ExactOut, NEW t \in Menu, Sell(t),
           NotShort(log'), NoEarlierSale'
    PROVE  (year' <= Target => ytdPos' = pos') /\ PotsAddUp'
<1> DEFINE s == t.sec
           a == t.account
           P == PotOf(s)
           g == Gain(pos[s], t)
           x == Taxable(s, g)
<1>1. /\ Record(t) /\ SellAtAverage(t) /\ SellForAccount(t) /\ year' = year
      /\ year \in Year /\ t.type = "sell"
  BY RecordTypes DEF Sell, Record
<1>2. NotShort(log) /\ pos[s].qty \in Nat
  BY <1>1, RecordHeld, OutExact
<1>3. NoEarlierSale /\ year >= Target
  BY <1>1, NoEarlierSaleBefore
<1>4. /\ t \in Entry /\ s \in Sec
      /\ pos' = IF pos[s].qty > 0 THEN [pos EXCEPT ![s] = Sold(pos[s], t)]
                ELSE pos
  BY OutExact
<1>5. a \in Account
  BY <1>4 DEF Entry
<1>6. PotsAddUp /\ (year <= Target => ytdPos = pos)
  BY <1>2, <1>3 DEF AccountsOK
<1>7. year \in Int /\ Target \in Int /\ Target \in Year
  BY <1>1, TaxAssumption DEF Year
<1>8. CASE year # Target
  <2>1. ~(year <= Target)
    BY <1>3, <1>7, <1>8
  <2>2. accounts' = accounts
    BY <1>1, <1>8 DEF SellForAccount
  <2>3. pots'[Target] = pots[Target]
    BY <1>1, <1>7, <1>8 DEF SellAtAverage, TypeOK
  <2>4. QED
    BY <1>1, <1>6, <2>1, <2>2, <2>3, PotsStay
<1>9. CASE year = Target /\ ~(pos[s].qty > 0)
  <2>1. ytdPos = pos /\ pos[s].qty <= 0
    BY <1>2, <1>6, <1>7, <1>9
  <2>2. accounts' = accounts /\ ytdPos' = ytdPos /\ pots' = pots /\ pos' = pos
    BY <1>1, <1>9, <2>1 DEF SellForAccount, SellAtAverage
  <2>3. QED
    BY <1>6, <2>1, <2>2, PotsStay
<1>10. CASE year = Target /\ pos[s].qty > 0
  <2>1. ytdPos = pos /\ ~(pos[s].qty <= 0)
    BY <1>2, <1>6, <1>7, <1>10
  <2>2. ytdPos' = pos'
    BY <1>1, <1>4, <1>10, <2>1 DEF SellForAccount
  <2>3. /\ accounts' = [accounts EXCEPT ![a][P] = Book(@, x)]
        /\ pots' = [pots EXCEPT ![Target][P] = Book(@, x)]
    BY <1>1, <1>10, <2>1 DEF SellForAccount, SellAtAverage
  <2>4. g \in Int
    BY <1>4, <1>10, PositionTypes DEF TypeOK
  <2>5. x \in Int /\ P \in Pot
    BY <1>4, <2>4, SumTypes DEF Taxable, PotOf
  <2> DEFINE b == Book(accounts[a][P], x)
             c == Book(pots[Target][P], x)
             d == [gain |-> IF x < 0 THEN 0 ELSE x, loss |-> IF x < 0 THEN x ELSE 0]
  <2> HIDE DEF x, P, g
  <2>6. accounts[a][P] \in Sums /\ pots[Target][P] \in Sums
    BY <1>5, <2>5, AccountTypes, SumsAre
  <2>7. b \in Sums /\ c \in Sums /\ d \in Sums
    BY <2>5, <2>6, SumTypes DEF Sums
  <2>8. Adds(b, accounts[a][P], d) /\ Adds(c, pots[Target][P], d)
    BY <2>5, <2>6, BookIs DEF Adds
  <2>9. /\ accounts' = [accounts EXCEPT ![a] = [@ EXCEPT ![P] = b]]
        /\ pots' = [pots EXCEPT ![Target] = [@ EXCEPT ![P] = c]]
    BY <2>3
  <2> HIDE DEF a, b, c, d
  <2>10. PotsAddUp'
    BY <1>5, <1>6, <2>5, <2>7, <2>8, <2>9, PotGrows
  <2>11. QED
    BY <2>2, <2>10
<1>11. QED
  BY <1>8, <1>9, <1>10

(* Income of Target too.                                                   *)
LEMMA IncomeAddsUp ==
    ASSUME TypeOK, PotsAddUp, NEW t \in Menu, Income(t)
    PROVE  PotsAddUp'
<1> DEFINE part == IF t.type = "interest" THEN 10 * t.amt
                   ELSE Taxable(t.sec, t.amt)
           a == t.account
           G == "general"
<1>1. t \in Entry /\ a \in Account /\ t.amt \in Int
  BY TaxAssumption DEF Entry
<1>2. part \in Int
  BY <1>1 DEF Taxable
<1>3. /\ pots \in [Year -> [Pot -> Sums]] /\ Target \in Year /\ year \in Year
      /\ accounts \in [Account -> [Pot -> Sums]] /\ G \in Pot
  BY SumsAre, RecordTypes DEF TypeOK, Income
<1>4. /\ pots' = [pots EXCEPT ![year][G].gain = @ + part]
      /\ accounts' = IF year # Target THEN accounts
                     ELSE [accounts EXCEPT ![a][G].gain = @ + part]
  BY DEF Income
<1> HIDE DEF part, a
<1>5. CASE year # Target
  BY <1>3, <1>4, <1>5, PotsStay
<1>6. CASE year = Target
  <2> DEFINE b == [accounts[a][G] EXCEPT !.gain = @ + part]
             c == [pots[Target][G] EXCEPT !.gain = @ + part]
             d == [gain |-> part, loss |-> 0]
  <2>1. accounts[a][G] \in Sums /\ pots[Target][G] \in Sums
    BY <1>1, <1>3
  <2>2. b \in Sums /\ c \in Sums /\ d \in Sums
    BY <1>2, <2>1 DEF Sums
  <2>3. Adds(b, accounts[a][G], d) /\ Adds(c, pots[Target][G], d)
    BY <1>2, <2>1 DEF Adds, Sums
  <2>4. /\ accounts' = [accounts EXCEPT ![a] = [@ EXCEPT ![G] = b]]
        /\ pots' = [pots EXCEPT ![Target] = [@ EXCEPT ![G] = c]]
    BY <1>4, <1>6
  <2> HIDE DEF b, c, d, G
  <2>5. QED
    BY <1>1, <1>3, <2>2, <2>3, <2>4, PotGrows
<1>7. QED
  BY <1>5, <1>6

(* Every step keeps the accounts and the pots together.                    *)
LEMMA AccountsStay ==
    ASSUME TypeOK, HeldOK, AccountsOK, ExactOut, [Next]_vars
    PROVE  AccountsOK'
<1> SUFFICES ASSUME NotShort(log'), NoEarlierSale'
             PROVE  (year' <= Target => ytdPos' = pos') /\ PotsAddUp'
  BY DEF AccountsOK
<1>1. ASSUME NEW t \in Menu, Record(t)
      PROVE  /\ year' = year /\ PotsAddUp
             /\ year <= Target => ytdPos = pos
  BY <1>1, RecordHeld, NoEarlierSaleBefore DEF AccountsOK, Record
<1>2. ASSUME NEW t \in Menu, Acquire(t)
      PROVE  (year' <= Target => ytdPos' = pos') /\ PotsAddUp'
  <2>1. Record(t) /\ UNCHANGED <<pots, accounts>>
    BY <1>2 DEF Acquire
  <2>2. year <= Target => ytdPos' = pos'
    BY <1>1, <1>2, <2>1 DEF Acquire
  <2>3. QED
    BY <1>1, <2>1, <2>2, PotsStay
<1>3. ASSUME NEW t \in Menu, TransferOut(t)
      PROVE  (year' <= Target => ytdPos' = pos') /\ PotsAddUp'
  <2>1. Record(t) /\ UNCHANGED <<pots, accounts>>
    BY <1>3 DEF TransferOut
  <2>2. pos' = IF pos[t.sec].qty > 0
               THEN [pos EXCEPT ![t.sec] = Sold(pos[t.sec], t)] ELSE pos
    BY <1>3, OutExact
  <2>3. year <= Target => ytdPos' = pos'
    BY <1>1, <1>3, <2>1, <2>2 DEF TransferOut
  <2>4. QED
    BY <1>1, <2>1, <2>3, PotsStay
<1>4. ASSUME NEW t \in Menu, Sell(t)
      PROVE  (year' <= Target => ytdPos' = pos') /\ PotsAddUp'
  BY <1>4, SellAddsUp
<1>5. ASSUME NEW t \in Menu, Income(t)
      PROVE  (year' <= Target => ytdPos' = pos') /\ PotsAddUp'
  <2>1. Record(t) /\ UNCHANGED <<pos, ytdPos>>
    BY <1>5 DEF Income
  <2>2. PotsAddUp'
    BY <1>1, <1>5, <2>1, IncomeAddsUp
  <2>3. QED
    BY <1>1, <2>1, <2>2
<1>6. CASE CloseYear
  <2>1. UNCHANGED <<log, pos, ytdPos, pots, accounts>> /\ year' = year + 1
    BY <1>6 DEF CloseYear, walks
  <2>2. PotsAddUp /\ (year <= Target => ytdPos = pos)
    BY <2>1 DEF AccountsOK, NoEarlierSale
  <2>3. year' <= Target => year <= Target
    BY <2>1, TaxAssumption DEF TypeOK
  <2>4. QED
    BY <2>1, <2>2, <2>3, PotsStay
<1>7. CASE ConsumeLot \/ EndSale \/ UNCHANGED vars
  <2>1. UNCHANGED <<log, year, pos, ytdPos, pots, accounts>>
    BY <1>7 DEF ConsumeLot, EndSale, walks, vars
  <2>2. PotsAddUp /\ (year <= Target => ytdPos = pos)
    BY <2>1 DEF AccountsOK, NoEarlierSale
  <2>3. QED
    BY <2>1, <2>2, PotsStay
<1>8. QED
  BY <1>2, <1>3, <1>4, <1>5, <1>6, <1>7 DEF Next

(* Accounts and pots start empty.                                          *)
LEMMA InitAccounts == Init => AccountsOK
<1> SUFFICES ASSUME Init PROVE AccountsOK
  OBVIOUS
<1>1. TypeOK /\ ytdPos = pos
  BY InitLots DEF LotInv, Init
<1>2. ASSUME NEW p \in Pot
      PROVE  /\ Total(GainsOf(p), Account) = 0 /\ Total(LossesOf(p), Account) = 0
             /\ pots[Target][p].gain = 0 /\ pots[Target][p].loss = 0
  <2>1. \A a \in Account : GainsOf(p)[a] = 0 /\ LossesOf(p)[a] = 0
    BY DEF Init, NoSums, GainsOf, LossesOf
  <2>2. pots[Target][p] = NoSums
    BY <1>1, SumsAre DEF Init
  <2>3. Total(GainsOf(p), Account) = 0 /\ Total(LossesOf(p), Account) = 0
    BY <2>1, TaxAssumption, TotalZero
  <2>4. QED
    BY <2>2, <2>3 DEF NoSums
<1>3. QED
  BY <1>1, <1>2 DEF AccountsOK, PotsAddUp

(* The sums of the property are totals.                                    *)
LEMMA GainSum ==
    ASSUME NEW p
    PROVE  MapThenSumSet(LAMBDA a : accounts[a][p].gain, Account)
              = Total(GainsOf(p), Account)
<1> DEFINE F == GainsOf(p)
           it == CHOOSE it : it = [s \in SUBSET Account |->
                    IF s = {} THEN 0
                    ELSE accounts[Pick(s)][p].gain + it[s \ {Pick(s)}]]
<1>1. \A s \in SUBSET Account : s # {} => F[Pick(s)] = accounts[Pick(s)][p].gain
  BY PickIn DEF GainsOf
<1> HIDE DEF F
<1>2. ASSUME NEW b
      PROVE  [s \in SUBSET Account |-> IF s = {} THEN 0
                 ELSE F[Pick(s)] + b[s \ {Pick(s)}]]
             = [s \in SUBSET Account |-> IF s = {} THEN 0
                 ELSE accounts[Pick(s)][p].gain + b[s \ {Pick(s)}]]
  BY <1>1
<1>3. \E fn : AddsUp(fn, F, Account)
  BY TaxAssumption, AddsUpExists
<1>4. it = [s \in SUBSET Account |-> IF s = {} THEN 0
               ELSE accounts[Pick(s)][p].gain + it[s \ {Pick(s)}]]
  BY <1>2, <1>3, ZenonT(40) DEF AddsUp
<1> HIDE DEF it
<1>5. AddsUp(it, F, Account)
  BY <1>2, <1>4 DEF AddsUp
<1>6. it[Account] = Total(F, Account)
  BY <1>5, TaxAssumption, SummedIs
<1>7. MapThenSumSet(LAMBDA a : accounts[a][p].gain, Account) = it[Account]
  BY DEF MapThenSumSet, MapThenFoldSet, Pick, it
<1>8. QED
  BY <1>6, <1>7 DEF F

(* Losses alike.                                                           *)
LEMMA LossSum ==
    ASSUME NEW p
    PROVE  MapThenSumSet(LAMBDA a : accounts[a][p].loss, Account)
              = Total(LossesOf(p), Account)
<1> DEFINE F == LossesOf(p)
           it == CHOOSE it : it = [s \in SUBSET Account |->
                    IF s = {} THEN 0
                    ELSE accounts[Pick(s)][p].loss + it[s \ {Pick(s)}]]
<1>1. \A s \in SUBSET Account : s # {} => F[Pick(s)] = accounts[Pick(s)][p].loss
  BY PickIn DEF LossesOf
<1> HIDE DEF F
<1>2. ASSUME NEW b
      PROVE  [s \in SUBSET Account |-> IF s = {} THEN 0
                 ELSE F[Pick(s)] + b[s \ {Pick(s)}]]
             = [s \in SUBSET Account |-> IF s = {} THEN 0
                 ELSE accounts[Pick(s)][p].loss + b[s \ {Pick(s)}]]
  BY <1>1
<1>3. \E fn : AddsUp(fn, F, Account)
  BY TaxAssumption, AddsUpExists
<1>4. it = [s \in SUBSET Account |-> IF s = {} THEN 0
               ELSE accounts[Pick(s)][p].loss + it[s \ {Pick(s)}]]
  BY <1>2, <1>3, ZenonT(40) DEF AddsUp
<1> HIDE DEF it
<1>5. AddsUp(it, F, Account)
  BY <1>2, <1>4 DEF AddsUp
<1>6. it[Account] = Total(F, Account)
  BY <1>5, TaxAssumption, SummedIs
<1>7. MapThenSumSet(LAMBDA a : accounts[a][p].loss, Account) = it[Account]
  BY DEF MapThenSumSet, MapThenFoldSet, Pick, it
<1>8. QED
  BY <1>6, <1>7 DEF F

(* The pots of the accounts add up to those of the year, for any number of *)
(* accounts and transactions, if no average cost is rounded and nothing    *)
(* was sold before the year: HandleLossPots books on one account after the *)
(* other what ComputeLossPots books on the year (analysis.go:2602-2633,    *)
(* tax.go:400-428).                                                        *)
THEOREM AccountsSafe == Spec /\ [][ExactOut]_vars => []AccountsAddUp
<1>1. Init => TypeOK /\ HeldOK /\ AccountsOK
  BY InitWalk, InitAccounts, InitLots DEF LotInv
<1>2. /\ TypeOK /\ HeldOK /\ AccountsOK /\ [ExactOut]_vars /\ TypeOK'
      /\ [Next]_vars
      => TypeOK' /\ HeldOK' /\ AccountsOK'
  BY ExactIs, HeldStays, AccountsStay
<1>3. TypeOK /\ AccountsOK => AccountsAddUp
  BY NeverShortIs, GainSum, LossSum DEF AccountsOK, PotsAddUp, AccountsAddUp
<1>4. QED
  BY <1>1, <1>2, <1>3, TaxTypeCorrect, PTL DEF Spec

-----------------------------------------------------------------------------
(* Folds over a queue *)

(* The greatest element is the one nothing exceeds.                        *)
LEMMA GreatestIs ==
    ASSUME NEW s \in SUBSET Int, NEW m \in s, \A x \in s : x <= m
    PROVE  Max(s) = m
<1>1. \A x \in s : (\A y \in s : x >= y) => x = m
  OBVIOUS
<1>2. \A y \in s : m >= y
  OBVIOUS
<1>3. QED
  BY <1>1, <1>2 DEF Max

(* The smaller one of two.                                                 *)
LEMMA SmallerIs ==
    ASSUME NEW a \in Int, NEW b \in Int
    PROVE  Min({a, b}) = IF a <= b THEN a ELSE b
<1> DEFINE m == IF a <= b THEN a ELSE b
<1>1. m \in {a, b} /\ \A y \in {a, b} : m <= y
  OBVIOUS
<1>2. \A x \in {a, b} : (\A y \in {a, b} : x <= y) => x = m
  OBVIOUS
<1> HIDE DEF m
<1>3. Min({a, b}) = m
  BY <1>1, <1>2 DEF Min
<1>4. QED
  BY <1>3 DEF m

(* What a simulated sale does at a lot.                                    *)
SimLot(sim, lot, price) ==
    IF sim.left <= 0 THEN sim
    ELSE LET value == lot.qty * price
             part  == Min({sim.left, value})
         IN [left |-> sim.left - part,
             cost |-> sim.cost + (part * CostOf(lot)) \div value]

(* it simulates the sale over the lots of each subset of S.                *)
SimsUp(it, queue, price, first, S) ==
    it = [s \in SUBSET S |->
             IF s = {} THEN first
             ELSE SimLot(it[s \ {Max(s)}], queue[Max(s)], price)]

(* There is one for every queue.                                           *)
LEMMA SimExists ==
    ASSUME NEW queue, NEW price, NEW first, NEW n \in Nat
    PROVE  \E it : SimsUp(it, queue, price, first, 1 .. n)
<1> DEFINE P(m) == \E it : SimsUp(it, queue, price, first, 1 .. m)
           C == {m \in 0 .. n : ~P(m)}
<1> SUFFICES ASSUME C # {} PROVE FALSE
  OBVIOUS
<1> HIDE DEF P
<1>1. PICK m \in C : \A k \in C : m <= k
  <2>1. C \in SUBSET Nat
    OBVIOUS
  <2> HIDE DEF C
  <2> QED
    BY <2>1, LeastElement
<1>2. m # 0
  <2> DEFINE it == [s \in SUBSET (1 .. 0) |-> first]
  <2>1. \A s \in SUBSET (1 .. 0) : s = {}
    OBVIOUS
  <2>2. SimsUp(it, queue, price, first, 1 .. 0)
    BY <2>1 DEF SimsUp
  <2>3. P(0)
    BY <2>2 DEF P
  <2>4. QED
    BY <2>3
<1> DEFINE k == m - 1
<1>3. k \in 0 .. n /\ k < m /\ m \in Nat /\ m \notin 1 .. k /\ 1 .. m = (1 .. k) \cup {m}
  BY <1>2
<1>4. P(k)
  BY <1>1, <1>3
<1> HIDE DEF k, C
<1>5. PICK a : SimsUp(a, queue, price, first, 1 .. k)
  BY <1>4 DEF P
<1> DEFINE new(s) == SimLot(a[s \ {m}], queue[m], price)
           it == [s \in SUBSET (1 .. m) |-> IF m \in s THEN new(s) ELSE a[s]]
           body(f, s) == IF s = {} THEN first
                         ELSE SimLot(f[s \ {Max(s)}], queue[Max(s)], price)
<1>6. ASSUME NEW s \in SUBSET (1 .. m)
      PROVE  it[s] = body(it, s)
  <2>1. CASE m \in s
    <3>1. Max(s) = m
      <4>1. s \in SUBSET Int /\ \A x \in s : x <= m
        BY <1>3
      <4>2. QED
        BY <4>1, <2>1, GreatestIs
    <3>2. s \ {m} \in SUBSET (1 .. m) /\ m \notin s \ {m}
      BY <1>3
    <3>3. it[s \ {m}] = a[s \ {m}]
      BY <3>2
    <3>4. it[s] = new(s) /\ s # {}
      BY <2>1
    <3> HIDE DEF it
    <3>5. QED
      BY <3>1, <3>3, <3>4
  <2>2. CASE m \notin s
    <3>1. s \in SUBSET (1 .. k)
      BY <1>3, <2>2
    <3>2. it[s] = a[s] /\ it[s \ {Max(s)}] = a[s \ {Max(s)}]
      BY <2>2
    <3>3. a[s] = body(a, s)
      <4>1. a = [t \in SUBSET (1 .. k) |-> body(a, t)]
        BY <1>5 DEF SimsUp
      <4> HIDE DEF body
      <4>2. QED
        BY <3>1, <4>1
    <3> HIDE DEF it
    <3>4. QED
      BY <3>2, <3>3
  <2>3. QED
    BY <2>1, <2>2
<1>7. it = [s \in SUBSET (1 .. m) |-> it[s]]
  OBVIOUS
<1> HIDE DEF it, body
<1>8. it = [s \in SUBSET (1 .. m) |-> body(it, s)]
  BY <1>6, <1>7
<1>9. P(m)
  BY <1>8 DEF P, SimsUp, body
<1>10. QED
  BY <1>9 DEF C

(* A simulated sale goes through the queue lot by lot.                     *)
LEMMA SimulateIs ==
    ASSUME NEW queue, NEW n \in Nat, DOMAIN queue = 1 .. n,
           NEW price, NEW amount
    PROVE  \E it : /\ SimulateSell(queue, price, amount) = it[1 .. n]
                   /\ it[{}] = [left |-> amount, cost |-> 0]
                   /\ \A m \in 1 .. n :
                         it[1 .. m] = SimLot(it[1 .. m - 1], queue[m], price)
<1> DEFINE first == [left |-> amount, cost |-> 0]
           it == CHOOSE it : SimsUp(it, queue, price, first, 1 .. n)
           body(s) == IF s = {} THEN first
                      ELSE SimLot(it[s \ {Max(s)}], queue[Max(s)], price)
<1>1. SimsUp(it, queue, price, first, 1 .. n)
  BY SimExists
<1>2. SimulateSell(queue, price, amount) = it[1 .. n]
  BY DEF SimulateSell, FoldLeft, MapThenFoldSet, SimsUp, SimLot
<1> HIDE DEF it, first
<1>3. it = [s \in SUBSET (1 .. n) |-> body(s)]
  BY <1>1 DEF SimsUp
<1> HIDE DEF body
<1>4. \A s \in SUBSET (1 .. n) : it[s] = body(s)
  BY <1>3
<1>5. it[{}] = first
  BY <1>4 DEF body
<1>6. ASSUME NEW m \in 1 .. n
      PROVE  it[1 .. m] = SimLot(it[1 .. m - 1], queue[m], price)
  <2>1. 1 .. m \in SUBSET (1 .. n) /\ 1 .. m # {} /\ (1 .. m) \ {m} = 1 .. m - 1
    <3>1. (1 .. m) \ {m} = 1 .. m - 1
      OBVIOUS
    <3>2. m \in 1 .. m /\ \A x \in 1 .. m : x \in 1 .. n
      OBVIOUS
    <3>3. QED
      BY <3>1, <3>2
  <2>2. Max(1 .. m) = m
    <3>1. 1 .. m \in SUBSET Int /\ m \in 1 .. m /\ \A x \in 1 .. m : x <= m
      OBVIOUS
    <3>2. QED
      BY <3>1, GreatestIs
  <2>3. it[1 .. m] = body(1 .. m)
    BY <1>4, <2>1
  <2>4. QED
    BY <2>1, <2>2, <2>3 DEF body
<1>7. QED
  BY <1>2, <1>5, <1>6 DEF first

(* A non-empty set of positions has a greatest one.                        *)
LEMMA GreatestIn ==
    ASSUME NEW n \in Nat, NEW s \in SUBSET (1 .. n), s # {}
    PROVE  Max(s) \in s
<1> DEFINE N == {n - x : x \in s}
<1>1. N \in SUBSET Nat /\ N # {}
  <2>1. \A x \in s : n - x \in Nat
    OBVIOUS
  <2>2. N \in SUBSET Nat
    BY <2>1
  <2>3. N # {}
    OBVIOUS
  <2>4. QED
    BY <2>2, <2>3
<1>2. PICK i \in N : \A j \in N : i <= j
  <2> HIDE DEF N
  <2> QED
    BY <1>1, LeastElement
<1>3. PICK m \in s : i = n - m
  OBVIOUS
<1>4. ASSUME NEW x \in s PROVE x <= m
  <2>1. n - x \in N
    OBVIOUS
  <2>2. i <= n - x /\ x \in Int /\ m \in Int
    BY <1>2, <2>1
  <2>3. QED
    BY <1>3, <2>2
<1>5. Max(s) = m
  <2>1. s \in SUBSET Int
    OBVIOUS
  <2>2. QED
    BY <1>4, <2>1, GreatestIs
<1>6. QED
  BY <1>5

(* The summand of the greatest index may be taken off.                     *)
LEMMA TotalOffMax ==
    ASSUME NEW f, NEW s, IsFiniteSet(s), \A x \in s : f[x] \in Int, Max(s) \in s
    PROVE  Total(f, s) = f[Max(s)] + Total(f, s \ {Max(s)})
  BY TotalOff

(* A sum by position is a total.                                           *)
LEMMA SumIs ==
    ASSUME NEW seq, NEW n \in Nat, DOMAIN seq = 1 .. n,
           \A i \in 1 .. n : seq[i] \in Int
    PROVE  FoldLeft(LAMBDA sum, c : sum + c, 0, seq) = Total(seq, 1 .. n)
<1> DEFINE body(f, s) == IF s = {} THEN 0 ELSE f[s \ {Max(s)}] + seq[Max(s)]
           it == CHOOSE it : it = [s \in SUBSET (1 .. n) |->
                    IF s = {} THEN 0 ELSE it[s \ {Max(s)}] + seq[Max(s)]]
           a == [s \in SUBSET (1 .. n) |-> Total(seq, s)]
<1>1. ASSUME NEW s \in SUBSET (1 .. n)
      PROVE  a[s] = body(a, s)
  <2>1. IsFiniteSet(s) /\ \A x \in s : seq[x] \in Int
    <3>1. IsFiniteSet(1 .. n)
      BY FS_Interval
    <3>2. IsFiniteSet(s)
      BY <3>1, FS_Subset
    <3>3. QED
      BY <3>2
  <2>2. CASE s = {}
    BY <2>1, <2>2, TotalStep
  <2>3. CASE s # {}
    <3>1. Max(s) \in s
      BY <2>3, GreatestIn
    <3> DEFINE t == s \ {Max(s)}
    <3>2. Total(seq, s) = seq[Max(s)] + Total(seq, t)
      <4> HIDE DEF a, it, body
      <4>1. QED
        BY <2>1, <3>1, TotalOffMax
    <3>3. IsFiniteSet(t) /\ t \in SUBSET (1 .. n) /\ \A x \in t : seq[x] \in Int
      BY <2>1, FS_Subset
    <3>4. a[s] = Total(seq, s) /\ a[t] = Total(seq, t)
      BY <3>3
    <3> HIDE DEF t
    <3>5. Total(seq, t) \in Int /\ seq[Max(s)] \in Int
      BY <2>1, <3>1, <3>3, TotalType
    <3>6. a[s] = a[t] + seq[Max(s)]
      BY <3>2, <3>4, <3>5
    <3> HIDE DEF a
    <3>7. QED
      BY <2>3, <3>6 DEF t
  <2>4. QED
    BY <2>2, <2>3
<1>2. a = [s \in SUBSET (1 .. n) |-> a[s]]
  OBVIOUS
<1> HIDE DEF a, body
<1>3. a = [s \in SUBSET (1 .. n) |-> body(a, s)]
  BY <1>1, <1>2
<1>4. it = [s \in SUBSET (1 .. n) |-> body(it, s)]
  BY <1>3 DEF body
<1>5. FoldLeft(LAMBDA sum, c : sum + c, 0, seq) = it[1 .. n]
  BY DEF FoldLeft, MapThenFoldSet
<1> HIDE DEF it
<1>6. \A s \in SUBSET (1 .. n) : it[s] = body(it, s) /\ a[s] = body(a, s)
  BY <1>4, <1>1
<1> DEFINE C == {m \in 0 .. n : it[1 .. m] # a[1 .. m]}
<1>7. C = {}
  <2> SUFFICES ASSUME C # {} PROVE FALSE
    OBVIOUS
  <2>1. PICK m \in C : \A k \in C : m <= k
    <3>1. C \in SUBSET Nat
      OBVIOUS
    <3> HIDE DEF C
    <3>2. QED
      BY <3>1, LeastElement
  <2>2. 1 .. m \in SUBSET (1 .. n)
    OBVIOUS
  <2>3. it[1 .. m] = body(it, 1 .. m) /\ a[1 .. m] = body(a, 1 .. m)
    BY <1>6, <2>2
  <2>4. m \in Nat \ {0}
    <3>1. 1 .. 0 = {}
      OBVIOUS
    <3>2. QED
      BY <2>3, <3>1 DEF body
  <2>5. m - 1 \in 0 .. n /\ m - 1 < m
    BY <2>4
  <2>6. it[1 .. m - 1] = a[1 .. m - 1]
    BY <2>1, <2>5
  <2>7. Max(1 .. m) = m /\ (1 .. m) \ {m} = 1 .. m - 1
    <3>1. 1 .. m \in SUBSET Int /\ m \in 1 .. m /\ \A x \in 1 .. m : x <= m
      BY <2>4
    <3>2. Max(1 .. m) = m
      BY <3>1, GreatestIs
    <3>3. QED
      BY <2>4, <3>2
  <2>8. body(it, 1 .. m) = body(a, 1 .. m)
    BY <2>6, <2>7 DEF body
  <2>9. QED
    BY <2>3, <2>8
<1>8. it[1 .. n] = a[1 .. n] /\ a[1 .. n] = Total(seq, 1 .. n)
  <2>1. n \in 0 .. n
    OBVIOUS
  <2>2. it[1 .. n] = a[1 .. n]
    BY <1>7, <2>1
  <2>3. QED
    BY <2>2 DEF a
<1>9. QED
  BY <1>5, <1>8

(* f is u at the c positions after a.                                      *)
IsRow(f, a, c, u) == /\ \A i \in 1 .. a + c : f[i] \in Int
                     /\ \A j \in 1 .. c : f[a + j] = u

(* As many equal summands more.                                            *)
LEMMA TotalRow ==
    ASSUME NEW f, NEW a \in Nat, NEW c \in Nat, NEW u \in Int,
           IsRow(f, a, c, u)
    PROVE  Total(f, 1 .. a + c) = Total(f, 1 .. a) + c * u
<1> DEFINE P(m) == Total(f, 1 .. a + m) = Total(f, 1 .. a) + m * u
           C == {m \in 0 .. c : ~P(m)}
<1> SUFFICES ASSUME C # {} PROVE FALSE
  <2>1. c \in 0 .. c
    OBVIOUS
  <2>2. QED
    BY <2>1
<1>0. Total(f, 1 .. a) \in Int
  <2>1. IsFiniteSet(1 .. a) /\ \A i \in 1 .. a : f[i] \in Int
    BY FS_Interval DEF IsRow
  <2>2. QED
    BY <2>1, TotalType
<1> HIDE DEF P
<1>1. PICK m \in C : \A k \in C : m <= k
  <2>1. C \in SUBSET Nat
    OBVIOUS
  <2> HIDE DEF C
  <2>2. QED
    BY <2>1, LeastElement
<1>2. m # 0
  <2>1. P(0)
    BY <1>0 DEF P
  <2>2. QED
    BY <2>1
<1> DEFINE k == m - 1
<1>3. k \in 0 .. c /\ k \in Nat /\ k < m /\ m = k + 1 /\ m \in 1 .. c
  BY <1>2
<1>4. P(k)
  BY <1>1, <1>3
<1> HIDE DEF k, C
<1>5. /\ 1 .. a + m = (1 .. a + k) \cup {a + m} /\ a + m \notin 1 .. a + k
      /\ \A i \in (1 .. a + k) \cup {a + m} : i \in 1 .. a + c
  BY <1>3
<1>50. \A i \in (1 .. a + k) \cup {a + m} : f[i] \in Int
  BY <1>5 DEF IsRow
<1>6. IsFiniteSet(1 .. a + k)
  BY <1>3, FS_Interval
<1>7. Total(f, (1 .. a + k) \cup {a + m}) = Total(f, 1 .. a + k) + f[a + m]
  BY <1>5, <1>50, <1>6, TotalAdd
<1>8. m * u = k * u + u
  BY <1>3
<1>9. k * u \in Int
  BY <1>3
<1>10. f[a + m] = u
  BY <1>3 DEF IsRow
<1>11. P(m)
  <2>1. Total(f, 1 .. a + m) = Total(f, 1 .. a + k) + u
    BY <1>5, <1>7, <1>10
  <2>2. Total(f, 1 .. a + k) = Total(f, 1 .. a) + k * u
    BY <1>4 DEF P
  <2>3. Total(f, 1 .. a + m) = Total(f, 1 .. a) + m * u
    <3> DEFINE ku == k * u
               mu == m * u
    <3>1. ku \in Int /\ mu = ku + u
      BY <1>8, <1>9
    <3> HIDE DEF ku, mu
    <3>2. Total(f, 1 .. a + m) = Total(f, 1 .. a) + mu
      <4>1. Total(f, 1 .. a + k) = Total(f, 1 .. a) + ku
        BY <2>2 DEF ku
      <4>2. QED
        BY <1>0, <2>1, <3>1, <4>1
    <3>3. QED
      BY <3>2 DEF mu
  <2>4. QED
    BY <2>3 DEF P
<1>12. QED
  BY <1>11 DEF C

(* A product divided by a factor is the other factor.                      *)
LEMMA ExactQuotient ==
    ASSUME NEW a \in Nat, NEW b \in Nat \ {0}
    PROVE  (a * b) \div b = a
OBVIOUS

-----------------------------------------------------------------------------
(* The shares of a queue *)

(* The cost of each share of a lot.                                        *)
Unit(lot) == log[lot.at].amt \div log[lot.at].qty

Piece(lot) == [j \in 1 .. lot.qty |-> Unit(lot)]

(* f joins the first sequences of seqs.                                    *)
Joins(f, seqs, n) ==
    f = [i \in 1 .. n |-> IF i = 1 THEN seqs[i] ELSE f[i - 1] \o seqs[i]]

(* There is one for any number of them.                                    *)
LEMMA JoinExists ==
    ASSUME NEW seqs, NEW n \in Nat
    PROVE  \E f : Joins(f, seqs, n)
<1> DEFINE P(m) == \E f : Joins(f, seqs, m)
           C == {m \in 0 .. n : ~P(m)}
<1> SUFFICES ASSUME C # {} PROVE FALSE
  OBVIOUS
<1> HIDE DEF P
<1>1. PICK m \in C : \A k \in C : m <= k
  <2>1. C \in SUBSET Nat
    OBVIOUS
  <2> HIDE DEF C
  <2> QED
    BY <2>1, LeastElement
<1>2. m # 0
  <2> DEFINE f == [i \in 1 .. 0 |-> seqs[i]]
  <2>1. Joins(f, seqs, 0)
    BY DEF Joins
  <2>2. P(0)
    BY <2>1 DEF P
  <2>3. QED
    BY <2>2
<1> DEFINE k == m - 1
<1>3. k \in 0 .. n /\ k < m /\ m \in Nat /\ k \in Nat /\ m = k + 1
  BY <1>2
<1>4. P(k)
  BY <1>1, <1>3
<1> HIDE DEF k, C
<1>5. PICK a : Joins(a, seqs, k)
  BY <1>4 DEF P
<1> DEFINE last == IF m = 1 THEN seqs[m] ELSE a[k] \o seqs[m]
           f == [i \in 1 .. m |-> IF i = m THEN last ELSE a[i]]
           body(g, i) == IF i = 1 THEN seqs[i] ELSE g[i - 1] \o seqs[i]
<1>6. ASSUME NEW i \in 1 .. m
      PROVE  f[i] = body(f, i)
  <2>1. CASE i = m
    <3>1. f[i] = last /\ i - 1 = k
      BY <1>3, <2>1
    <3>2. m # 1 => f[k] = a[k]
      BY <1>3
    <3> HIDE DEF f
    <3>3. QED
      BY <2>1, <3>1, <3>2
  <2>2. CASE i # m
    <3>1. i \in 1 .. k /\ f[i] = a[i] /\ (i # 1 => f[i - 1] = a[i - 1])
      BY <1>3, <2>2
    <3>2. a[i] = body(a, i)
      BY <1>5, <3>1 DEF Joins
    <3> HIDE DEF f
    <3>3. QED
      BY <3>1, <3>2
  <2>3. QED
    BY <2>1, <2>2
<1>7. f = [i \in 1 .. m |-> f[i]]
  OBVIOUS
<1> HIDE DEF f, body
<1>8. f = [i \in 1 .. m |-> body(f, i)]
  BY <1>6, <1>7
<1>9. P(m)
  BY <1>8 DEF P, Joins, body
<1>10. QED
  BY <1>9 DEF C

(* The shares of a queue are those of its lots, one lot after the other.   *)
LEMMA SharesJoin ==
    ASSUME NEW queue \in Seq(Lot), queue # <<>>
    PROVE  \E f : /\ Shares(queue) = f[Len(queue)]
                  /\ f[1] = Piece(queue[1])
                  /\ \A m \in 2 .. Len(queue) :
                        f[m] = f[m - 1] \o Piece(queue[m])
<1> DEFINE n == Len(queue)
           seqs == [i \in DOMAIN queue |->
                      [j \in 1 .. queue[i].qty |->
                          log[queue[i].at].amt \div log[queue[i].at].qty]]
           f == CHOOSE f : f = [i \in 1 .. n |->
                    IF i = 1 THEN seqs[i] ELSE f[i - 1] \o seqs[i]]
<1>1. n \in Nat \ {0} /\ DOMAIN queue = 1 .. n
  BY EmptySeq, LenProperties
<1>2. \A i \in 1 .. n : seqs[i] = Piece(queue[i])
  BY <1>1 DEF Piece, Unit
<1>3. seqs \in [1 .. n -> {Piece(queue[i]) : i \in 1 .. n}]
  BY <1>1 DEF Piece, Unit
<1>4. Len(seqs) = n
  <2> DEFINE S == {Piece(queue[i]) : i \in 1 .. n}
  <2>1. seqs \in Seq(S) /\ DOMAIN seqs = 1 .. n
    <3>1. seqs \in [1 .. n -> S]
      BY <1>3
    <3> HIDE DEF seqs, n, S
    <3>2. n \in Nat
      BY <1>1
    <3>3. QED
      BY <3>1, <3>2
  <2> HIDE DEF seqs, n, S
  <2>2. QED
    BY <1>1, <2>1, LenProperties
<1>5. Shares(queue) = FlattenSeq(seqs)
  BY DEF Shares
<1> HIDE DEF seqs, n
<1>6. FlattenSeq(seqs) = f[n]
  BY <1>1, <1>4, SMTT(30) DEF FlattenSeq
<1>7. Joins(f, seqs, n)
  BY <1>1, JoinExists DEF Joins
<1> HIDE DEF f
<1>8. \A i \in 1 .. n : f[i] = IF i = 1 THEN seqs[i] ELSE f[i - 1] \o seqs[i]
  BY <1>7 DEF Joins
<1>9. f[1] = Piece(queue[1])
  <2>1. 1 \in 1 .. n
    BY <1>1
  <2>2. QED
    BY <1>2, <1>8, <2>1
<1>10. \A m \in 2 .. n : f[m] = f[m - 1] \o Piece(queue[m])
  <2> SUFFICES ASSUME NEW m \in 2 .. n
               PROVE  f[m] = f[m - 1] \o Piece(queue[m])
    OBVIOUS
  <2>1. m \in 1 .. n /\ m # 1
    BY <1>1
  <2>2. seqs[m] = Piece(queue[m])
    BY <1>2, <2>1
  <2>3. f[m] = f[m - 1] \o seqs[m]
    BY <1>8, <2>1
  <2>4. QED
    BY <2>2, <2>3
<1>11. Shares(queue) = f[n]
  BY <1>5, <1>6
<1>12. QED
  BY <1>9, <1>10, <1>11 DEF n

(* The shares of the first m lots.                                         *)
UpTo(queue, m) == Total(QtyOf(queue), 1 .. m)

(* They grow lot by lot.                                                   *)
LEMMA UpToFacts ==
    ASSUME NEW queue \in Seq(Lot)
    PROVE  /\ UpTo(queue, 0) = 0
           /\ \A m \in 1 .. Len(queue) :
                 /\ UpTo(queue, m - 1) \in Nat
                 /\ UpTo(queue, m) = UpTo(queue, m - 1) + queue[m].qty
                 /\ queue[m].qty \in Nat \ {0}
<1>1. UpTo(queue, 0) = 0
  <2>1. 1 .. 0 = {}
    OBVIOUS
  <2>2. QED
    BY <2>1, TotalStep, FS_EmptySet DEF UpTo
<1>2. ASSUME NEW m \in 1 .. Len(queue)
      PROVE  /\ UpTo(queue, m - 1) \in Nat
             /\ UpTo(queue, m) = UpTo(queue, m - 1) + queue[m].qty
             /\ queue[m].qty \in Nat \ {0}
  <2> DEFINE F == QtyOf(queue)
             k == m - 1
  <2>1. /\ Len(queue) \in Nat /\ DOMAIN queue = 1 .. Len(queue)
        /\ \A i \in DOMAIN queue : F[i] = queue[i].qty /\ F[i] \in Nat
    BY QueueFacts
  <2>2. queue[m].qty \in Nat \ {0}
    <3>1. queue[m] \in Lot
      BY ElementOfSeq
    <3>2. QED
      BY <3>1 DEF Lot
  <2> HIDE DEF F
  <2>3. k \in Nat /\ m = k + 1 /\ 1 .. m = (1 .. k) \cup {m} /\ m \notin 1 .. k
    BY <2>1
  <2>4. \A i \in (1 .. k) \cup {m} : F[i] \in Int /\ F[i] >= 0
    BY <2>1, <2>3
  <2> HIDE DEF k
  <2>5. IsFiniteSet(1 .. k)
    BY <2>3, FS_Interval
  <2>6. Total(F, (1 .. k) \cup {m}) = Total(F, 1 .. k) + F[m]
    BY <2>3, <2>4, <2>5, TotalAdd
  <2>7. Total(F, 1 .. k) \in Int /\ Total(F, 1 .. k) >= 0
    BY <2>4, <2>5, TotalType
  <2>8. F[m] = queue[m].qty
    BY <2>1
  <2>9. /\ UpTo(queue, k) \in Nat
        /\ UpTo(queue, m) = UpTo(queue, k) + queue[m].qty
    <3>1. UpTo(queue, k) = Total(F, 1 .. k) /\ UpTo(queue, m) = Total(F, 1 .. m)
      BY DEF UpTo, F
    <3>2. Total(F, 1 .. m) = Total(F, 1 .. k) + F[m]
      BY <2>3, <2>6
    <3>3. QED
      BY <2>7, <2>8, <3>1, <3>2
  <2>10. QED
    BY <2>2, <2>9 DEF k
<1>3. QED
  BY <1>1, <1>2

(* A lot's shares all cost the same.                                       *)
LEMMA PieceFacts ==
    ASSUME NEW lot \in Lot, Unit(lot) \in Nat
    PROVE  /\ Piece(lot) \in Seq(Nat) /\ Len(Piece(lot)) = lot.qty
           /\ \A j \in 1 .. lot.qty : Piece(lot)[j] = Unit(lot)
<1> DEFINE q == lot.qty
           u == Unit(lot)
           piece == [j \in 1 .. q |-> u]
<1>1. q \in Nat /\ u \in Nat
  BY DEF Lot
<1> HIDE DEF q, u
<1>2. piece \in [1 .. q -> Nat]
  BY <1>1
<1>3. piece \in Seq(Nat) /\ DOMAIN piece = 1 .. q
  BY <1>1, <1>2
<1>4. Len(piece) = q
  <2> HIDE DEF piece
  <2>1. QED
    BY <1>1, <1>3, LenProperties
<1>5. \A j \in 1 .. q : piece[j] = u
  OBVIOUS
<1>6. QED
  BY <1>3, <1>4, <1>5 DEF Piece, q, u

(* The shares of a lot follow those of the lots before it, and all of them *)
(* are there.                                                              *)
LEMMA SharesFacts ==
    ASSUME NEW queue \in Seq(Lot), queue # <<>>,
           \A i \in 1 .. Len(queue) : Unit(queue[i]) \in Nat
    PROVE  /\ Shares(queue) \in Seq(Nat)
           /\ Len(Shares(queue)) = UpTo(queue, Len(queue))
           /\ \A i \in 1 .. Len(queue) : \A j \in 1 .. queue[i].qty :
                 Shares(queue)[UpTo(queue, i - 1) + j] = Unit(queue[i])
<1> DEFINE n == Len(queue)
           at(i) == UpTo(queue, i)
<1>1. PICK f : /\ Shares(queue) = f[n]
               /\ f[1] = Piece(queue[1])
               /\ \A m \in 2 .. n : f[m] = f[m - 1] \o Piece(queue[m])
  BY SharesJoin
<1>2. n \in Nat \ {0}
  BY EmptySeq, LenProperties
<1>3. \A i \in 1 .. n : /\ at(i - 1) \in Nat /\ at(i) = at(i - 1) + queue[i].qty
                        /\ queue[i].qty \in Nat \ {0} /\ at(i) \in Nat
  BY UpToFacts
<1>4. \A i \in 1 .. n : /\ Piece(queue[i]) \in Seq(Nat)
                        /\ Len(Piece(queue[i])) = queue[i].qty
                        /\ \A j \in 1 .. queue[i].qty :
                              Piece(queue[i])[j] = Unit(queue[i])
  <2> SUFFICES ASSUME NEW i \in 1 .. n
               PROVE  /\ Piece(queue[i]) \in Seq(Nat)
                      /\ Len(Piece(queue[i])) = queue[i].qty
                      /\ \A j \in 1 .. queue[i].qty :
                            Piece(queue[i])[j] = Unit(queue[i])
    OBVIOUS
  <2>1. queue[i] \in Lot
    BY ElementOfSeq
  <2>2. QED
    BY <2>1, PieceFacts
<1>5. at(0) = 0
  BY UpToFacts
<1> DEFINE P(m) == /\ f[m] \in Seq(Nat) /\ Len(f[m]) = at(m)
                   /\ \A i \in 1 .. m : /\ at(i) <= at(m)
                                        /\ \A j \in 1 .. queue[i].qty :
                                              f[m][at(i - 1) + j] = Unit(queue[i])
           C == {m \in 1 .. n : ~P(m)}
<1>6. C = {}
  <2> SUFFICES ASSUME C # {} PROVE FALSE
    OBVIOUS
  <2> HIDE DEF P, n
  <2>1. PICK m \in C : \A k \in C : m <= k
    <3>1. C \in SUBSET Nat
      BY <1>2
    <3> HIDE DEF C
    <3>2. QED
      BY <3>1, LeastElement
  <2> HIDE DEF at
  <2>2. m \in 1 .. n /\ m \in Nat /\ ~P(m)
    BY <1>2
  <2>3. CASE m = 1
    <3>1. at(1) = queue[1].qty /\ at(0) = 0 /\ 1 \in 1 .. n /\ queue[1].qty \in Nat
      BY <1>3, <1>5, <2>2, <2>3
    <3>2. f[1] \in Seq(Nat) /\ Len(f[1]) = at(1)
      BY <1>1, <1>4, <3>1
    <3>3. \A j \in 1 .. queue[1].qty : f[1][at(0) + j] = Unit(queue[1])
      BY <1>1, <1>4, <3>1
    <3>4. \A i \in 1 .. 1 : i = 1 /\ i - 1 = 0
      OBVIOUS
    <3>5. at(1) <= at(1)
      BY <3>1
    <3>6. P(1)
      BY <3>2, <3>3, <3>4, <3>5 DEF P
    <3>7. QED
      BY <2>2, <2>3, <3>6
  <2>4. CASE m # 1
    <3> DEFINE k == m - 1
    <3>1. /\ k \in 1 .. n /\ k < m /\ m = k + 1 /\ m \in 2 .. n /\ k \in Nat
          /\ \A i \in 1 .. m : i = m \/ i \in 1 .. k
      BY <1>2, <2>2, <2>4
    <3>2. P(k)
      BY <2>1, <3>1
    <3>3. f[m] = f[k] \o Piece(queue[m])
      BY <1>1, <3>1
    <3>4. /\ at(k) \in Nat /\ at(m) = at(k) + queue[m].qty
          /\ queue[m].qty \in Nat \ {0}
      BY <1>3, <2>2
    <3> HIDE DEF k
    <3>5. f[k] \in Seq(Nat) /\ Len(f[k]) = at(k)
      BY <3>2 DEF P
    <3>6. /\ Piece(queue[m]) \in Seq(Nat) /\ Len(Piece(queue[m])) = queue[m].qty
          /\ \A j \in 1 .. queue[m].qty : Piece(queue[m])[j] = Unit(queue[m])
      BY <1>4, <2>2
    <3>7. /\ f[m] \in Seq(Nat) /\ Len(f[m]) = at(m)
          /\ \A p \in 1 .. at(m) :
                f[m][p] = IF p <= at(k) THEN f[k][p]
                          ELSE Piece(queue[m])[p - at(k)]
      <4> DEFINE a == f[k]
                 b == Piece(queue[m])
      <4>1. a \in Seq(Nat) /\ b \in Seq(Nat) /\ f[m] = a \o b
        BY <3>3, <3>5, <3>6
      <4>2. Len(a) = at(k) /\ Len(b) = queue[m].qty
        BY <3>5, <3>6
      <4> HIDE DEF a, b
      <4>3. /\ a \o b \in Seq(Nat) /\ Len(a \o b) = Len(a) + Len(b)
            /\ \A p \in 1 .. Len(a) + Len(b) :
                  (a \o b)[p] = IF p <= Len(a) THEN a[p] ELSE b[p - Len(a)]
        BY <4>1, ConcatProperties
      <4>4. /\ f[m] \in Seq(Nat) /\ Len(f[m]) = at(m)
            /\ \A p \in 1 .. at(m) :
                  f[m][p] = IF p <= at(k) THEN a[p] ELSE b[p - at(k)]
        BY <3>4, <4>1, <4>2, <4>3
      <4>5. QED
        BY <4>4 DEF a, b
    <3>8. ASSUME NEW i \in 1 .. m, NEW j \in 1 .. queue[i].qty
          PROVE  f[m][at(i - 1) + j] = Unit(queue[i])
      <4>1. CASE i = m
        <5>1. i - 1 = k
          BY <3>1, <4>1
        <5>2. /\ at(k) + j \in 1 .. at(m) /\ ~(at(k) + j <= at(k))
              /\ (at(k) + j) - at(k) = j
          BY <3>4, <4>1
        <5>3. QED
          BY <3>6, <3>7, <4>1, <5>1, <5>2
      <4>2. CASE i \in 1 .. k
        <5>1. /\ at(i) <= at(k) /\ f[k][at(i - 1) + j] = Unit(queue[i])
          BY <3>2, <4>2 DEF P
        <5>2. /\ at(i - 1) \in Nat /\ at(i) = at(i - 1) + queue[i].qty
              /\ queue[i].qty \in Nat
          <6>1. i \in 1 .. n
            BY <1>2, <3>1, <4>2
          <6>2. QED
            BY <1>3, <6>1
        <5>3. at(i - 1) + j \in 1 .. at(m) /\ at(i - 1) + j <= at(k)
          <6> DEFINE x == at(i - 1) + j
          <6>1. x \in Nat /\ x >= 1 /\ x <= at(i)
            BY <5>2
          <6>2. at(i) \in Nat /\ at(m) >= at(k)
            BY <3>4, <5>2, SMTT(30)
          <6> HIDE DEF x
          <6>3. x \in 1 .. at(m) /\ x <= at(k)
            BY <3>4, <5>1, <6>1, <6>2, SMTT(30)
          <6>4. QED
            BY <6>3 DEF x
        <5>4. QED
          BY <3>7, <5>1, <5>3
      <4>3. QED
        BY <3>1, <4>1, <4>2
    <3>9. ASSUME NEW i \in 1 .. m PROVE at(i) <= at(m)
      <4>1. CASE i = m
        BY <3>4, <4>1
      <4>2. CASE i \in 1 .. k
        <5>1. at(i) <= at(k)
          BY <3>2, <4>2 DEF P
        <5>2. at(i) \in Nat
          <6>1. i \in 1 .. n
            BY <1>2, <3>1, <4>2
          <6>2. QED
            BY <1>3, <6>1
        <5>3. QED
          BY <3>4, <5>1, <5>2
      <4>3. QED
        BY <3>1, <4>1, <4>2
    <3>10. P(m)
      BY <3>7, <3>8, <3>9 DEF P
    <3>11. QED
      BY <2>2, <3>10
  <2>5. QED
    BY <2>3, <2>4
<1>7. P(n)
  <2> HIDE DEF P
  <2>1. n \in 1 .. n
    BY <1>2
  <2>2. QED
    BY <1>6, <2>1
<1>8. QED
  BY <1>1, <1>7

-----------------------------------------------------------------------------
(* A simulated sale *)

(* Products of factors that are compared.                                  *)
LEMMA ProductOrder ==
    ASSUME NEW p \in Nat \ {0}, NEW a \in Nat, NEW b \in Nat
    PROVE  /\ p * a \in Nat /\ p * b \in Nat
           /\ p * a <= p * b <=> a <= b
           /\ p * a <= 0 <=> a = 0
OBVIOUS

(* A lot gives up as many shares as are still to be sold, or all it has,   *)
(* each at its cost: by value is by quantity if no cost is rounded.        *)
LEMMA LotStep ==
    ASSUME NEW lot \in Lot, NEW price \in Nat \ {0}, NEW o \in Nat \ {0},
           NEW c \in Int, NEW u \in Nat, CostOf(lot) = lot.qty * u
    PROVE  LET t == IF o <= lot.qty THEN o ELSE lot.qty
           IN  SimLot([left |-> price * o, cost |-> c], lot, price)
                 = [left |-> price * (o - t), cost |-> c + t * u]
<1> DEFINE q == lot.qty
           t == IF o <= q THEN o ELSE q
           left == price * o
           value == q * price
           part == Min({left, value})
<1>1. q \in Nat \ {0}
  BY DEF Lot
<1> HIDE DEF q
<1>2. t \in Nat /\ t <= o
  BY <1>1
<1>3. value = price * q /\ value \in Nat /\ left \in Nat
  BY <1>1
<1>4. part = price * t
  <2>1. left <= value <=> o <= q
    BY <1>1, <1>3, ProductOrder
  <2>2. part = IF left <= value THEN left ELSE value
    <3> HIDE DEF left, value
    <3>1. QED
      BY <1>3, SmallerIs
  <2>3. QED
    BY <1>3, <2>1, <2>2
<1>5. ~(left <= 0)
  BY ProductOrder
<1>6. left - part = price * (o - t)
  <2>1. price * (o - t) = price * o - price * t
    BY <1>2
  <2>2. QED
    BY <1>4, <2>1
<1>7. (part * CostOf(lot)) \div value = t * u
  <2>1. part * CostOf(lot) = (t * u) * value
    <3>1. (price * t) * (q * u) = (t * u) * (q * price)
      BY <1>1, <1>2
    <3>2. QED
      BY <1>4, <3>1 DEF q
  <2>2. t * u \in Nat /\ value # 0
    <3>1. value # 0
      BY <1>1
    <3>2. QED
      BY <1>2, <3>1
  <2> DEFINE a == t * u
  <2> HIDE DEF a, value, t
  <2>3. (a * value) \div value = a
    <3>1. a \in Nat
      BY <2>2 DEF a
    <3>2. QED
      BY <1>3, <2>2, <3>1, ExactQuotient
  <2>4. QED
    BY <2>1, <2>3 DEF a
<1> DEFINE sim == [left |-> left, cost |-> c]
<1>8. SimLot(sim, lot, price) = [left |-> left - part, cost |-> c + (part * CostOf(lot)) \div value]
  <2>1. sim.left = left /\ sim.cost = c
    OBVIOUS
  <2> HIDE DEF left, sim
  <2>2. QED
    BY <1>5, <2>1 DEF SimLot, q
<1>9. SimLot(sim, lot, price) = [left |-> price * (o - t), cost |-> c + t * u]
  <2> HIDE DEF sim, left, part, value, t
  <2>1. QED
    BY <1>6, <1>7, <1>8
<1>10. QED
  BY <1>9 DEF q

(* No lot of a queue was bought at a price that its shares do not divide.  *)
Divided(queue) ==
    \A i \in 1 .. Len(queue) :
        Unit(queue[i]) \in Nat /\ CostOf(queue[i]) = queue[i].qty * Unit(queue[i])

(* The shares of a queue cost what the first of them do together, whether  *)
(* they are counted one by one or sold by value.                           *)
LEMMA SimulatedIs ==
    ASSUME NEW queue \in Seq(Lot), queue # <<>>, NEW price \in Nat \ {0},
           Divided(queue), NEW k \in 1 .. Len(Shares(queue))
    PROVE  SimulateSell(queue, price, price * k)
             = [left |-> 0, cost |-> Total(Shares(queue), 1 .. k)]
<1> DEFINE n == Len(queue)
           sh == Shares(queue)
           at(i) == UpTo(queue, i)
           took(i) == IF at(i) <= k THEN at(i) ELSE k
           sim(i) == [left |-> price * (k - took(i)), cost |-> Total(sh, 1 .. took(i))]
<1>1. n \in Nat \ {0} /\ DOMAIN queue = 1 .. n
  BY EmptySeq, LenProperties
<1>2. PICK it : /\ SimulateSell(queue, price, price * k) = it[1 .. n]
                /\ it[{}] = [left |-> price * k, cost |-> 0]
                /\ \A m \in 1 .. n :
                      it[1 .. m] = SimLot(it[1 .. m - 1], queue[m], price)
  <2> DEFINE amount == price * k
  <2> HIDE DEF amount, n, sh, at, took, sim
  <2>1. n \in Nat
    BY <1>1
  <2>2. \E it : /\ SimulateSell(queue, price, amount) = it[1 .. n]
                /\ it[{}] = [left |-> amount, cost |-> 0]
                /\ \A m \in 1 .. n :
                      it[1 .. m] = SimLot(it[1 .. m - 1], queue[m], price)
    BY <1>1, <2>1, SimulateIs
  <2>3. QED
    BY <2>2 DEF amount
<1>3. /\ sh \in Seq(Nat) /\ Len(sh) = at(n)
      /\ \A i \in 1 .. n : \A j \in 1 .. queue[i].qty :
            sh[at(i - 1) + j] = Unit(queue[i])
  BY SharesFacts DEF Divided
<1>4. \A i \in 1 .. n : /\ at(i - 1) \in Nat /\ at(i) = at(i - 1) + queue[i].qty
                        /\ queue[i].qty \in Nat \ {0}
  BY UpToFacts
<1>5. at(0) = 0
  BY UpToFacts
<1>6. Len(sh) \in Nat /\ k \in Nat /\ k <= Len(sh) /\ \A i \in 1 .. Len(sh) : sh[i] \in Nat
  <2>1. Len(sh) \in Nat /\ \A i \in 1 .. Len(sh) : sh[i] \in Nat
    <3> HIDE DEF sh
    <3>1. QED
      BY <1>3, LenProperties, ElementOfSeq
  <2>2. QED
    BY <2>1
<1>7. \A a \in 0 .. k : Total(sh, 1 .. a) \in Int
  <2> SUFFICES ASSUME NEW a \in 0 .. k PROVE Total(sh, 1 .. a) \in Int
    OBVIOUS
  <2> HIDE DEF sh
  <2>1. IsFiniteSet(1 .. a) /\ \A x \in 1 .. a : sh[x] \in Int
    <3>1. IsFiniteSet(1 .. a)
      BY FS_Interval
    <3>2. \A x \in 1 .. a : x \in 1 .. Len(sh)
      BY <1>6
    <3>3. QED
      BY <1>6, <3>1, <3>2
  <2>2. QED
    BY <2>1, TotalType
<1> HIDE DEF n, sh, at
<1> DEFINE P(m) == it[1 .. m] = sim(m)
           C == {m \in 0 .. n : ~P(m)}
<1>8. C = {}
  <2> SUFFICES ASSUME C # {} PROVE FALSE
    OBVIOUS
  <2> HIDE DEF P
  <2>1. PICK m \in C : \A i \in C : m <= i
    <3>1. C \in SUBSET Nat
      BY <1>1
    <3> HIDE DEF C
    <3>2. QED
      BY <3>1, LeastElement
  <2>2. m # 0
    <3>1. 1 .. 0 = {} /\ took(0) = 0
      BY <1>5, <1>6
    <3>2. Total(sh, 1 .. 0) = 0
      BY <3>1, TotalStep, FS_EmptySet
    <3>3. price * (k - 0) = price * k
      BY <1>6
    <3> HIDE DEF took
    <3>4. P(0)
      BY <1>2, <3>1, <3>2, <3>3 DEF P
    <3>5. QED
      BY <3>4
  <2> DEFINE r == m - 1
             lot == queue[m]
             o == k - took(r)
             u == Unit(lot)
             t == IF o <= lot.qty THEN o ELSE lot.qty
  <2>3. r \in 0 .. n /\ r < m /\ m \in 1 .. n
    BY <1>1, <2>2
  <2>4. P(r) /\ ~P(m)
    BY <2>1, <2>3
  <2>5. it[1 .. m] = SimLot(sim(r), lot, price)
    BY <1>2, <2>3, <2>4 DEF P
  <2>6. /\ at(r) \in Nat /\ at(m) = at(r) + lot.qty
        /\ lot.qty \in Nat \ {0}
    BY <1>4, <2>3
  <2>7. lot \in Lot /\ u \in Nat /\ CostOf(lot) = lot.qty * u
    <3>1. queue[m] \in Lot
      BY <2>3, ElementOfSeq DEF n
    <3>2. QED
      BY <2>3, <3>1 DEF n, Divided
  <2> HIDE DEF r, u, lot
  <2>8. took(r) \in 0 .. k /\ took(m) \in 0 .. k
    BY <1>6, <2>6
  <2>9. CASE at(r) >= k
    <3>1. took(r) = k /\ took(m) = k
      BY <1>6, <2>6, <2>9
    <3> HIDE DEF took
    <3>2. price * (k - k) = 0
      BY <1>6
    <3>3. sim(r) = sim(m) /\ sim(r).left = 0
      BY <3>1, <3>2
    <3> HIDE DEF sim
    <3>4. SimLot(sim(r), lot, price) = sim(r)
      BY <3>3 DEF SimLot
    <3>5. P(m)
      BY <2>5, <3>3, <3>4 DEF P
    <3>6. QED
      BY <2>4, <3>5
  <2>10. CASE at(r) < k
    <3>1. /\ took(r) = at(r) /\ o \in Nat \ {0} /\ t \in Nat /\ t <= lot.qty
          /\ took(m) = at(r) + t /\ k - took(m) = o - t /\ o = k - at(r)
      BY <1>6, <2>6, <2>10, SMTT(30)
    <3> DEFINE c == Total(sh, 1 .. at(r))
    <3>2. c \in Int
      BY <1>7, <2>8, <3>1
    <3>3. Total(sh, 1 .. at(r) + t) = c + t * u
      <4>1. \A i \in 1 .. at(r) + t : sh[i] \in Int
        <5> HIDE DEF t
        <5>1. at(r) + t <= Len(sh)
          BY <1>6, <2>8, <3>1
        <5>2. \A i \in 1 .. at(r) + t : i \in 1 .. Len(sh)
          BY <1>6, <2>6, <3>1, <5>1
        <5>3. QED
          BY <1>6, <5>2
      <4>2. \A j \in 1 .. t : sh[at(r) + j] = u
        <5>1. \A j \in 1 .. lot.qty : sh[at(r) + j] = u
          BY <1>3, <2>3 DEF lot, u, r
        <5>2. \A j \in 1 .. t : j \in 1 .. lot.qty
          BY <2>6, <3>1
        <5>3. QED
          BY <5>1, <5>2
      <4> DEFINE a == at(r)
      <4>3. a \in Nat /\ t \in Nat /\ u \in Int
        BY <2>6, <2>7, <3>1
      <4> HIDE DEF t, a, o, c, C, sim, took
      <4>4. IsRow(sh, a, t, u)
        BY <4>1, <4>2 DEF a, IsRow
      <4>5. Total(sh, 1 .. a + t) = Total(sh, 1 .. a) + t * u
        BY <4>3, <4>4, TotalRow
      <4>6. QED
        BY <4>5 DEF a, c
    <3>4. SimLot([left |-> price * o, cost |-> c], lot, price)
            = [left |-> price * (o - t), cost |-> c + t * u]
      <4>1. price \in Int /\ o \in Nat \ {0} /\ c \in Int
        BY <2>7, <3>1, <3>2
      <4> HIDE DEF c, o, u, lot, C, sim, took, at, P
      <4>2. QED
        BY <2>7, <3>1, <3>2, <4>1, LotStep
    <3> HIDE DEF o, t, took
    <3>5. sim(r) = [left |-> price * o, cost |-> c]
      BY <3>1
    <3>6. sim(m) = [left |-> price * (o - t), cost |-> c + t * u]
      BY <3>1, <3>3
    <3> HIDE DEF sim, c
    <3>7. P(m)
      BY <2>5, <3>4, <3>5, <3>6 DEF P
    <3>8. QED
      BY <2>4, <3>7
  <2>11. QED
    BY <1>6, <2>6, <2>9, <2>10
<1>9. it[1 .. n] = sim(n)
  <2>1. n \in 0 .. n
    BY <1>1
  <2> HIDE DEF sim
  <2>2. QED
    BY <1>8, <2>1
<1>10. took(n) = k /\ price * (k - k) = 0
  <2>1. at(n) = Len(sh)
    BY <1>3
  <2>2. QED
    BY <1>6, <2>1
<1> HIDE DEF took
<1>11. sim(n) = [left |-> 0, cost |-> Total(sh, 1 .. k)]
  BY <1>10
<1>12. QED
  BY <1>2, <1>9, <1>11 DEF sh

-----------------------------------------------------------------------------
(* Simulated and real sales *)

(* The shares of every purchase divide what they cost.                     *)
SharesDivide ==
    \A t \in Menu : t.type \in In /\ t.qty > 0 =>
                        \E u \in Nat : t.amt = t.qty * u

(* So it is in the log.                                                    *)
LogDivides ==
    \A k \in DOMAIN log : log[k].type \in In /\ log[k].qty > 0 =>
                              \E u \in Nat : log[k].amt = log[k].qty * u

(* Steps record what is on the menu, or nothing.                           *)
LEMMA LogDividesStays ==
    ASSUME SharesDivide, TypeOK, LogDivides, [Next]_vars
    PROVE  LogDivides'
<1>1. ASSUME NEW t \in Menu, Record(t)
      PROVE  LogDivides'
  <2> DEFINE u == [type |-> t.type, sec |-> t.sec, account |-> t.account,
                   qty |-> t.qty, amt |-> t.amt, year |-> year]
  <2>1. log' = Append(log, u) /\ log \in Seq(Txn)
    BY <1>1 DEF Record, TypeOK
  <2>2. u.type = t.type /\ u.qty = t.qty /\ u.amt = t.amt
    OBVIOUS
  <2>3. u \in Txn
    <3>1. t \in Entry /\ year \in Year
      BY <1>1, TaxAssumption DEF Record, TypeOK, Year
    <3>2. QED
      BY <3>1 DEF Entry, Txn
  <2> HIDE DEF u
  <2>4. /\ Len(log) \in Nat /\ DOMAIN log = 1 .. Len(log)
        /\ DOMAIN log' = 1 .. Len(log) + 1
        /\ \A k \in 1 .. Len(log) : log'[k] = log[k]
        /\ log'[Len(log) + 1] = u
    BY <2>1, <2>3, AppendProperties, LenProperties
  <2>5. ASSUME NEW k \in DOMAIN log', log'[k].type \in In, log'[k].qty > 0
        PROVE  \E v \in Nat : log'[k].amt = log'[k].qty * v
    <3>1. CASE k \in DOMAIN log
      BY <2>4, <2>5, <3>1 DEF LogDivides
    <3>2. CASE k = Len(log) + 1
      BY <2>2, <2>4, <2>5, <3>2 DEF SharesDivide
    <3>3. QED
      BY <2>4, <3>1, <3>2
  <2>6. QED
    BY <2>5 DEF LogDivides
<1>2. CASE log' = log
  BY <1>2, Zenon DEF LogDivides
<1>3. log' = log \/ \E t \in Menu : Record(t)
  BY DEF Next, vars, Acquire, Sell, TransferOut, Income, ConsumeLot, EndSale, CloseYear
<1>4. QED
  BY <1>1, <1>2, <1>3

(* What lots cost is then not rounded.                                     *)
LEMMA LotsDivided ==
    ASSUME LotInv, LogDivides, NEW s \in Sec
    PROVE  /\ lots[s] \in Seq(Lot)
           /\ Divided(lots[s])
<1> DEFINE queue == lots[s]
<1>1. queue \in Seq(Lot) /\ log \in Seq(Txn)
  BY DEF LotInv, TypeOK
<1>2. Newest(queue, log, s)
  BY DEF LotInv, LotsAreNewest
<1> HIDE DEF queue
<1>3. ASSUME NEW i \in 1 .. Len(queue)
      PROVE  /\ Unit(queue[i]) \in Nat
             /\ CostOf(queue[i]) = queue[i].qty * Unit(queue[i])
  <2> DEFINE lot == queue[i]
             at == lot.at
             Q == log[at].qty
             x == log[at].amt
             q == lot.qty
  <2>1. i \in DOMAIN queue
    BY <1>1, LenProperties
  <2>2. lot \in Lot
    BY <1>1, ElementOfSeq
  <2>3. at \in DOMAIN log /\ log[at].type \in In /\ Q > 0
    BY <1>2, <2>1 DEF Newest, Purchases
  <2>4. Q \in Nat /\ q \in Nat
    <3>1. log[at] \in Txn
      BY <1>1, <2>3, LenProperties, ElementOfSeq
    <3>2. QED
      BY <2>2, <3>1 DEF Txn, Lot
  <2>5. PICK u \in Nat : x = Q * u
    BY <2>3 DEF LogDivides
  <2> HIDE DEF Q, x, q
  <2>6. Q \in Nat \ {0}
    BY <2>3, <2>4
  <2>7. x = u * Q /\ q * x = (q * u) * Q /\ q * u \in Nat
    BY <2>4, <2>5
  <2>8. x \div Q = u
    BY <2>6, <2>7, ExactQuotient
  <2>9. (q * x) \div Q = q * u
    <3> DEFINE a == q * u
               b == q * x
    <3>1. a \in Nat /\ b = a * Q
      BY <2>7
    <3> HIDE DEF a, b
    <3>2. b \div Q = a
      BY <2>6, <3>1, ExactQuotient
    <3>3. QED
      BY <3>2 DEF a, b
  <2>10. Unit(lot) = u /\ CostOf(lot) = q * u
    BY <2>8, <2>9 DEF Unit, CostOf, Q, x, q
  <2>11. QED
    BY <2>10 DEF q
<1>4. QED
  BY <1>1, <1>3 DEF Divided, queue

(* An empty queue has no shares.                                           *)
LEMMA NoShares ==
    ASSUME NEW queue, queue = <<>>
    PROVE  Len(Shares(queue)) = 0
<1> DEFINE seqs == [i \in DOMAIN queue |->
                      [j \in 1 .. queue[i].qty |->
                          log[queue[i].at].amt \div log[queue[i].at].qty]]
<1>1. seqs = <<>>
  OBVIOUS
<1>2. Shares(queue) = FlattenSeq(seqs)
  BY DEF Shares
<1> HIDE DEF seqs
<1>3. FlattenSeq(seqs) = <<>>
  BY <1>1 DEF FlattenSeq
<1>4. QED
  BY <1>2, <1>3

(* A sale that is simulated costs what the shares it takes did.            *)
LEMMA AgreesImplies ==
    ASSUME LotInv, LogDivides
    PROVE  SimulationAgrees
<1> SUFFICES ASSUME NEW s \in Sec, NEW price \in 1 .. 3,
                    NEW k \in 1 .. Len(Shares(lots[s]))
             PROVE  LET sim == SimulateSell(lots[s], price, price * k)
                    IN  /\ sim.left = 0
                        /\ sim.cost = FoldLeft(LAMBDA sum, c : sum + c, 0,
                                               SubSeq(Shares(lots[s]), 1, k))
  BY DEF SimulationAgrees
<1> DEFINE queue == lots[s]
           sh == Shares(queue)
           sub == SubSeq(sh, 1, k)
<1>1. queue \in Seq(Lot) /\ Divided(queue)
  BY LotsDivided
<1> HIDE DEF queue
<1>2. queue # <<>>
  <2>1. 1 .. 0 = {}
    OBVIOUS
  <2>2. QED
    BY <2>1, NoShares DEF queue
<1>3. k \in 1 .. Len(Shares(queue))
  BY DEF queue
<1>4. SimulateSell(queue, price, price * k)
        = [left |-> 0, cost |-> Total(sh, 1 .. k)]
  <2>1. price \in Nat \ {0}
    OBVIOUS
  <2>2. SimulateSell(queue, price, price * k)
          = [left |-> 0, cost |-> Total(Shares(queue), 1 .. k)]
    BY <1>1, <1>2, <1>3, <2>1, SimulatedIs
  <2>3. QED
    BY <2>2
<1>5. sh \in Seq(Nat)
  BY <1>1, <1>2, SharesFacts DEF Divided
<1> HIDE DEF sh
<1>6. k \in Nat /\ k \in 1 .. Len(sh) /\ Len(sh) \in Nat /\ DOMAIN sh = 1 .. Len(sh)
  BY <1>3, <1>5, LenProperties DEF sh
<1>7. DOMAIN sub = 1 .. k /\ \A i \in 1 .. k : sub[i] = sh[i] /\ sub[i] \in Int
  <2>1. \A i \in 1 .. k : i \in 1 .. Len(sh)
    BY <1>6
  <2>2. \A i \in 1 .. k : sh[i] \in Int
    BY <1>5, <2>1, ElementOfSeq
  <2>3. DOMAIN sub = 1 .. k /\ \A i \in 1 .. k : sub[i] = sh[i]
    BY <1>5, <1>6
  <2>4. QED
    BY <2>2, <2>3
<1> HIDE DEF sub
<1>8. FoldLeft(LAMBDA sum, c : sum + c, 0, sub) = Total(sub, 1 .. k)
  BY <1>6, <1>7, SumIs
<1>9. Total(sub, 1 .. k) = Total(sh, 1 .. k)
  <2>1. IsFiniteSet(1 .. k)
    BY <1>6, FS_Interval
  <2>2. QED
    BY <1>7, <2>1, TotalSame
<1> DEFINE sim == SimulateSell(queue, price, price * k)
<1>10. sim.left = 0 /\ sim.cost = FoldLeft(LAMBDA sum, c : sum + c, 0, sub)
  <2>1. sim = [left |-> 0, cost |-> Total(sh, 1 .. k)]
    BY <1>4
  <2> HIDE DEF sim
  <2>2. sim.left = 0 /\ sim.cost = Total(sh, 1 .. k)
    BY <2>1
  <2>3. QED
    BY <1>8, <1>9, <2>2
<1>11. QED
  BY <1>10 DEF queue, sh, sub

(* The simulator, which sells by value and stops within a lot, gives up    *)
(* the shares a sale takes off the queue, at what each of them cost, for   *)
(* any transactions whose purchases are of whole prices (tax.go:241-337).  *)
THEOREM SimulationSafe ==
    ASSUME SharesDivide
    PROVE  Spec => []SimulationAgrees
<1>1. Init => LogDivides
  BY DEF Init, LogDivides
<1>2. LotInv /\ LogDivides /\ [Next]_vars => LogDivides'
  BY LogDividesStays DEF LotInv
<1>3. LotInv /\ LogDivides => SimulationAgrees
  BY AgreesImplies
<1>4. QED
  BY <1>1, <1>2, <1>3, LotInvInductive, PTL DEF Spec
=============================================================================
