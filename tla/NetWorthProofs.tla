--------------------------- MODULE NetWorthProofs ---------------------------
(***************************************************************************)
(* The net worth history keeps its types, never looks ahead, and is        *)
(* repaired by a replay nothing interferes with, for any goroutines,       *)
(* days, accounts and transactions.                                        *)
(***************************************************************************)
EXTENDS NetWorth, WellFoundedInduction, TLAPS

LEMMA LeastNatural ==
    ASSUME NEW S \in SUBSET Nat, S # {}
    PROVE  \E m \in S : \A n \in S : m <= n
<1> DEFINE R == {ss \in Nat \X Nat : ss[1] < ss[2]}
<1>1. IsWellFoundedOn(R, Nat)
  BY NatLessThanWellFounded DEF OpToRel
<1>2. PICK m \in S : \A n \in S : <<n, m>> \notin R
  <2> HIDE DEF R
  <2> QED
    BY <1>1, WFMin
<1>3. \A n \in S : ~ (n < m)
  BY <1>2
<1> QED
  BY <1>3

LEMMA FirstDay ==
    ASSUME NEW txns \in SUBSET Txn, txns # {}
    PROVE  First(txns) \in Day /\ \A t \in txns : First(txns) <= DayOf[t]
<1> DEFINE days == {DayOf[t] : t \in txns}
<1>1. days \in SUBSET Nat /\ days # {} /\ days \subseteq Day
  BY NetWorthAssumption DEF Day
<1>2. PICK d \in days : \A e \in days : d <= e
  BY <1>1, LeastNatural
<1>3. \A t \in txns : d <= DayOf[t]
  BY <1>2
<1>4. First(txns) \in days /\ \A t \in txns : First(txns) <= DayOf[t]
  BY <1>2, <1>3 DEF First
<1> QED
  BY <1>1, <1>4

(* What a goroutine's replay is at any time. *)
ReplayOK(r) ==
    \/ r = Idle \/ r = Importing \/ r = Reading
    \/ r \in [phase : {"market"}, log : (SUBSET Txn) \ {{}}]
    \/ /\ r \in [phase : {"days"}, log : (SUBSET Txn) \ {{}}, market : SUBSET Source,
                 day : Day, end : Day]
       /\ First(r.log) <= r.day /\ r.day <= r.end /\ r.end < today

LiveOK ==
    \/ live = Idle
    \/ live \in [phase : {"cash"}, cash : SUBSET Known(today)]
    \/ /\ live \in [phase : {"date"}, snap : Snapshot]
       /\ live.snap.cash \cup live.snap.held \subseteq Known(today)
    \/ /\ live \in [phase : {"store"}, snap : Snapshot, date : Day]
       /\ live.snap.cash \cup live.snap.held \subseteq Known(live.date)
       /\ live.date <= today

(* What the tables hold is there by today.                                 *)
LogOK ==
    /\ log \cup view \subseteq Known(today)
    /\ \A t \in Txn : arrived[t] \in {NoDay} \cup 0 .. today

HistoryInv ==
    /\ TypeOK
    /\ LogOK
    /\ \A w \in Worker : ReplayOK(replay[w])
    /\ LiveOK
    /\ NoLookAhead

(* The replay works on what the tables say. *)
Current(r) ==
    /\ r.phase \in {"market", "days"} => r.log = log
    /\ r.phase = "days" => r.market = market

Written(r) == r.phase = "days" => \A d \in First(log) .. r.day - 1 : Exact(d)

SettledInv ==
    /\ \A w \in alone :
          /\ Current(replay[w])
          /\ Written(replay[w])
          /\ \A v \in Worker \ {w} : replay[v] = Idle
    /\ settled # NoDay =>
          /\ settled < today
          /\ \A w \in Worker : Current(replay[w])
          /\ \A d \in First(log) .. settled : Exact(d)

LEMMA HistoryInitial == Init => HistoryInv
<1> SUFFICES ASSUME Init PROVE HistoryInv
  OBVIOUS
<1> USE NetWorthAssumption
<1>1. TypeOK
  <2>1. snaps \in [Day -> Snapshot \cup {NoSnap}]
    BY DEF Init, ValueAt, Upto, Snapshot
  <2>2. /\ market \subseteq Source /\ log \subseteq Txn /\ view \subseteq Txn
        /\ arrived \in [Txn -> Day \cup {NoDay}]
    BY DEF Init
  <2>3. boot \in [job: Job, phase: {"check", "start", "run", "complete"}]
    BY DEF Init, AtJob, Job
  <2>4. replay \in [Worker -> {Idle, Reading}]
    BY DEF Init
  <2>5. backfills \in [Job -> {"absent", "running", "completed"}]
    BY DEF Init
  <2>6. bounds \in Bounds
    BY DEF Init
  <2> QED
    BY <2>1, <2>2, <2>3, <2>4, <2>5, <2>6 DEF Init, TypeOK
<1>2. LogOK
  BY DEF Init, LogOK, Known, Day
<1>3. (\A w \in Worker : ReplayOK(replay[w])) /\ LiveOK
  BY DEF Init, ReplayOK, LiveOK
<1>4. NoLookAhead
  BY DEF Init, NoLookAhead, ValueAt, Upto, NoSnap, Known
<1> QED
  BY <1>1, <1>2, <1>3, <1>4 DEF HistoryInv

(* A step that leaves the transactions, the clock and the snapshots alone. *)
LEMMA HistoryStays ==
    ASSUME HistoryInv, TypeOK', UNCHANGED <<today, rows, snaps, live>>,
           \A w \in Worker : ReplayOK(replay[w])'
    PROVE  HistoryInv'
<1>1. LiveOK'
  BY DEF HistoryInv, LiveOK, Known, rows
<1>2. NoLookAhead'
  BY DEF HistoryInv, NoLookAhead, Known, rows
<1>3. LogOK'
  BY DEF HistoryInv, LogOK, Known, rows
<1> QED
  BY <1>1, <1>2, <1>3 DEF HistoryInv

(* A day does not pass for a replay. *)
LEMMA ReplaysStay ==
    ASSUME HistoryInv, today' \in Day, today <= today', UNCHANGED replay
    PROVE  \A w \in Worker : ReplayOK(replay[w])'
<1> TAKE w \in Worker
<1>1. ReplayOK(replay[w])
  BY DEF HistoryInv
<1>2. today \in Day
  BY DEF HistoryInv, TypeOK
<1> QED
  BY <1>1, <1>2, NetWorthAssumption DEF ReplayOK, Day

(* What one goroutine's replay goes on as. *)
LEMMA ReplayChanges ==
    ASSUME HistoryInv, NEW w \in Worker, NEW r, ReplayOK(r),
           UNCHANGED today, replay' = [replay EXCEPT ![w] = r]
    PROVE  \A v \in Worker : ReplayOK(replay[v])'
<1> TAKE v \in Worker
<1>1. replay'[v] = IF v = w THEN r ELSE replay[v]
  BY DEF HistoryInv, TypeOK
<1>2. ReplayOK(replay'[v])
  BY <1>1 DEF HistoryInv
<1> QED
  BY <1>2 DEF ReplayOK

(* Its type follows. *)
ReplayType ==
    {Idle, Importing, Reading}
        \cup [phase: {"market"}, log: SUBSET Txn]
        \cup [phase: {"days"}, log: SUBSET Txn, market: SUBSET Source, day: Day, end: Day]

LEMMA ReplayTyped ==
    ASSUME NEW r, ReplayOK(r)
    PROVE  r \in ReplayType
BY DEF ReplayOK, ReplayType

(* The first of the log's days, for a replay that goes on to them. *)
LEMMA LoadOK ==
    ASSUME HistoryInv, NEW w \in Worker, ReplayLoad(w)
    PROVE  /\ \A v \in Worker : ReplayOK(replay[v])'
           /\ replay' \in [Worker -> ReplayType]
<1> DEFINE from == First(replay[w].log)
           r == [phase |-> "days", log |-> replay[w].log, market |-> market,
                 day |-> from, end |-> today - 1]
<1>1. replay[w] \in [phase : {"market"}, log : (SUBSET Txn) \ {{}}]
  BY DEF HistoryInv, ReplayOK, ReplayLoad, Idle, Importing, Reading
<1>2. from \in Day
  <2>1. replay[w].log \in SUBSET Txn /\ replay[w].log # {}
    BY <1>1
  <2> QED
    BY <2>1, FirstDay
<1>3. market \subseteq Source /\ today \in Day /\ replay \in [Worker -> ReplayType]
  BY DEF HistoryInv, TypeOK, ReplayType
<1>4. CASE from > today - 1
  <2>1. replay' = [replay EXCEPT ![w] = Idle]
    BY <1>4 DEF ReplayLoad
  <2>2. ReplayOK(Idle) /\ Idle \in ReplayType
    BY DEF ReplayOK, ReplayType
  <2> QED
    BY <1>3, <2>1, <2>2, ReplayChanges DEF ReplayLoad
<1>5. CASE ~(from > today - 1)
  <2>1. replay' = [replay EXCEPT ![w] = r]
    BY <1>3, <1>5 DEF ReplayLoad
  <2>2. r \in [phase: {"days"}, log: (SUBSET Txn) \ {{}}, market: SUBSET Source,
               day: Day, end: Day]
    BY <1>1, <1>2, <1>3, <1>5, NetWorthAssumption DEF Day
  <2>3. First(r.log) <= r.day /\ r.day <= r.end /\ r.end < today
    BY <1>2, <1>3, <1>5, NetWorthAssumption DEF Day
  <2>4. ReplayOK(r)
    BY <2>2, <2>3 DEF ReplayOK
  <2> HIDE DEF r
  <2>5. r \in ReplayType
    BY <2>4, ReplayTyped
  <2> QED
    BY <1>3, <2>1, <2>4, <2>5, ReplayChanges DEF ReplayLoad
<1> QED
  BY <1>4, <1>5

(* A pass of the loop over the days, for one replay and for the table. *)
LEMMA DayAdvances ==
    ASSUME NEW r \in [phase: {"days"}, log: (SUBSET Txn) \ {{}}, market: SUBSET Source,
                      day: Day, end: Day],
           ReplayOK(r), r.day # r.end
    PROVE  /\ ReplayOK([r EXCEPT !.day = @ + 1])
           /\ [r EXCEPT !.day = @ + 1].phase = "days"
           /\ [r EXCEPT !.day = @ + 1].log = r.log
           /\ [r EXCEPT !.day = @ + 1].market = r.market
           /\ [r EXCEPT !.day = @ + 1].day = r.day + 1
<1> DEFINE next == [r EXCEPT !.day = @ + 1]
<1>1. /\ next = [phase |-> "days", log |-> r.log, market |-> r.market,
                 day |-> r.day + 1, end |-> r.end]
  OBVIOUS
<1>2. First(r.log) <= r.day /\ r.day <= r.end /\ r.end < today
  BY DEF ReplayOK, Idle, Importing, Reading
<1>3. First(r.log) \in Day
  BY FirstDay
<1>4. r.day \in Day /\ r.end \in Day /\ LastDay \in Nat
  BY NetWorthAssumption
<1>5. r.day + 1 \in Day /\ First(r.log) <= r.day + 1 /\ r.day + 1 <= r.end
  BY <1>2, <1>3, <1>4 DEF Day
<1>6. ReplayOK(next)
  BY <1>1, <1>2, <1>5 DEF ReplayOK
<1> QED
  BY <1>1, <1>6

LEMMA DayOK ==
    ASSUME HistoryInv, NEW w \in Worker, ReplayDay(w)
    PROVE  /\ replay[w] \in [phase: {"days"}, log: (SUBSET Txn) \ {{}},
                             market: SUBSET Source, day: Day, end: Day]
           /\ First(replay[w].log) <= replay[w].day
           /\ replay[w].day <= replay[w].end /\ replay[w].end < today
           /\ \A v \in Worker : ReplayOK(replay[v])'
           /\ replay' \in [Worker -> ReplayType]
<1> DEFINE r == replay[w]
           next == IF r.day = r.end THEN Idle ELSE [r EXCEPT !.day = @ + 1]
<1>1. /\ r \in [phase: {"days"}, log: (SUBSET Txn) \ {{}}, market: SUBSET Source,
                day: Day, end: Day]
      /\ First(r.log) <= r.day /\ r.day <= r.end /\ r.end < today
  BY DEF HistoryInv, ReplayOK, ReplayDay, Idle, Importing, Reading
<1>2. replay \in [Worker -> ReplayType] /\ UNCHANGED today
  BY DEF HistoryInv, TypeOK, ReplayType, ReplayDay
<1>3. replay' = [replay EXCEPT ![w] = next]
  BY DEF ReplayDay
<1>4. ReplayOK(next)
  <2>1. ReplayOK(Idle)
    BY DEF ReplayOK
  <2>2. r.day # r.end => ReplayOK([r EXCEPT !.day = @ + 1])
    <3>1. ReplayOK(r)
      BY DEF HistoryInv
    <3> HIDE DEF r
    <3> QED
      BY <1>1, <3>1, DayAdvances
  <2> HIDE DEF r
  <2> QED
    BY <2>1, <2>2, Zenon
<1> HIDE DEF next
<1>5. next \in ReplayType
  BY <1>4, ReplayTyped
<1> QED
  BY <1>1, <1>2, <1>3, <1>4, <1>5, ReplayChanges

(* A goroutine that begins to replay. *)
LEMMA BeginOK ==
    ASSUME HistoryInv, NEW w \in Worker, Begin(w), UNCHANGED today
    PROVE  /\ \A v \in Worker : ReplayOK(replay[v])'
           /\ replay' \in [Worker -> ReplayType]
<1>1. ReplayOK(Reading) /\ Reading \in ReplayType
  BY DEF ReplayOK, ReplayType
<1>2. replay \in [Worker -> ReplayType]
  BY DEF HistoryInv, TypeOK, ReplayType
<1> QED
  BY <1>1, <1>2, ReplayChanges DEF Begin

(* A day's snapshot is replaced by one that does not look ahead. *)
LEMMA SnapshotStored ==
    ASSUME HistoryInv, NEW d \in Day, NEW s \in Snapshot,
           s.cash \cup s.held \subseteq Known(d), UNCHANGED arrived,
           snaps' = [snaps EXCEPT ![d] = s]
    PROVE  /\ snaps' \in [Day -> Snapshot \cup {NoSnap}]
           /\ NoLookAhead'
<1>1. snaps \in [Day -> Snapshot \cup {NoSnap}]
  BY DEF HistoryInv, TypeOK
<1>2. ASSUME NEW e \in Day, snaps'[e] # NoSnap
      PROVE  snaps'[e].cash \cup snaps'[e].held \subseteq Known(e)
  <2>1. CASE e = d
    BY <1>1, <2>1
  <2>2. CASE e # d
    <3>1. snaps'[e] = snaps[e]
      BY <1>1, <2>2
    <3> QED
      BY <1>2, <3>1 DEF HistoryInv, NoLookAhead
  <2> QED
    BY <2>1, <2>2
<1>3. \A e : Known(e)' = Known(e)
  BY DEF Known
<1>4. NoLookAhead'
  BY <1>2, <1>3, Zenon DEF NoLookAhead
<1> QED
  BY <1>1, <1>4

(* What the day loop stores. *)
LEMMA ValueFits ==
    ASSUME NEW txns \in SUBSET Txn, NEW m \in SUBSET Source, NEW d
    PROVE  /\ ValueAt(txns, m, d) \in Snapshot
           /\ ValueAt(txns, m, d).cash = Upto(txns, d)
           /\ ValueAt(txns, m, d).held = Upto(txns, d)
           /\ ValueAt(txns, m, d).market = m
           /\ Upto(txns, d) \subseteq Known(d)
BY DEF ValueAt, Snapshot, Upto, Known

LEMMA SourcesTyped ==
    ASSUME log \subseteq Txn
    PROVE  \A j \in Job : SourcesOf(j) \subseteq Source
BY DEF SourcesOf, Source

(* The request counters. *)
LEMMA AskedTyped ==
    ASSUME TypeOK, Asked
    PROVE  bounds' \in Bounds
BY NetWorthAssumption DEF TypeOK, Asked, Bounds

LEMMA ReplayHistory ==
    ASSUME HistoryInv, NEW w \in Worker, ReplayStep(w)
    PROVE  HistoryInv'
<1> USE DEF tables, ghosts, rows
<1>1. CASE ReplayRead(w)
  <2> DEFINE r == IF log = {} THEN Idle ELSE [phase |-> "market", log |-> log]
  <2>1. log \subseteq Txn /\ replay \in [Worker -> ReplayType]
    BY DEF HistoryInv, TypeOK, ReplayType
  <2>2. ReplayOK(r)
    BY <2>1 DEF ReplayOK
  <2>3. replay' = [replay EXCEPT ![w] = r] /\ UNCHANGED today
    BY <1>1 DEF ReplayRead
  <2> HIDE DEF r
  <2>4. r \in ReplayType
    BY <2>2, ReplayTyped
  <2>5. \A v \in Worker : ReplayOK(replay[v])'
    BY <2>2, <2>3, ReplayChanges
  <2>6. replay' \in [Worker -> ReplayType]
    BY <2>1, <2>3, <2>4
  <2>7. TypeOK'
    BY <1>1, <2>6 DEF ReplayRead, HistoryInv, TypeOK, ReplayType
  <2> QED
    BY <1>1, <2>5, <2>7, HistoryStays DEF ReplayRead
<1>2. CASE ReplayLoad(w)
  <2>1. \A v \in Worker : ReplayOK(replay[v])'
    BY <1>2, LoadOK
  <2>2. replay' \in [Worker -> ReplayType]
    BY <1>2, LoadOK
  <2>3. TypeOK'
    BY <1>2, <2>2 DEF ReplayLoad, HistoryInv, TypeOK, ReplayType
  <2> QED
    BY <1>2, <2>1, <2>3, HistoryStays DEF ReplayLoad
<1>3. CASE ReplayDay(w)
  <2> DEFINE r == replay[w]
  <2>1. /\ r.log \in SUBSET Txn /\ r.market \in SUBSET Source
        /\ r.day \in Day /\ r.end \in Day
        /\ \A v \in Worker : ReplayOK(replay[v])'
        /\ replay' \in [Worker -> ReplayType]
    BY <1>3, DayOK
  <2>2. /\ snaps' \in [Day -> Snapshot \cup {NoSnap}]
        /\ NoLookAhead'
    <3>1. CASE snaps' = [snaps EXCEPT ![r.day] = ValueAt(r.log, r.market, r.day)]
      <4>1. /\ ValueAt(r.log, r.market, r.day) \in Snapshot
            /\ ValueAt(r.log, r.market, r.day).cash
                 \cup ValueAt(r.log, r.market, r.day).held \subseteq Known(r.day)
        BY <2>1, ValueFits
      <4> QED
        BY <1>3, <2>1, <3>1, <4>1, SnapshotStored DEF ReplayDay, rows
    <3>2. CASE UNCHANGED snaps
      BY <1>3, <3>2 DEF HistoryInv, TypeOK, NoLookAhead, Known, ReplayDay, rows
    <3> QED
      BY <1>3, <3>1, <3>2 DEF ReplayDay
  <2>3. alone' \subseteq Worker /\ settled' \in Day \cup {NoDay}
    BY <1>3, <2>1 DEF ReplayDay, HistoryInv, TypeOK
  <2>4. UNCHANGED <<up, today, log, arrived, view, market, backfills, boot, manual,
                    live, bounds>>
    BY <1>3 DEF ReplayDay, rows
  <2>5. TypeOK'
    BY <2>1, <2>2, <2>3, <2>4 DEF HistoryInv, TypeOK, ReplayType
  <2>6. LiveOK' /\ LogOK'
    BY <2>4 DEF HistoryInv, LiveOK, LogOK, Known
  <2> QED
    BY <2>1, <2>2, <2>5, <2>6 DEF HistoryInv
<1> QED
  BY <1>1, <1>2, <1>3 DEF ReplayStep

(* The live snapshot: cash, then holdings, then the date, then the upsert. *)
LEMMA LiveHistory ==
    ASSUME HistoryInv, LiveCash \/ LiveStep
    PROVE  HistoryInv'
<1> USE DEF tables, ghosts, rows
<1>1. /\ today \in Day /\ log \cup view \subseteq Known(today) /\ market \subseteq Source
      /\ log \subseteq Txn /\ view \subseteq Txn /\ today \in Nat
  BY NetWorthAssumption DEF HistoryInv, TypeOK, LogOK, Day
<1>2. UNCHANGED <<today, log, arrived, replay>> /\ view' \in {view, log}
  BY DEF LiveCash, LiveStep, LiveHoldings, LiveDate, LiveStore
<1>3. \A d : Known(d)' = Known(d)
  BY <1>2 DEF Known
<1>4. LogOK'
  BY <1>1, <1>2, <1>3 DEF HistoryInv, LogOK
<1>5. \A w \in Worker : ReplayOK(replay[w])'
  BY <1>1, <1>2, ReplaysStay, NetWorthAssumption DEF Day
<1>6. ASSUME UNCHANGED snaps, LiveOK', TypeOK'
      PROVE  HistoryInv'
  <2>1. NoLookAhead'
    BY <1>3, <1>6 DEF HistoryInv, NoLookAhead
  <2> QED
    BY <1>4, <1>5, <1>6, <2>1 DEF HistoryInv
<1>7. CASE LiveCash
  <2>1. live' \in [phase: {"cash"}, cash: SUBSET Known(today)]
    BY <1>1, <1>7 DEF LiveCash
  <2>2. LiveOK'
    BY <1>2, <1>3, <2>1 DEF LiveOK
  <2>3. live' \in [phase: {"cash"}, cash: SUBSET Txn]
    BY <2>1 DEF Known
  <2>4. bounds' \in Bounds
    BY <1>7, NetWorthAssumption DEF LiveCash, HistoryInv, TypeOK, Bounds
  <2>5. view' \subseteq Txn
    BY <1>1, <1>2
  <2>6. TypeOK'
    BY <1>7, <2>3, <2>4, <2>5 DEF LiveCash, HistoryInv, TypeOK
  <2> QED
    BY <1>6, <1>7, <2>2, <2>6 DEF LiveCash
<1>8. CASE LiveHoldings
  <2>1. live \in [phase: {"cash"}, cash: SUBSET Known(today)]
    BY <1>8 DEF LiveHoldings, HistoryInv, LiveOK, Idle
  <2>2. /\ live' \in [phase: {"date"}, snap: Snapshot]
        /\ live'.snap.cash \cup live'.snap.held \subseteq Known(today)
    BY <1>1, <1>8, <2>1 DEF LiveHoldings, Snapshot, Known
  <2>3. LiveOK'
    BY <1>2, <1>3, <2>2 DEF LiveOK
  <2>4. TypeOK'
    BY <1>8, <2>2 DEF LiveHoldings, HistoryInv, TypeOK
  <2> QED
    BY <1>6, <1>8, <2>3, <2>4 DEF LiveHoldings
<1>9. CASE LiveDate
  <2>1. /\ live \in [phase: {"date"}, snap: Snapshot]
        /\ live.snap.cash \cup live.snap.held \subseteq Known(today)
    BY <1>9 DEF LiveDate, HistoryInv, LiveOK, Idle
  <2>2. /\ live' \in [phase: {"store"}, snap: Snapshot, date: Day]
        /\ live'.snap = live.snap /\ live'.date = today
    BY <1>1, <1>9, <2>1 DEF LiveDate
  <2>3. LiveOK'
    BY <1>1, <1>2, <1>3, <2>1, <2>2 DEF LiveOK
  <2>4. TypeOK'
    BY <1>9, <2>2 DEF LiveDate, HistoryInv, TypeOK
  <2> QED
    BY <1>6, <1>9, <2>3, <2>4 DEF LiveDate
<1>10. CASE LiveStore
  <2>1. /\ live \in [phase: {"store"}, snap: Snapshot, date: Day]
        /\ live.snap.cash \cup live.snap.held \subseteq Known(live.date)
    BY <1>10 DEF LiveStore, HistoryInv, LiveOK, Idle
  <2>2. live.date \in Day /\ live.snap \in Snapshot
    BY <2>1
  <2>3. /\ snaps' \in [Day -> Snapshot \cup {NoSnap}]
        /\ NoLookAhead'
    <3>1. CASE snaps' = [snaps EXCEPT ![live.date] = live.snap]
      BY <1>2, <2>1, <2>2, <3>1, SnapshotStored
    <3>2. CASE UNCHANGED snaps
      BY <1>3, <3>2 DEF HistoryInv, TypeOK, NoLookAhead
    <3> QED
      BY <1>10, <3>1, <3>2 DEF LiveStore
  <2>4. /\ live' = Idle
        /\ alone' \subseteq Worker /\ settled' \in Day \cup {NoDay}
        /\ UNCHANGED <<up, log, arrived, view, today, market, backfills, boot, manual,
                       replay, bounds>>
    BY <1>10 DEF LiveStore, Disturb, HistoryInv, TypeOK
  <2>5. TypeOK'
    BY <2>3, <2>4 DEF HistoryInv, TypeOK
  <2>6. LiveOK'
    BY <2>4 DEF LiveOK
  <2> QED
    BY <1>4, <1>5, <2>3, <2>5, <2>6 DEF HistoryInv
<1> QED
  BY <1>7, <1>8, <1>9, <1>10 DEF LiveStep

(* A fetch adds sources and disturbs, or changes nothing. *)
LEMMA FetchTyped ==
    ASSUME HistoryInv, NEW sources \in SUBSET Source, Fetch(sources)
    PROVE  /\ market' \subseteq Source
           /\ alone' \subseteq Worker /\ settled' \in Day \cup {NoDay}
           /\ Disturb \/ UNCHANGED <<market, alone, settled>>
<1>1. PICK got \in SUBSET sources :
        /\ market' = market \cup got
        /\ IF got \subseteq market THEN UNCHANGED ghosts ELSE Disturb
  BY DEF Fetch
<1>2. market \subseteq Source /\ alone \subseteq Worker /\ settled \in Day \cup {NoDay}
  BY DEF HistoryInv, TypeOK
<1> QED
  BY <1>1, <1>2 DEF Disturb, ghosts

(* The type of the boot goroutine after each of its steps. *)
LEMMA BootMoves ==
    ASSUME HistoryInv, boot \in [job: Job, phase: {"check", "start", "run", "complete"}]
    PROVE  /\ \A p \in {"check", "start", "run", "complete"} :
                 [boot EXCEPT !.phase = p]
                    \in [job: Job, phase: {"check", "start", "run", "complete"}]
           /\ NextJob(boot.job) =>
                 boot' \in [job: Job, phase: {"check", "start", "run", "complete"}]
                           \cup {BootDone}
<1>1. boot.job \in Job
  OBVIOUS
<1>2. After(boot.job) = "done" \/ After(boot.job) \in Job
  BY <1>1 DEF After, Job
<1>3. \A j \in Job : AtJob(j, "check")
                        \in [job: Job, phase: {"check", "start", "run", "complete"}]
  BY DEF AtJob
<1> QED
  BY <1>2, <1>3 DEF NextJob

LEMMA BootHistory ==
    ASSUME HistoryInv, BootStep
    PROVE  HistoryInv'
<1> USE DEF tables, ghosts, rows
<1> DEFINE BootType == [job: Job, phase: {"check", "start", "run", "complete"}]
<1>1. boot \in BootType
  <2>1. boot.phase # "idle"
    BY DEF BootStep, BootCheck, BootStart, BootRun, BootComplete
  <2> QED
    BY <2>1 DEF HistoryInv, TypeOK, BootDone, AtJob
<1>2. /\ log \subseteq Txn /\ today \in Day
      /\ backfills \in [Job -> {"absent", "running", "completed"}]
      /\ \A w \in Worker : ReplayOK(replay[w])
  BY DEF HistoryInv, TypeOK
<1>3. ASSUME UNCHANGED <<today, log, arrived, view, snaps, live, replay>>, TypeOK'
      PROVE  HistoryInv'
  <2>1. \A w \in Worker : ReplayOK(replay[w])'
    BY <1>2, <1>3, ReplaysStay, NetWorthAssumption DEF Day
  <2> QED
    BY <1>3, <2>1, HistoryStays
<1>4. CASE BootCheck
  <2>1. boot' \in BootType \cup {BootDone}
    BY <1>1, <1>4, BootMoves DEF BootCheck
  <2>2. TypeOK'
    BY <1>4, <2>1 DEF BootCheck, HistoryInv, TypeOK
  <2> QED
    BY <1>3, <1>4, <2>2 DEF BootCheck
<1>5. CASE BootStart
  <2>1. boot' \in BootType
    BY <1>1, <1>5, BootMoves DEF BootStart
  <2>2. backfills' \in [Job -> {"absent", "running", "completed"}]
    BY <1>2, <1>5 DEF BootStart, SetStatus
  <2>3. /\ \A w \in Worker : ReplayOK(replay[w])'
        /\ replay' \in [Worker -> ReplayType]
        /\ alone' \subseteq Worker
    <3>1. CASE boot.job = "historical_networth"
      <4>1. Begin(Boot) /\ Boot \in Worker /\ UNCHANGED today
        BY <1>5, <3>1, NetWorthAssumption DEF BootStart
      <4>2. alone' \subseteq Worker
        BY <1>5, <3>1, NetWorthAssumption DEF BootStart
      <4> QED
        BY <4>1, <4>2, BeginOK
    <3>2. CASE boot.job # "historical_networth"
      <4>1. UNCHANGED <<replay, alone, today>>
        BY <1>5, <3>2 DEF BootStart
      <4>2. \A w \in Worker : ReplayOK(replay[w])'
        BY <1>2, <4>1, ReplaysStay, NetWorthAssumption DEF Day
      <4> QED
        BY <4>1, <4>2 DEF HistoryInv, TypeOK, ReplayType
    <3> QED
      BY <3>1, <3>2
  <2>4. TypeOK'
    BY <1>5, <2>1, <2>2, <2>3 DEF BootStart, HistoryInv, TypeOK, ReplayType
  <2> QED
    BY <1>5, <2>3, <2>4, HistoryStays DEF BootStart
<1>6. CASE BootRun
  <2>1. boot' \in BootType
    BY <1>1, <1>6, BootMoves DEF BootRun
  <2>2. /\ market' \subseteq Source /\ alone' \subseteq Worker
        /\ settled' \in Day \cup {NoDay}
    <3>1. SourcesOf(boot.job) \in SUBSET Source
      BY <1>1, <1>2, SourcesTyped
    <3> QED
      BY <1>6, <3>1, FetchTyped DEF BootRun, HistoryInv, TypeOK
  <2>3. TypeOK'
    BY <1>6, <2>1, <2>2 DEF BootRun, HistoryInv, TypeOK
  <2> QED
    BY <1>3, <1>6, <2>3 DEF BootRun
<1>7. CASE BootComplete
  <2>1. boot' \in BootType \cup {BootDone}
    BY <1>1, <1>7, BootMoves DEF BootComplete
  <2>2. backfills' \in [Job -> {"absent", "running", "completed"}]
    BY <1>2, <1>7 DEF BootComplete, SetStatus
  <2>3. TypeOK'
    BY <1>7, <2>1, <2>2 DEF BootComplete, HistoryInv, TypeOK
  <2> QED
    BY <1>3, <1>7, <2>3 DEF BootComplete
<1> QED
  BY <1>4, <1>5, <1>6, <1>7 DEF BootStep

LEMMA ManualHistory ==
    ASSUME HistoryInv, RefreshPrices \/ ManualStep
    PROVE  HistoryInv'
<1> USE DEF tables, ghosts, rows
<1>1. /\ log \subseteq Txn /\ today \in Day
      /\ backfills \in [Job -> {"absent", "running", "completed"}]
      /\ TypeOK
  BY DEF HistoryInv, TypeOK
<1>2. ASSUME UNCHANGED <<today, log, arrived, view, snaps, live, replay>>, TypeOK'
      PROVE  HistoryInv'
  <2>1. \A w \in Worker : ReplayOK(replay[w])'
    BY <1>1, <1>2, ReplaysStay, NetWorthAssumption DEF Day
  <2> QED
    BY <1>2, <2>1, HistoryStays
<1>3. CASE RefreshPrices
  <2>1. TypeOK'
    BY <1>1, <1>3, AskedTyped DEF RefreshPrices, TypeOK
  <2> QED
    BY <1>2, <1>3, <2>1 DEF RefreshPrices
<1>4. CASE ManualStart \/ ManualComplete
  <2>1. backfills' \in [Job -> {"absent", "running", "completed"}]
    BY <1>1, <1>4 DEF ManualStart, ManualComplete, SetStatus
  <2>2. TypeOK'
    BY <1>1, <1>4, <2>1 DEF ManualStart, ManualComplete, TypeOK
  <2> QED
    BY <1>2, <1>4, <2>2 DEF ManualStart, ManualComplete
<1>5. CASE ManualRun
  <2>1. SourcesOf("historical_prices") \in SUBSET Source
    BY <1>1, SourcesTyped DEF Job
  <2>2. /\ market' \subseteq Source /\ alone' \subseteq Worker
        /\ settled' \in Day \cup {NoDay}
    BY <1>5, <2>1, FetchTyped DEF ManualRun
  <2>3. TypeOK'
    BY <1>1, <1>5, <2>2 DEF ManualRun, TypeOK
  <2> QED
    BY <1>2, <1>5, <2>3 DEF ManualRun
<1> QED
  BY <1>3, <1>4, <1>5 DEF ManualStep

(* Requests that add to the log, or take from it, or start a replay.       *)
LEMMA RequestHistory ==
    ASSUME HistoryInv,
           \/ \E w \in Worker \ {Boot} :
                Import(w) \/ ImportEnds(w) \/ ImportFails(w) \/ Rebuild(w)
           \/ \E a \in {AccountOf[t] : t \in Txn} : DeleteAccount(a)
    PROVE  HistoryInv'
<1> USE DEF tables, ghosts, rows
<1>1. /\ LogOK /\ log \subseteq Txn /\ view \subseteq Txn /\ today \in Day
      /\ arrived \in [Txn -> Day \cup {NoDay}] /\ today \in Nat
      /\ replay \in [Worker -> ReplayType]
      /\ TypeOK
  BY NetWorthAssumption DEF HistoryInv, TypeOK, ReplayType, Day
<1>2. /\ UNCHANGED <<up, today, market, snaps, backfills, boot, manual, live>>
      /\ Asked \/ UNCHANGED bounds
  BY DEF Import, ImportEnds, ImportFails, Rebuild, DeleteAccount
<1> DEFINE Arrivals ==
              /\ arrived' \in [Txn -> Day \cup {NoDay}]
              /\ \A t \in Txn : arrived[t] # NoDay => arrived'[t] = arrived[t]
              /\ \A t \in Txn : arrived'[t] \in {NoDay} \cup 0 .. today
              /\ \A t \in log' : t \in log \/ (t \in Txn /\ arrived'[t] # NoDay)
              /\ view' \subseteq view \cup log'
<1>3. Arrivals
  <2>1. CASE UNCHANGED arrived
    BY <1>1, <2>1
       DEF Import, ImportEnds, ImportFails, Rebuild, DeleteAccount, LogOK, NoDay
  <2>2. ASSUME NEW w \in Worker, Import(w)
        PROVE  Arrivals
    BY <1>1, <2>2 DEF Import, LogOK, NoDay
  <2> QED
    BY <2>1, <2>2 DEF ImportEnds, ImportFails, Rebuild, DeleteAccount
<1>4. \A d : Known(d) \subseteq Known(d)'
  BY <1>3 DEF Known, NoDay
<1>5. LogOK'
  BY <1>1, <1>2, <1>3, <1>4 DEF LogOK, Known
<1>6. log' \subseteq Txn /\ view' \subseteq Txn
  BY <1>1, <1>3
<1>7. /\ \A w \in Worker : ReplayOK(replay[w])'
      /\ replay' \in [Worker -> ReplayType]
  <2>1. ASSUME NEW w \in Worker, Begin(w)
        PROVE  /\ \A v \in Worker : ReplayOK(replay[v])'
               /\ replay' \in [Worker -> ReplayType]
    BY <1>2, <2>1, BeginOK
  <2>2. ASSUME NEW w \in Worker, NEW r \in {Idle, Importing},
               replay' = [replay EXCEPT ![w] = r]
        PROVE  /\ \A v \in Worker : ReplayOK(replay[v])'
               /\ replay' \in [Worker -> ReplayType]
    <3>1. ReplayOK(r) /\ r \in ReplayType
      BY DEF ReplayOK, ReplayType
    <3> QED
      BY <1>1, <1>2, <2>2, <3>1, ReplayChanges
  <2>3. CASE UNCHANGED replay
    <3>1. \A w \in Worker : ReplayOK(replay[w])'
      BY <1>1, <1>2, <2>3, ReplaysStay, NetWorthAssumption DEF Day
    <3> QED
      BY <1>1, <2>3, <3>1
  <2> QED
    BY <2>1, <2>2, <2>3 DEF Import, ImportEnds, ImportFails, Rebuild, DeleteAccount
<1>8. alone' \subseteq Worker /\ settled' \in Day \cup {NoDay}
  BY <1>1 DEF Import, ImportEnds, ImportFails, Rebuild, DeleteAccount, Disturb, TypeOK
<1>9. bounds' \in Bounds
  BY <1>1, <1>2, AskedTyped DEF TypeOK
<1>10. TypeOK'
  BY <1>1, <1>2, <1>3, <1>6, <1>7, <1>8, <1>9 DEF TypeOK, ReplayType
<1>11. NoLookAhead'
  BY <1>2, <1>4 DEF HistoryInv, NoLookAhead
<1>12. LiveOK'
  <2>1. LiveOK /\ UNCHANGED <<live, today>>
    BY <1>2 DEF HistoryInv
  <2> QED
    BY <1>4, <2>1 DEF LiveOK
<1> QED
  BY <1>5, <1>7, <1>10, <1>11, <1>12 DEF HistoryInv

LEMMA LifeHistory ==
    ASSUME HistoryInv, NextDay \/ Crash \/ Start \/ UNCHANGED vars
    PROVE  HistoryInv'
<1> USE DEF tables, ghosts, rows
<1>1. LogOK /\ today \in Day /\ TypeOK /\ LiveOK
  BY DEF HistoryInv, TypeOK
<1>2. /\ UNCHANGED <<log, arrived, view, market, snaps, backfills>>
      /\ today' \in Day /\ today <= today' /\ today \in Nat /\ today' \in Nat
  BY <1>1, NetWorthAssumption DEF NextDay, Crash, Start, vars, Day
<1>3. \A d : Known(d)' = Known(d)
  BY <1>2 DEF Known
<1>4. Known(today) \subseteq Known(today')
  BY <1>2, NetWorthAssumption DEF Known, Day
<1>5. NoLookAhead'
  BY <1>2, <1>3 DEF HistoryInv, NoLookAhead
<1>6. LogOK'
  BY <1>1, <1>2, <1>3, <1>4 DEF LogOK, NoDay
<1>7. \A w \in Worker : ReplayOK(replay[w])'
  <2>1. CASE UNCHANGED replay
    BY <1>2, <2>1, ReplaysStay
  <2>2. CASE Crash
    <3>1. \A w \in Worker : replay'[w] = Idle
      BY <2>2 DEF Crash
    <3> QED
      BY <3>1 DEF ReplayOK
  <2> QED
    BY <2>1, <2>2 DEF NextDay, Start, vars
<1>8. LiveOK'
  <2>1. CASE UNCHANGED live
    <3>1. ASSUME live \in [phase: {"store"}, snap: Snapshot, date: Day],
                 live.date <= today
          PROVE  live.date <= today'
      <4>1. live.date \in Day
        BY <3>1
      <4> QED
        BY <1>2, <3>1, <4>1, NetWorthAssumption DEF Day
    <3> QED
      BY <1>1, <1>3, <1>4, <2>1, <3>1 DEF LiveOK
  <2>2. CASE Crash
    BY <2>2 DEF Crash, LiveOK
  <2> QED
    BY <2>1, <2>2 DEF NextDay, Start, vars
<1>9. TypeOK'
  <2>1. CASE NextDay
    BY <1>1, <1>2, <2>1 DEF NextDay, TypeOK
  <2>2. CASE Crash
    <3>1. bounds' \in Bounds
      BY <1>1, <2>2, NetWorthAssumption DEF Crash, TypeOK, Bounds
    <3> QED
      BY <1>1, <2>2, <3>1 DEF Crash, TypeOK
  <2>3. CASE Start
    <3>1. boot' \in [job: Job, phase: {"check", "start", "run", "complete"}]
      BY <2>3 DEF Start, AtJob, Job
    <3> QED
      BY <1>1, <2>3, <3>1 DEF Start, TypeOK
  <2>4. CASE UNCHANGED vars
    BY <1>1, <2>4 DEF vars, TypeOK
  <2> QED
    BY <2>1, <2>2, <2>3, <2>4
<1> QED
  BY <1>5, <1>6, <1>7, <1>8, <1>9 DEF HistoryInv

LEMMA HistoryInductive == HistoryInv /\ [Next]_vars => HistoryInv'
BY ReplayHistory, LiveHistory, BootHistory, ManualHistory, RequestHistory,
   LifeHistory DEF Next

(* SettledInv speaks of the tables, the replays, the ghosts and the clock. *)
LEMMA SettledStays ==
    ASSUME HistoryInv, SettledInv,
           UNCHANGED <<log, market, snaps, replay, alone, settled>>,
           today' \in Day, today <= today'
    PROVE  SettledInv'
<1>1. \A w \in Worker : (Current(replay[w]))' = Current(replay[w])
  BY DEF Current
<1>2. \A w \in Worker : (Written(replay[w]))' = Written(replay[w])
  BY DEF Written, Exact
<1>3. \A d : Exact(d)' = Exact(d)
  BY DEF Exact
<1>4. alone \subseteq Worker /\ settled \in Day \cup {NoDay} /\ today \in Day
  BY DEF HistoryInv, TypeOK
<1>5. settled # NoDay => settled < today'
  BY <1>4, NetWorthAssumption DEF SettledInv, Day
<1> QED
  BY <1>1, <1>2, <1>3, <1>4, <1>5 DEF SettledInv

LEMMA Disturbed ==
    ASSUME Disturb
    PROVE  SettledInv'
BY DEF Disturb, SettledInv

(* The replay of one goroutine moves on and writes nothing.                *)
LEMMA SettledReplayMoves ==
    ASSUME HistoryInv, SettledInv, NEW w \in Worker, NEW r,
           replay[w] # Idle, replay' = [replay EXCEPT ![w] = r],
           UNCHANGED <<today, log, market, snaps, alone, settled>>,
           Current(replay[w]) => Current(r),
           Current(replay[w]) => Written(r)
    PROVE  SettledInv'
<1>1. /\ replay'[w] = r
      /\ \A v \in Worker \ {w} : replay'[v] = replay[v]
  BY DEF HistoryInv, TypeOK
<1>2. \A v \in alone : v = w
  BY DEF SettledInv
<1>3. /\ (Current(replay[w]))' = Current(r)
      /\ (Written(replay[w]))' = Written(r)
      /\ \A v \in Worker \ {w} : (Current(replay[v]))' = Current(replay[v])
  BY <1>1 DEF Current, Written, Exact
<1>4. \A d : Exact(d)' = Exact(d)
  BY DEF Exact
<1>5. ASSUME NEW v \in alone'
      PROVE  /\ (Current(replay[v]))'
             /\ (Written(replay[v]))'
             /\ \A u \in Worker \ {v} : replay'[u] = Idle
  BY <1>1, <1>2, <1>3, <1>5 DEF SettledInv
<1>6. settled' # NoDay =>
        /\ settled' < today'
        /\ \A v \in Worker : (Current(replay[v]))'
        /\ \A d \in First(log') .. settled' : Exact(d)'
  BY <1>3, <1>4 DEF SettledInv
<1> QED
  BY <1>5, <1>6 DEF SettledInv

(* A goroutine begins a replay; it is alone if no other one works.         *)
LEMMA SettledBegin ==
    ASSUME HistoryInv, SettledInv, NEW w \in Worker, Begin(w),
           alone' = IF Overlaps(w) THEN {} ELSE {w},
           UNCHANGED <<today, log, market, snaps, settled>>
    PROVE  SettledInv'
<1>1. /\ replay'[w] = Reading
      /\ \A v \in Worker \ {w} : replay'[v] = replay[v]
  BY DEF HistoryInv, TypeOK, Begin
<1>2. (Current(replay[w]))' /\ (Written(replay[w]))'
  BY <1>1 DEF Current, Written, Reading
<1>3. \A v \in Worker \ {w} : (Current(replay[v]))' = Current(replay[v])
  BY <1>1 DEF Current
<1>4. \A d : Exact(d)' = Exact(d)
  BY DEF Exact
<1>5. \A v \in alone' : v = w /\ \A u \in Worker \ {w} : replay'[u] = Idle
  BY <1>1 DEF Overlaps
<1>6. settled' # NoDay =>
        /\ settled' < today'
        /\ \A v \in Worker : (Current(replay[v]))'
        /\ \A d \in First(log') .. settled' : Exact(d)'
  BY <1>2, <1>3, <1>4 DEF SettledInv
<1> QED
  BY <1>2, <1>5, <1>6 DEF SettledInv

(* A pass of the day loop: the day it writes is exact if the replay is     *)
(* current, and it is current if it is alone or the history is settled.    *)
LEMMA SettledDay ==
    ASSUME HistoryInv, SettledInv, NEW w \in Worker, ReplayDay(w)
    PROVE  SettledInv'
<1> DEFINE r    == replay[w]
           last == r.day = r.end
           R    == [phase: {"days"}, log: (SUBSET Txn) \ {{}},
                    market: SUBSET Source, day: Day, end: Day]
<1>1. /\ r \in R
      /\ First(r.log) <= r.day /\ r.day <= r.end /\ r.end < today
  BY DayOK
<1>2. /\ r.phase = "days" /\ r.log \subseteq Txn /\ r.log # {}
      /\ r.day \in Int /\ r.end \in Int /\ First(r.log) \in Int /\ today \in Int
      /\ r.day \in Day /\ r.end # NoDay
  <2>1. /\ r.phase = "days" /\ r.log \in SUBSET Txn /\ r.log # {}
        /\ r.day \in Day /\ r.end \in Day
    BY <1>1
  <2>2. First(r.log) \in Day /\ today \in Day
    BY <2>1, FirstDay DEF HistoryInv, TypeOK
  <2> HIDE DEF r
  <2> QED
    BY <2>1, <2>2, NetWorthAssumption DEF Day, NoDay
<1>3. UNCHANGED <<today, log, market>>
  BY DEF ReplayDay, rows
<1>4. /\ replay'[w] = IF last THEN Idle ELSE [r EXCEPT !.day = @ + 1]
      /\ \A v \in Worker \ {w} : replay'[v] = replay[v]
  BY DEF HistoryInv, TypeOK, ReplayDay
<1>5. \A v \in alone : v = w
  BY <1>2 DEF SettledInv, Idle
<1>6. \A v \in Worker \ {w} : (Current(replay[v]))' = Current(replay[v])
  BY <1>3, <1>4 DEF Current
<1>7. /\ Current(r) => (Current(replay[w]))'
      /\ ~last => replay'[w].phase = "days" /\ replay'[w].day = r.day + 1
      /\ last => replay'[w] = Idle
  <2>1. CASE last
    BY <1>4, <2>1 DEF Current, Idle
  <2>2. CASE ~last
    <3>1. ReplayOK(r)
      BY DEF HistoryInv
    <3>2. replay'[w] = [r EXCEPT !.day = @ + 1]
      BY <1>4, <2>2
    <3>3. /\ replay'[w].phase = "days" /\ replay'[w].log = r.log
          /\ replay'[w].market = r.market /\ replay'[w].day = r.day + 1
      <4> HIDE DEF r
      <4> QED
        BY <1>1, <2>2, <3>1, <3>2, DayAdvances
    <3> QED
      BY <1>2, <1>3, <2>2, <3>3 DEF Current
  <2> QED
    BY <2>1, <2>2
<1>8. snaps \in [Day -> Snapshot \cup {NoSnap}]
  BY DEF HistoryInv, TypeOK
<1>9. CASE /\ snaps' = [snaps EXCEPT ![r.day] = ValueAt(r.log, r.market, r.day)]
           /\ alone' = (IF last THEN alone \ {w} ELSE alone)
           /\ settled' = (IF last /\ w \in alone THEN r.end ELSE settled)
  <2>1. ASSUME Current(r)
        PROVE  \A d : d = r.day \/ Exact(d) => Exact(d)'
    <3>1. r.log = log /\ r.market = market
      BY <1>2, <2>1 DEF Current
    <3>2. ASSUME NEW d, d = r.day PROVE Exact(d)'
      <4>1. snaps'[d] = ValueAt(r.log, r.market, d)
        BY <1>2, <1>8, <1>9, <3>2
      <4> QED
        BY <1>3, <3>1, <4>1 DEF Exact, ValueAt
    <3>3. ASSUME NEW d, d # r.day, Exact(d) PROVE Exact(d)'
      <4>1. snaps'[d] = snaps[d]
        BY <1>8, <1>9, <3>3
      <4> QED
        BY <1>3, <3>3, <4>1 DEF Exact
    <3> QED
      BY <3>2, <3>3
  <2>2. ASSUME w \in alone
        PROVE  /\ Current(r)
               /\ \A d \in First(log) .. r.day : Exact(d)'
               /\ \A u \in Worker \ {w} : replay'[u] = Idle
    <3>1. Current(r) /\ Written(r) /\ \A u \in Worker \ {w} : replay[u] = Idle
      BY <2>2 DEF SettledInv
    <3>2. r.log = log
      BY <1>2, <3>1 DEF Current
    <3>3. \A d \in First(log) .. r.day - 1 : Exact(d)'
      BY <1>2, <2>1, <3>1 DEF Written
    <3>4. \A d \in First(log) .. r.day : d = r.day \/ d \in First(log) .. r.day - 1
      BY <1>2, <3>2
    <3> QED
      BY <1>4, <2>1, <3>1, <3>3, <3>4
  <2>3. ASSUME NEW v \in alone'
        PROVE  /\ (Current(replay[v]))'
               /\ (Written(replay[v]))'
               /\ \A u \in Worker \ {v} : replay'[u] = Idle
    <3>1. v = w /\ w \in alone /\ ~last
      BY <1>5, <1>9, <2>3
    <3>2. replay'[w].day - 1 = r.day
      BY <1>2, <1>7, <3>1
    <3>3. (Written(replay[w]))'
      BY <1>3, <2>2, <3>1, <3>2 DEF Written
    <3> QED
      BY <1>7, <2>2, <3>1, <3>3
  <2>4. ASSUME settled' # NoDay
        PROVE  /\ settled' < today'
               /\ \A v \in Worker : (Current(replay[v]))'
               /\ \A d \in First(log') .. settled' : Exact(d)'
    <3>1. CASE last /\ w \in alone
      <4>1. settled' = r.end /\ r.end = r.day
        BY <1>9, <3>1
      <4>2. \A v \in Worker : (Current(replay[v]))'
        BY <1>7, <2>2, <3>1 DEF Current, Idle
      <4> QED
        BY <1>1, <1>3, <2>2, <3>1, <4>1, <4>2
    <3>2. CASE ~(last /\ w \in alone)
      <4>1. settled' = settled
        BY <1>9, <3>2
      <4>2. Current(r)
        BY <2>4, <4>1 DEF SettledInv
      <4>3. \A v \in Worker : (Current(replay[v]))'
        BY <1>6, <1>7, <2>4, <4>1, <4>2 DEF SettledInv
      <4> QED
        BY <1>3, <2>1, <2>4, <4>1, <4>2, <4>3 DEF SettledInv
    <3> QED
      BY <3>1, <3>2
  <2> QED
    BY <2>3, <2>4 DEF SettledInv
<1>10. CASE alone' = alone \ {w} /\ UNCHANGED <<snaps, settled>>
  <2>1. \A d : Exact(d)' = Exact(d)
    BY <1>3, <1>10 DEF Exact
  <2>2. alone' = {}
    BY <1>5, <1>10
  <2>3. ASSUME settled # NoDay
        PROVE  \A v \in Worker : (Current(replay[v]))'
    BY <1>6, <1>7, <2>3 DEF SettledInv
  <2> QED
    BY <1>3, <1>10, <2>1, <2>2, <2>3 DEF SettledInv
<1> QED
  BY <1>9, <1>10 DEF ReplayDay

LEMMA SettledReplay ==
    ASSUME HistoryInv, SettledInv, NEW w \in Worker, ReplayStep(w)
    PROVE  SettledInv'
<1> USE DEF tables, ghosts, rows
<1>1. CASE ReplayRead(w)
  <2> DEFINE r == IF log = {} THEN Idle ELSE [phase |-> "market", log |-> log]
  <2>1. /\ replay[w] # Idle /\ replay' = [replay EXCEPT ![w] = r]
        /\ UNCHANGED <<today, log, market, snaps, alone, settled>>
    BY <1>1 DEF ReplayRead, Idle
  <2>2. Current(r) /\ Written(r)
    BY DEF Current, Written, Idle
  <2> HIDE DEF r
  <2> QED
    BY <2>1, <2>2, SettledReplayMoves
<1>2. CASE ReplayLoad(w)
  <2> DEFINE from == First(replay[w].log)
             r == IF from > today - 1 THEN Idle
                  ELSE [phase |-> "days", log |-> replay[w].log, market |-> market,
                        day |-> from, end |-> today - 1]
  <2>1. replay[w] \in [phase: {"market"}, log: (SUBSET Txn) \ {{}}]
    BY <1>2 DEF HistoryInv, ReplayOK, ReplayLoad, Idle, Importing, Reading
  <2>2. from \in Int
    <3>1. replay[w].log \in SUBSET Txn /\ replay[w].log # {}
      BY <2>1
    <3> QED
      BY <3>1, FirstDay, NetWorthAssumption DEF Day
  <2>3. /\ replay[w] # Idle
        /\ UNCHANGED <<today, log, market, snaps, alone, settled>>
    BY <1>2 DEF ReplayLoad, Idle
  <2>4. replay' = [replay EXCEPT ![w] = r]
    BY <1>2 DEF ReplayLoad, HistoryInv, TypeOK
  <2>5. ASSUME Current(replay[w])
        PROVE  Current(r) /\ Written(r)
    <3>1. replay[w].log = log
      BY <2>1, <2>5 DEF Current
    <3>2. CASE from > today - 1
      BY <3>2 DEF Current, Written, Idle
    <3>3. CASE ~(from > today - 1)
      <4>1. r.phase = "days" /\ r.log = log /\ r.market = market /\ r.day = First(log)
        BY <3>1, <3>3
      <4>2. First(log) \in Int
        BY <2>2, <3>1
      <4> HIDE DEF r
      <4>3. First(log) .. r.day - 1 = {}
        BY <4>1, <4>2
      <4> QED
        BY <4>1, <4>3 DEF Current, Written
    <3> QED
      BY <3>2, <3>3
  <2> HIDE DEF r
  <2> QED
    BY <2>3, <2>4, <2>5, SettledReplayMoves
<1>3. CASE ReplayDay(w)
  BY <1>3, SettledDay
<1> QED
  BY <1>1, <1>2, <1>3 DEF ReplayStep

(* Steps that leave all of it alone.                                       *)
LEMMA SettledElsewhere ==
    ASSUME HistoryInv, SettledInv,
           \/ LiveCash \/ LiveHoldings \/ LiveDate
           \/ BootCheck \/ BootComplete
           \/ RefreshPrices \/ ManualStart \/ ManualComplete
           \/ NextDay \/ Start \/ UNCHANGED vars
    PROVE  SettledInv'
<1>1. UNCHANGED <<log, market, snaps, replay, alone, settled>>
  BY DEF LiveCash, LiveHoldings, LiveDate, BootCheck, BootComplete, RefreshPrices,
         ManualStart, ManualComplete, NextDay, Start, vars, tables, ghosts, rows
<1>2. today \in Day
  BY DEF HistoryInv, TypeOK
<1>3. today' \in Day /\ today <= today'
  BY <1>2, NetWorthAssumption
     DEF LiveCash, LiveHoldings, LiveDate, BootCheck, BootComplete, RefreshPrices,
         ManualStart, ManualComplete, NextDay, Start, vars, tables, ghosts, rows, Day
<1> QED
  BY <1>1, <1>3, SettledStays

(* A snapshot stored for the running day touches no day of the history,    *)
(* one stored later disturbs it.                                           *)
LEMMA SettledLiveStore ==
    ASSUME HistoryInv, SettledInv, LiveStore
    PROVE  SettledInv'
<1>1. /\ live \in [phase: {"store"}, snap: Snapshot, date: Day]
      /\ live.date <= today
  BY DEF LiveStore, HistoryInv, LiveOK, Idle
<1>2. CASE Disturb
  BY <1>2, Disturbed
<1>3. CASE UNCHANGED <<ghosts, snaps>>
  <2>1. UNCHANGED <<today, log, market, snaps, replay, alone, settled>>
    BY <1>3 DEF LiveStore, ghosts, rows
  <2>2. today \in Day /\ today <= today
    BY NetWorthAssumption DEF HistoryInv, TypeOK, Day
  <2> QED
    BY <2>1, <2>2, SettledStays
<1>4. CASE /\ UNCHANGED ghosts /\ ~(live.date < today)
           /\ snaps' = [snaps EXCEPT ![live.date] = live.snap]
  <2>1. today \in Day /\ live.date \in Day
    BY <1>1 DEF HistoryInv, TypeOK
  <2>2. live.date = today
    BY <1>1, <1>4, <2>1, NetWorthAssumption DEF Day
  <2>3. UNCHANGED <<today, log, market, replay, alone, settled>>
    BY <1>4 DEF LiveStore, ghosts, rows
  <2>4. ASSUME NEW d, d # today, Exact(d) PROVE Exact(d)'
    <3>1. snaps'[d] = snaps[d]
      BY <1>4, <2>2, <2>4 DEF HistoryInv, TypeOK
    <3> QED
      BY <2>3, <2>4, <3>1 DEF Exact
  <2>5. \A w \in Worker : (Current(replay[w]))' = Current(replay[w])
    BY <2>3 DEF Current
  <2>6. ASSUME NEW w \in alone PROVE (Written(replay[w]))'
    <3>1. Written(replay[w]) /\ ReplayOK(replay[w])
      BY <2>6 DEF HistoryInv, TypeOK, SettledInv
    <3>2. ASSUME replay[w].phase = "days"
          PROVE  \A d \in First(log) .. replay[w].day - 1 : Exact(d)'
      <4>1. replay[w].day \in Day /\ replay[w].end \in Day
            /\ replay[w].day <= replay[w].end /\ replay[w].end < today
        BY <3>1, <3>2 DEF ReplayOK, Idle, Importing, Reading
      <4>2. ASSUME NEW d \in First(log) .. replay[w].day - 1 PROVE d # today
        <5>1. d \in Int /\ d <= replay[w].day - 1
          OBVIOUS
        <5> QED
          BY <2>1, <4>1, <5>1, NetWorthAssumption DEF Day
      <4> QED
        BY <2>4, <3>1, <3>2, <4>2 DEF Written
    <3> QED
      BY <2>3, <3>2 DEF Written
  <2>7. ASSUME settled # NoDay
        PROVE  \A d \in First(log) .. settled : Exact(d)'
    <3>1. settled < today /\ settled \in Day
      BY <2>7 DEF SettledInv, HistoryInv, TypeOK
    <3>2. \A d \in First(log) .. settled : d # today
      BY <2>1, <3>1, NetWorthAssumption DEF Day
    <3> QED
      BY <2>4, <2>7, <3>2 DEF SettledInv
  <2>8. alone \subseteq Worker
    BY DEF HistoryInv, TypeOK
  <2> QED
    BY <2>3, <2>5, <2>6, <2>7, <2>8 DEF SettledInv
<1> QED
  BY <1>2, <1>3, <1>4 DEF LiveStore

LEMMA SettledSources ==
    ASSUME HistoryInv, SettledInv, BootRun \/ ManualRun
    PROVE  SettledInv'
<1>1. UNCHANGED <<today, log, snaps, replay>> /\ today \in Day
  BY DEF BootRun, ManualRun, HistoryInv, TypeOK, rows
<1>2. Disturb \/ UNCHANGED <<market, alone, settled>>
  BY DEF BootRun, ManualRun, Fetch, ghosts
<1> QED
  BY <1>1, <1>2, Disturbed, SettledStays, NetWorthAssumption DEF Day

LEMMA SettledBootStart ==
    ASSUME HistoryInv, SettledInv, BootStart
    PROVE  SettledInv'
<1>1. UNCHANGED <<today, log, market, snaps, settled>> /\ today \in Day
  BY DEF BootStart, HistoryInv, TypeOK, rows
<1>2. CASE boot.job = "historical_networth"
  BY <1>1, <1>2, SettledBegin, NetWorthAssumption DEF BootStart
<1>3. CASE boot.job # "historical_networth"
  <2>1. UNCHANGED <<replay, alone>>
    BY <1>3 DEF BootStart
  <2> QED
    BY <1>1, <2>1, SettledStays, NetWorthAssumption DEF Day
<1> QED
  BY <1>2, <1>3

LEMMA SettledRequest ==
    ASSUME HistoryInv, SettledInv,
           \/ \E w \in Worker \ {Boot} :
                Import(w) \/ ImportEnds(w) \/ ImportFails(w) \/ Rebuild(w)
           \/ \E a \in {AccountOf[t] : t \in Txn} : DeleteAccount(a)
    PROVE  SettledInv'
<1>1. ASSUME NEW w \in Worker, Rebuild(w) PROVE SettledInv'
  BY <1>1, SettledBegin DEF Rebuild, tables, rows
<1>2. ASSUME NEW w, Import(w) PROVE SettledInv'
  BY <1>2, Disturbed DEF Import
<1>3. ASSUME NEW a, DeleteAccount(a) PROVE SettledInv'
  BY <1>3, Disturbed DEF DeleteAccount
<1>4. ASSUME NEW w \in Worker, ImportEnds(w) PROVE SettledInv'
  BY <1>4, SettledBegin DEF ImportEnds
<1>5. ASSUME NEW w \in Worker, ImportFails(w) PROVE SettledInv'
  <2>1. /\ replay[w] # Idle /\ replay' = [replay EXCEPT ![w] = Idle]
        /\ UNCHANGED <<today, log, market, snaps, alone, settled>>
    BY <1>5 DEF ImportFails, Importing, Idle, tables, rows, ghosts
  <2>2. Current(Idle) /\ Written(Idle)
    BY DEF Current, Written, Idle
  <2> QED
    BY <2>1, <2>2, SettledReplayMoves
<1> QED
  BY <1>1, <1>2, <1>3, <1>4, <1>5

(* The end of the process leaves the tables as they are.                   *)
LEMMA SettledCrash ==
    ASSUME HistoryInv, SettledInv, Crash
    PROVE  SettledInv'
<1>1. /\ UNCHANGED <<today, log, market, snaps, settled>>
      /\ alone' = {} /\ \A w \in Worker : replay'[w] = Idle
  BY DEF Crash, tables, rows
<1>2. \A w \in Worker : (Current(replay[w]))'
  BY <1>1 DEF Current, Idle
<1>3. \A d : Exact(d)' = Exact(d)
  BY <1>1 DEF Exact
<1> QED
  BY <1>1, <1>2, <1>3 DEF SettledInv

LEMMA SettledInductive ==
    HistoryInv /\ SettledInv /\ [Next]_vars => SettledInv'
BY SettledReplay, SettledElsewhere, SettledLiveStore, SettledSources,
   SettledBootStart, SettledRequest, SettledCrash
   DEF Next, LiveStep, BootStep, ManualStep

-----------------------------------------------------------------------------
(* The variables of NetWorth keep their types, for any goroutines, days    *)
(* and transactions.                                                       *)
THEOREM NetWorthTypeCorrect == Spec => []TypeOK
<1>1. HistoryInv => TypeOK
  BY DEF HistoryInv
<1> QED
  BY <1>1, HistoryInitial, HistoryInductive, PTL DEF Spec

(* No day of the history counts a transaction of a later day: not when     *)
(* midnight passes between the reads of a snapshot and its upsert, and not *)
(* when replays of an older log overlap (jobs.go:807-818, 1013-1148).      *)
THEOREM HistoryNeverLooksAhead == Spec => []NoLookAhead
<1>1. HistoryInv => NoLookAhead
  BY DEF HistoryInv
<1> QED
  BY <1>1, HistoryInitial, HistoryInductive, PTL DEF Spec

(* A replay that nothing interfered with leaves every day from the first   *)
(* transaction to the day before it as the tables say, whatever crashes    *)
(* and stale replays had left there.                                       *)
THEOREM UndisturbedReplayRepairs == Spec => []SettledExact
<1>1. Init => SettledInv
  BY DEF Init, SettledInv
<1>2. SettledInv => SettledExact
  BY DEF SettledInv, SettledExact
<1> QED
  BY <1>1, <1>2, HistoryInitial, HistoryInductive, SettledInductive, PTL DEF Spec

=============================================================================
