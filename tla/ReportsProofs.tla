---------------------------- MODULE ReportsProofs ----------------------------
(***************************************************************************)
(* Digests, start-up backfills and the period of a report, for any number  *)
(* of months, requests and restarts and any calendar.                      *)
(***************************************************************************)
EXTENDS Reports, SequenceTheorems, FiniteSetTheorems,
        WellFoundedInduction, TLAPS

-----------------------------------------------------------------------------
(* The calendar *)

LEMMA LeastNatural ==
    ASSUME NEW S \in SUBSET Nat, S # {}
    PROVE  \E m \in S : \A n \in S : m <= n
<1> DEFINE R == {ss \in Nat \X Nat : ss[1] < ss[2]}
<1>1. IsWellFoundedOn(R, Nat)
  BY NatLessThanWellFounded DEF OpToRel
<1>2. PICK m \in S : \A n \in S : <<n, m>> \notin R
  <2> HIDE DEF R
  <2> QED
    BY <1>1, WFMin
<1>3. \A n \in S : ~ (n < m)
  BY <1>2
<1> QED
  BY <1>3

LEMMA YearBounds ==
    ASSUME NEW m \in Nat, NEW y \in Int, y < YearOf(m)
    PROVE  (y + 1) * YearLength - 1 < m /\ YearOf(m) \in Int
<1>1. YearLength \in Nat \ {0}
  BY ReportsAssumption
<1>2. YearOf(m) \in Int /\ YearOf(m) * YearLength <= m
  BY <1>1 DEF YearOf
<1>3. (y + 1) * YearLength <= YearOf(m) * YearLength
  BY <1>1, <1>2
<1>4. (y + 1) * YearLength \in Int
  BY <1>1
<1> QED
  BY <1>1, <1>2, <1>3, <1>4

-----------------------------------------------------------------------------
(* The invariant *)

JobRecord == [phase : {"check", "insert", "monthly", "quarterly"},
              period : Period, asOf : Int]

(* The backfill lists periods, of years too that the model has no month of. *)
AnyPeriod == [type : {"monthly", "annual"}, label : Int]

BootRecord == [phase : {"check", "insert"}, todo : Seq(AnyPeriod), asOf : Int,
               from : Int, upTo : Int]

WebRecord == [phase : {"check", "insert"}, period : Period, asOf : Int]

Fetching == [phase |-> "fetch"]

ReportsTypeOK ==
    /\ load \in Workloads
    /\ up \in BOOLEAN
    /\ month \in FirstMonth .. LastMonth
    /\ due \in {"none", "monthly", "annual"}
    /\ snapDays \in [Month -> 0 .. 2]
    /\ reports \in [Period -> Seq(Int)]
    /\ digests \in [Month \X Frequency -> Nat]
    /\ job \in {Idle} \cup JobRecord
    /\ boot \in {Idle, Fetching} \cup BootRecord
    /\ web \in [Requester -> {Idle} \cup WebRecord]
    /\ requests \in Nat
    /\ crashes \in Nat
    /\ covered \subseteq Month

(* What a cron job is about is over, and its digests are still to come.    *)
JobOK ==
    job # Idle =>
      /\ EndOf(job.period) < month
      /\ job.phase = "insert" => job.asOf = month
      /\ job.phase \in {"monthly", "quarterly"} =>
           job.period.type = "monthly" /\ Exists(job.period)
      /\ job.period.type = "monthly" =>
           /\ job.period = Monthly(month - 1)
           /\ due # "monthly"
           /\ digests[<<month - 1, "quarterly">>] = 0
           /\ job.phase # "quarterly" => digests[<<month - 1, "monthly">>] = 0

DigestsOK ==
    /\ \A m \in Month, f \in Frequency :
          digests[<<m, f>>] > 0 =>
            digests[<<m, f>>] = 1 /\ Exists(Monthly(m)) /\ m < month
    /\ due = "monthly" => \A f \in Frequency : digests[<<month - 1, f>>] = 0

Ahead(m) == \E i \in 1 .. Len(boot.todo) : boot.todo[i] = Monthly(m)

BootOK ==
    boot \in BootRecord =>
      /\ \A i \in 1 .. Len(boot.todo) : EndOf(boot.todo[i]) < month
      /\ boot.phase = "insert" =>
           boot.todo # <<>> /\ EndOf(boot.todo[1]) < boot.asOf
      /\ boot.from .. boot.upTo \subseteq Month
      /\ "insert" \notin load.faults =>
           \A m \in boot.from .. boot.upTo : Exists(Monthly(m)) \/ Ahead(m)

ReportsInv ==
    ReportsTypeOK /\ JobOK /\ DigestsOK /\ BootOK /\ NoGapAfterStart

(* What a period is. *)
LEMMA Periods ==
    /\ \A m \in Month : Monthly(m) \in Period /\ EndOf(Monthly(m)) = m
    /\ \A m \in Month : Monthly(m).type = "monthly" /\ Monthly(m).label = m
    /\ Period \subseteq AnyPeriod
    /\ \A p \in Period : p.type = "monthly" => \E m \in Month : p = Monthly(m)
    /\ \A y : /\ Annual(y).type = "annual" /\ Annual(y).label = y
              /\ EndOf(Annual(y)) = (y + 1) * YearLength - 1
<1>1. YearLength \in Nat \ {0} /\ LastMonth \in Nat
  BY ReportsAssumption
<1>2. \A m \in Month : m \in Int /\ YearOf(m) \in Int
  BY <1>1 DEF Month, YearOf
<1> QED
  BY <1>2 DEF Period, AnyPeriod, Monthly, Annual, EndOf

(* The lists a backfill walks are given as functions on 1 .. n.            *)
LEMMA SequenceOfFunction ==
    ASSUME NEW S, NEW n \in Int, NEW s \in [1 .. n -> S]
    PROVE  s \in Seq(S) /\ Len(s) = IF n >= 0 THEN n ELSE 0
<1> DEFINE k == IF n >= 0 THEN n ELSE 0
<1>1. k \in Nat /\ 1 .. n = 1 .. k
  OBVIOUS
<1> HIDE DEF k
<1>2. s \in [1 .. k -> S]
  BY <1>1
<1>3. s \in Seq(S)
  BY <1>1, <1>2, SeqDef
<1>4. Len(s) \in Nat /\ 1 .. Len(s) = 1 .. k
  BY <1>2, <1>3, LenProperties
<1>5. Len(s) = k
  BY <1>1, <1>4
<1> QED
  BY <1>3, <1>5 DEF k

LEMMA Missing ==
    ASSUME NEW e \in Month, NEW n \in Month
    PROVE  LET todo == Months(e, n - 1) \o Years(YearOf(e), YearOf(n) - 1)
           IN  /\ todo \in Seq(AnyPeriod)
               /\ \A i \in 1 .. Len(todo) : EndOf(todo[i]) < n
               /\ \A m \in e .. n - 1 : \E i \in 1 .. Len(todo) : todo[i] = Monthly(m)
<1> DEFINE ms == Months(e, n - 1)
           ys == Years(YearOf(e), YearOf(n) - 1)
           todo == ms \o ys
<1>1. /\ e \in Nat /\ n \in Nat /\ YearOf(e) \in Int /\ YearOf(n) \in Int
      /\ LastMonth \in Nat /\ n <= LastMonth
  BY ReportsAssumption DEF Month, YearOf
<1>2. /\ ms \in Seq(AnyPeriod) /\ Len(ms) \in Nat
      /\ Len(ms) = (IF e <= n - 1 THEN n - e ELSE 0)
      /\ \A i \in 1 .. Len(ms) : ms[i] = Monthly(e + i - 1)
  <2>1. \A k \in Int : Monthly(k) \in AnyPeriod
    BY DEF Monthly, AnyPeriod
  <2>2. n - e \in Int /\ ms = [i \in 1 .. n - e |-> Monthly(e + i - 1)]
    BY <1>1 DEF Months
  <2>3. ms \in [1 .. n - e -> AnyPeriod]
    BY <1>1, <2>1, <2>2
  <2>4. ms \in Seq(AnyPeriod) /\ Len(ms) = IF n - e >= 0 THEN n - e ELSE 0
    BY <2>2, <2>3, SequenceOfFunction
  <2> HIDE DEF ms
  <2>5. Len(ms) \in Nat /\ Len(ms) = IF e <= n - 1 THEN n - e ELSE 0
    BY <1>1, <2>4
  <2>6. \A i \in 1 .. Len(ms) : i \in 1 .. n - e
    BY <1>1, <2>5
  <2>7. \A i \in 1 .. Len(ms) : ms[i] = Monthly(e + i - 1)
    BY <2>2, <2>6, Zenon
  <2> QED
    BY <2>4, <2>5, <2>7
<1>3. /\ ys \in Seq(AnyPeriod) /\ Len(ys) \in Nat
      /\ \A i \in 1 .. Len(ys) : ys[i] = Annual(YearOf(e) + i - 1)
      /\ \A i \in 1 .. Len(ys) : YearOf(e) + i - 1 < YearOf(n)
  <2>1. \A k \in Int : Annual(k) \in AnyPeriod
    BY DEF Annual, AnyPeriod
  <2> DEFINE k == YearOf(n) - YearOf(e)
  <2>2. k \in Int /\ ys = [i \in 1 .. k |-> Annual(YearOf(e) + i - 1)]
    BY <1>1 DEF Years
  <2>3. ys \in [1 .. k -> AnyPeriod]
    BY <1>1, <2>1, <2>2
  <2>4. ys \in Seq(AnyPeriod) /\ Len(ys) = IF k >= 0 THEN k ELSE 0
    <3> HIDE DEF k
    <3> QED
      BY <2>2, <2>3, SequenceOfFunction
  <2> HIDE DEF ys
  <2>5. Len(ys) \in Nat /\ \A i \in 1 .. Len(ys) : i \in 1 .. k
    BY <1>1, <2>4
  <2>6. \A i \in 1 .. Len(ys) : ys[i] = Annual(YearOf(e) + i - 1)
    BY <2>2, <2>5, Zenon
  <2>7. \A i \in 1 .. Len(ys) : YearOf(e) + i - 1 < YearOf(n)
    BY <1>1, <2>5
  <2> QED
    BY <2>4, <2>5, <2>6, <2>7
<1> HIDE DEF ms, ys
<1>4. /\ todo \in Seq(AnyPeriod)
      /\ Len(todo) = Len(ms) + Len(ys)
      /\ \A i \in 1 .. Len(ms) + Len(ys) :
            todo[i] = IF i <= Len(ms) THEN ms[i] ELSE ys[i - Len(ms)]
  BY <1>2, <1>3, ConcatProperties
<1> HIDE DEF todo
<1>5. ASSUME NEW i \in 1 .. Len(todo) PROVE EndOf(todo[i]) < n
  <2>1. CASE i <= Len(ms)
    <3>1. e + i - 1 \in Month /\ e + i - 1 < n
      BY <1>1, <1>2, <1>4, <2>1 DEF Month
    <3>2. todo[i] = Monthly(e + i - 1)
      BY <1>2, <1>3, <1>4, <2>1
    <3> QED
      BY <3>1, <3>2, Periods
  <2>2. CASE ~(i <= Len(ms))
    <3> DEFINE k == i - Len(ms)
    <3>1. i \in Int /\ i <= Len(ms) + Len(ys) /\ i \in 1 .. Len(ms) + Len(ys)
      BY <1>2, <1>3, <1>4
    <3>2. k \in 1 .. Len(ys)
      BY <1>2, <1>3, <2>2, <3>1
    <3>3. todo[i] = ys[k]
      BY <1>4, <2>2, <3>1
    <3> HIDE DEF k
    <3> DEFINE y == YearOf(e) + k - 1
    <3>4. todo[i] = Annual(y) /\ y < YearOf(n) /\ y \in Int
      BY <1>1, <1>3, <3>2, <3>3
    <3> HIDE DEF y
    <3> QED
      BY <1>1, <3>4, Periods, YearBounds
  <2> QED
    BY <2>1, <2>2
<1>6. ASSUME NEW m \in e .. n - 1 PROVE \E i \in 1 .. Len(todo) : todo[i] = Monthly(m)
  <2> DEFINE i == m - e + 1
  <2>1. i \in 1 .. Len(ms) /\ e + i - 1 = m /\ i \in 1 .. Len(todo)
    BY <1>1, <1>2, <1>3, <1>4
  <2>2. todo[i] = Monthly(m)
    BY <1>2, <1>3, <1>4, <2>1
  <2> QED
    BY <2>1, <2>2
<1> QED
  BY <1>4, <1>5, <1>6 DEF todo, ms, ys

(* The first month with a snapshot. *)
LEMMA EarliestMonth ==
    ASSUME snapDays \in [Month -> 0 .. 2], EnoughSnaps
    PROVE  Earliest \in Month
<1>1. SnapMonths \in SUBSET Nat
  BY ReportsAssumption DEF SnapMonths, Month
<1>2. SnapMonths # {}
  <2>1. CASE \E m \in Month : snapDays[m] = 2
    BY <2>1 DEF SnapMonths
  <2>2. CASE Cardinality(SnapMonths) >= 2
    BY <2>2, FS_EmptySet
  <2> QED
    BY <2>1, <2>2 DEF EnoughSnaps
<1>3. Earliest \in SnapMonths
  BY <1>1, <1>2, LeastNatural DEF Earliest
<1> QED
  BY <1>3 DEF SnapMonths

-----------------------------------------------------------------------------
(* What a change of one table leaves of the invariant *)

Grows == \A p \in Period : Exists(p) => Exists(p)'

(* A row is added to the period it is about.                               *)
LEMMA Stored ==
    ASSUME ReportsTypeOK, NEW p, NEW a \in Int, Store(p, a)
    PROVE  /\ reports' \in [Period -> Seq(Int)]
           /\ Grows
           /\ p \in Period => Exists(p)'
           /\ \A q \in Period : reports'[q] # reports[q] =>
                 q = p /\ reports'[q][Len(reports'[q])] = a
<1>1. reports \in [Period -> Seq(Int)]
  BY DEF ReportsTypeOK
<1>2. ASSUME NEW q \in Period, q = p
      PROVE  /\ reports'[q] = Append(reports[q], a)
             /\ reports'[q] \in Seq(Int) /\ reports'[q] # <<>>
             /\ reports'[q][Len(reports'[q])] = a
  <2>1. reports[q] \in Seq(Int)
    BY <1>1
  <2>2. reports'[q] = Append(reports[q], a)
    BY <1>1, <1>2 DEF Store
  <2> QED
    BY <2>1, <2>2, AppendProperties, EmptySeq, LenProperties
<1>3. ASSUME NEW q \in Period, q # p
      PROVE  reports'[q] = reports[q]
  BY <1>1, <1>3 DEF Store
<1>4. reports' \in [Period -> Seq(Int)]
  <2>1. DOMAIN reports' = Period /\ reports' = [q \in Period |-> reports'[q]]
    BY <1>1 DEF Store
  <2>2. \A q \in Period : reports'[q] \in Seq(Int)
    BY <1>1, <1>2, <1>3
  <2> QED
    BY <2>1, <2>2
<1>5. Grows
  BY <1>2, <1>3 DEF Grows, Exists
<1> QED
  BY <1>2, <1>3, <1>4, <1>5 DEF Exists

LEMMA JobStays ==
    ASSUME JobOK, ReportsTypeOK, Grows, UNCHANGED <<job, month, due, digests>>
    PROVE  JobOK'
<1> SUFFICES ASSUME job # Idle PROVE JobOK'
  BY DEF JobOK
<1>1. job.period \in Period
  BY DEF ReportsTypeOK, JobRecord
<1>2. Exists(job.period) => (Exists(job.period))'
  <2>1. PICK p \in Period : p = job.period
    BY <1>1
  <2>2. Exists(p) => Exists(p)'
    BY DEF Grows
  <2> QED
    BY <2>1, <2>2 DEF Exists
<1> QED
  BY <1>2 DEF JobOK

LEMMA DigestsStay ==
    ASSUME DigestsOK, Grows, UNCHANGED <<digests, month, due>>
    PROVE  DigestsOK'
<1>1. \A m \in Month : Exists(Monthly(m)) => (Exists(Monthly(m)))'
  <2> TAKE m \in Month
  <2>1. PICK p \in Period : p = Monthly(m)
    BY Periods
  <2> QED
    BY <2>1 DEF Grows, Exists, Monthly
<1> QED
  BY <1>1 DEF DigestsOK

LEMMA BootStays ==
    ASSUME BootOK, ReportsTypeOK, Grows, UNCHANGED <<boot, load>>,
           month' \in Int, month <= month'
    PROVE  BootOK'
<1> SUFFICES ASSUME boot \in BootRecord PROVE BootOK'
  BY DEF BootOK
<1>1. \A m \in Month : Exists(Monthly(m)) => (Exists(Monthly(m)))'
  <2> TAKE m \in Month
  <2>1. PICK p \in Period : p = Monthly(m)
    BY Periods
  <2> QED
    BY <2>1 DEF Grows, Exists, Monthly
<1>2. month \in Int
  BY ReportsAssumption DEF ReportsTypeOK
<1>3. ASSUME NEW i \in 1 .. Len(boot.todo) PROVE EndOf(boot.todo[i]) < month'
  <2>1. EndOf(boot.todo[i]) < month
    BY DEF BootOK
  <2>2. boot.todo[i] \in AnyPeriod
    BY ElementOfSeq DEF BootRecord
  <2>3. EndOf(boot.todo[i]) \in Int
    BY <2>2, ReportsAssumption DEF EndOf, AnyPeriod
  <2> QED
    BY <1>2, <2>1, <2>3
<1>4. boot.from .. boot.upTo \subseteq Month
  BY DEF BootOK
<1> QED
  BY <1>1, <1>3, <1>4 DEF BootOK, Ahead

LEMMA NoGapStays ==
    ASSUME NoGapAfterStart, ReportsTypeOK, Grows, UNCHANGED <<covered, load>>
    PROVE  NoGapAfterStart'
<1>1. \A m \in Month : Exists(Monthly(m)) => (Exists(Monthly(m)))'
  <2> TAKE m \in Month
  <2>1. PICK p \in Period : p = Monthly(m)
    BY Periods
  <2> QED
    BY <2>1 DEF Grows, Exists, Monthly
<1> QED
  BY <1>1 DEF NoGapAfterStart, ReportsTypeOK

LEMMA Unchanged ==
    ASSUME UNCHANGED reports
    PROVE  Grows
BY DEF Grows, Exists

LEMMA ReportsInitial == Init => ReportsInv
<1> SUFFICES ASSUME Init PROVE ReportsInv
  OBVIOUS
<1>1. ReportsTypeOK
  <2>1. month \in FirstMonth .. LastMonth
    BY ReportsAssumption DEF Init
  <2>2. snapDays \in [Month -> 0 .. 2]
    BY ReportsAssumption DEF Init, Month
  <2>3. reports \in [Period -> Seq(Int)]
    BY EmptySeq DEF Init
  <2>4. digests \in [Month \X Frequency -> Nat]
    BY DEF Init
  <2> QED
    BY <2>1, <2>2, <2>3, <2>4 DEF Init, ReportsTypeOK, Fetching
<1>2. JobOK /\ DigestsOK
  <2>1. \A m \in Month, f \in Frequency : digests[<<m, f>>] = 0
    BY DEF Init
  <2> QED
    BY <2>1 DEF Init, JobOK, DigestsOK
<1>3. BootOK
  BY DEF Init, BootOK, BootRecord
<1>4. NoGapAfterStart
  BY DEF Init, NoGapAfterStart
<1> QED
  BY <1>1, <1>2, <1>3, <1>4 DEF ReportsInv

-----------------------------------------------------------------------------
(* One lemma for each party *)

LEMMA Parts ==
    ASSUME ReportsInv
    PROVE  /\ ReportsTypeOK /\ JobOK /\ DigestsOK /\ BootOK /\ NoGapAfterStart
           /\ month \in Int /\ month \in Month /\ month - 1 \in Month
BY ReportsAssumption DEF ReportsInv, ReportsTypeOK, Month

(* A step that leaves the reports, the digests and the jobs alone.         *)
LEMMA Quiet ==
    ASSUME ReportsInv, ReportsTypeOK',
           UNCHANGED <<load, month, due, reports, digests, job, boot, covered>>
    PROVE  ReportsInv'
<1>1. Grows
  BY Unchanged
<1> QED
  BY <1>1, Parts, JobStays, DigestsStay, BootStays, NoGapStays DEF ReportsInv

LEMMA NewMonthInv ==
    ASSUME ReportsInv, NewMonth
    PROVE  ReportsInv'
<1> USE Parts
<1>1. /\ job = Idle /\ job' = Idle /\ month' = month + 1 /\ due' = "monthly"
      /\ month' \in FirstMonth .. LastMonth
      /\ UNCHANGED <<load, up, snapDays, reports, digests, boot, web, requests,
                     crashes, covered>>
  <2>1. load.last \in FirstMonth .. LastMonth
    BY ReportsAssumption DEF ReportsTypeOK
  <2> QED
    BY <2>1, ReportsAssumption DEF NewMonth, ReportsTypeOK, counts
<1>2. Grows
  BY <1>1, Unchanged
<1>3. ReportsTypeOK'
  BY <1>1 DEF ReportsTypeOK
<1>4. JobOK'
  BY <1>1 DEF JobOK
<1>5. DigestsOK'
  <2>1. \A m \in Month, f \in Frequency : digests[<<m, f>>] \in Nat /\ m \in Int
    BY ReportsAssumption DEF ReportsTypeOK, Month
  <2>2. \A f \in Frequency : digests[<<month, f>>] = 0
    BY <2>1 DEF DigestsOK
  <2>3. month' - 1 = month
    BY <1>1
  <2>4. \A m \in Month : m < month => m < month'
    BY <1>1, ReportsAssumption DEF Month
  <2> QED
    BY <1>1, <2>2, <2>3, <2>4 DEF DigestsOK, Exists
<1>6. BootOK'
  BY <1>1, <1>2, BootStays
<1> QED
  BY <1>1, <1>2, <1>3, <1>4, <1>5, <1>6, NoGapStays DEF ReportsInv

LEMMA CronInv ==
    ASSUME ReportsInv, Cron
    PROVE  ReportsInv'
<1> USE Parts
<1> DEFINE p == Previous(due)
<1>1. /\ due # "none"
      /\ due' = DueAfter(due) /\ due' \in {"none", "annual"}
      /\ job' = (IF up /\ p \in Period
                 THEN [phase |-> "check", period |-> p, asOf |-> 0] ELSE Idle)
      /\ UNCHANGED <<load, up, month, snapDays, reports, digests, boot, web,
                     requests, crashes, covered>>
  BY DEF Cron, DueAfter, counts
<1>2. Grows
  BY <1>1, Unchanged
<1>3. ReportsTypeOK'
  <2>1. job' \in {Idle} \cup JobRecord
    BY <1>1 DEF JobRecord
  <2> QED
    BY <1>1, <2>1 DEF ReportsTypeOK
<1>4. JobOK'
  <2>1. CASE due = "monthly"
    <3>1. p = Monthly(month - 1) /\ EndOf(p) = month - 1
      BY <2>1, Periods DEF Previous
    <3>2. \A f \in Frequency : digests[<<month - 1, f>>] = 0
      BY <2>1 DEF DigestsOK
    <3> HIDE DEF p
    <3> QED
      BY <1>1, <3>1, <3>2 DEF JobOK, Frequency, Idle
  <2>2. CASE due # "monthly"
    <3>1. p = Annual(YearOf(month) - 1)
      BY <1>1, <2>2 DEF Previous
    <3>2. month \in Nat /\ YearOf(month) \in Int
      BY ReportsAssumption DEF Month, YearOf
    <3>3. p.type = "annual" /\ EndOf(p) < month
      BY <3>1, <3>2, Periods, YearBounds
    <3> HIDE DEF p
    <3> QED
      BY <1>1, <3>3 DEF JobOK, Idle
  <2> QED
    BY <2>1, <2>2
<1>5. DigestsOK'
  BY <1>1 DEF DigestsOK, Exists
<1> QED
  BY <1>1, <1>2, <1>3, <1>4, <1>5, BootStays, NoGapStays DEF ReportsInv

LEMMA SnapshotInv ==
    ASSUME ReportsInv, Snapshot \/ BootReplay
    PROVE  ReportsInv'
<1>1. snapDays' \in [Month -> 0 .. 2]
  BY Parts DEF ReportsTypeOK, Snapshot, BootReplay
<1>2. ReportsTypeOK'
  BY <1>1, Parts DEF ReportsTypeOK, Snapshot, BootReplay, counts, clock
<1> QED
  BY <1>2, Quiet DEF Snapshot, BootReplay, counts, clock

(* A job's record after each of its steps. *)
LEMMA JobMoves ==
    ASSUME NEW r \in JobRecord, NEW m \in Int
    PROVE  /\ [r EXCEPT !.phase = "monthly"] \in JobRecord
           /\ [r EXCEPT !.phase = "monthly"].phase = "monthly"
           /\ [r EXCEPT !.phase = "monthly"].period = r.period
           /\ [r EXCEPT !.phase = "quarterly"] \in JobRecord
           /\ [r EXCEPT !.phase = "quarterly"].phase = "quarterly"
           /\ [r EXCEPT !.phase = "quarterly"].period = r.period
           /\ [r EXCEPT !.phase = "insert", !.asOf = m] \in JobRecord
           /\ [r EXCEPT !.phase = "insert", !.asOf = m].phase = "insert"
           /\ [r EXCEPT !.phase = "insert", !.asOf = m].asOf = m
           /\ [r EXCEPT !.phase = "insert", !.asOf = m].period = r.period
BY DEF JobRecord

LEMMA JobActive ==
    ASSUME ReportsTypeOK, job.phase # "idle"
    PROVE  job \in JobRecord /\ job # Idle /\ job.period \in Period
BY DEF ReportsTypeOK, Idle, JobRecord

LEMMA JobCheckInv ==
    ASSUME ReportsInv, JobCheck
    PROVE  ReportsInv'
<1> USE Parts
<1>1. job \in JobRecord /\ job # Idle
  BY JobActive DEF JobCheck
<1>2. UNCHANGED <<load, up, month, due, snapDays, reports, digests, boot, web,
                  requests, crashes, covered>>
  BY DEF JobCheck, clock, counts
<1>3. Grows
  BY <1>2, Unchanged
<1>4. /\ job' \in {Idle} \cup JobRecord
      /\ job' # Idle => /\ job'.phase = "insert" /\ job'.asOf = month
                        /\ job'.period = job.period
  <2>1. CASE job' = Idle
    BY <2>1
  <2>2. CASE job' = [job EXCEPT !.phase = "insert", !.asOf = month]
    BY <1>1, <2>2, JobMoves
  <2> QED
    BY <2>1, <2>2 DEF JobCheck
<1>5. ReportsTypeOK'
  BY <1>2, <1>4 DEF ReportsTypeOK
<1>6. JobOK'
  BY <1>1, <1>2, <1>4 DEF JobOK, JobCheck
<1> QED
  BY <1>2, <1>3, <1>5, <1>6, DigestsStay, BootStays, NoGapStays DEF ReportsInv

LEMMA JobInsertInv ==
    ASSUME ReportsInv, JobInsert
    PROVE  ReportsInv'
<1> USE Parts
<1>1. job \in JobRecord /\ job # Idle /\ job.period \in Period /\ job.asOf \in Int
  BY JobActive DEF JobInsert, JobRecord
<1>2. UNCHANGED <<load, up, month, due, snapDays, digests, boot, web, requests,
                  crashes, covered>>
  BY DEF JobInsert, clock, counts
<1>3. /\ reports' \in [Period -> Seq(Int)] /\ Grows
      /\ job' # Idle => /\ job' = [job EXCEPT !.phase = "monthly"]
                        /\ job.period.type = "monthly"
                        /\ reports'[job.period] # <<>>
  <2>1. CASE Store(job.period, job.asOf)
    <3>1. PICK p \in Period, a \in Int : p = job.period /\ a = job.asOf
      BY <1>1
    <3>2. Store(p, a)
      BY <2>1, <3>1
    <3>3. reports' \in [Period -> Seq(Int)] /\ Grows /\ Exists(p)'
      BY <3>2, Stored
    <3> QED
      BY <3>1, <3>3 DEF JobInsert, Exists
  <2>2. CASE UNCHANGED reports /\ job' = Idle
    BY <2>2, Unchanged DEF ReportsTypeOK
  <2> QED
    BY <2>1, <2>2 DEF JobInsert
<1>4. /\ job' \in {Idle} \cup JobRecord
      /\ job' # Idle => job'.phase = "monthly" /\ job'.period = job.period
  <2>1. CASE job' = Idle
    BY <2>1
  <2>2. CASE job' = [job EXCEPT !.phase = "monthly"]
    BY <1>1, <2>2, JobMoves
  <2> QED
    BY <1>3, <2>1, <2>2
<1>5. ReportsTypeOK'
  BY <1>2, <1>3, <1>4 DEF ReportsTypeOK
<1>6. JobOK'
  BY <1>1, <1>2, <1>3, <1>4 DEF JobOK, JobInsert, Exists
<1> QED
  BY <1>2, <1>3, <1>5, <1>6, DigestsStay, BootStays, NoGapStays DEF ReportsInv

(* The digest of one frequency is sent, or lost.                           *)
LEMMA SendInv ==
    ASSUME ReportsInv, SendMonthly \/ SendQuarterly
    PROVE  ReportsInv'
<1> USE Parts
<1> DEFINE f == IF job.phase = "monthly" THEN "monthly" ELSE "quarterly"
           k == <<month - 1, f>>
<1>1. /\ job \in JobRecord /\ job # Idle /\ job.phase \in {"monthly", "quarterly"}
      /\ job.period.type = "monthly" /\ Exists(job.period)
      /\ job.period = Monthly(month - 1) /\ due # "monthly"
      /\ digests[<<month - 1, "quarterly">>] = 0
      /\ job.phase # "quarterly" => digests[<<month - 1, "monthly">>] = 0
  BY JobActive DEF SendMonthly, SendQuarterly, JobOK
<1>2. UNCHANGED <<load, up, month, due, snapDays, reports, boot, web, requests,
                  crashes, covered>>
  BY DEF SendMonthly, SendQuarterly, clock, counts
<1>3. Grows
  BY <1>2, Unchanged
<1>4. f \in Frequency /\ k \in Month \X Frequency /\ digests[k] = 0
  BY <1>1 DEF Frequency
<1>5. digests' = [digests EXCEPT ![k] = @ + 1] \/ UNCHANGED digests
  BY <1>1, Periods DEF SendMonthly, SendQuarterly, Dispatch
<1>6. /\ job' \in {Idle} \cup JobRecord
      /\ job' # Idle => /\ f = "monthly" /\ job'.phase = "quarterly"
                        /\ job'.period = job.period
  <2>1. CASE job' = Idle
    BY <2>1
  <2>2. CASE job.phase = "monthly" /\ job' = [job EXCEPT !.phase = "quarterly"]
    BY <1>1, <2>2, JobMoves
  <2> QED
    BY <2>1, <2>2 DEF SendMonthly, SendQuarterly
<1> HIDE DEF f, k
<1>7. /\ digests' \in [Month \X Frequency -> Nat]
      /\ \A i \in Month \X Frequency : i # k => digests'[i] = digests[i]
      /\ digests'[k] \in {0, 1}
  BY <1>4, <1>5 DEF ReportsTypeOK
<1>8. ReportsTypeOK'
  BY <1>2, <1>6, <1>7 DEF ReportsTypeOK
<1>9. JobOK'
  <2> SUFFICES ASSUME job' # Idle PROVE JobOK'
    BY DEF JobOK
  <2>1. <<month - 1, "quarterly">> # k
    BY <1>6 DEF k
  <2>2. digests'[<<month - 1, "quarterly">>] = 0
    BY <1>1, <1>7, <2>1 DEF Frequency
  <2> QED
    BY <1>1, <1>2, <1>6, <2>2 DEF JobOK, Exists
<1>10. DigestsOK'
  <2>1. ASSUME NEW m \in Month, NEW g \in Frequency, digests'[<<m, g>>] > 0
        PROVE  digests'[<<m, g>>] = 1 /\ Exists(Monthly(m))' /\ m < month'
    <3>1. CASE <<m, g>> = k
      <4>1. m = month - 1
        BY <3>1 DEF k
      <4>2. digests'[<<m, g>>] = 1
        BY <1>7, <2>1, <3>1
      <4> QED
        BY <1>1, <1>2, <4>1, <4>2 DEF Exists, Monthly
    <3>2. CASE <<m, g>> # k
      BY <1>2, <1>7, <2>1, <3>2 DEF DigestsOK, Exists
    <3> QED
      BY <3>1, <3>2
  <2>2. due' # "monthly"
    BY <1>1, <1>2
  <2> QED
    BY <2>1, <2>2 DEF DigestsOK
<1> QED
  BY <1>2, <1>3, <1>8, <1>9, <1>10, BootStays, NoGapStays DEF ReportsInv

LEMMA BootActive ==
    ASSUME ReportsTypeOK, boot.phase \in {"check", "insert"}
    PROVE  boot \in BootRecord
BY DEF ReportsTypeOK, Idle, Fetching

(* ListNetWorthSnapshots: the months to report, or nothing to do.          *)
LEMMA BootListInv ==
    ASSUME ReportsInv, BootList
    PROVE  ReportsInv'
<1> USE Parts
<1>1. UNCHANGED <<load, up, month, due, snapDays, reports, digests, job, web,
                  requests, crashes, covered>>
  BY DEF BootList, clock, counts
<1>2. Grows
  BY <1>1, Unchanged
<1>3. boot' \in {Idle} \cup BootRecord /\ BootOK'
  <2>1. CASE boot' = Idle
    BY <2>1 DEF BootOK, BootRecord, Idle
  <2>2. CASE /\ EnoughSnaps
             /\ boot' = [phase |-> "check", todo |-> MissingUpTo(month),
                         asOf |-> 0, from |-> Earliest, upTo |-> month - 1]
    <3> DEFINE todo == MissingUpTo(month)
    <3>1. Earliest \in Month
      BY <2>2, EarliestMonth DEF ReportsTypeOK
    <3>2. /\ todo \in Seq(AnyPeriod)
          /\ \A i \in 1 .. Len(todo) : EndOf(todo[i]) < month
          /\ \A m \in Earliest .. month - 1 :
                \E i \in 1 .. Len(todo) : todo[i] = Monthly(m)
      BY <3>1, Missing DEF MissingUpTo
    <3> HIDE DEF todo
    <3>3. /\ boot'.phase = "check" /\ boot'.todo = todo
          /\ boot'.from = Earliest /\ boot'.upTo = month - 1
      BY <2>2 DEF todo
    <3>4. Earliest \in Int /\ Earliest .. month - 1 \subseteq Month
      BY <3>1, ReportsAssumption DEF Month
    <3>5. boot' \in BootRecord
      BY <2>2, <3>2, <3>4 DEF BootRecord, todo
    <3>6. \A m \in Earliest .. month - 1 : Ahead(m)'
      BY <3>2, <3>3 DEF Ahead
    <3> QED
      BY <1>1, <3>2, <3>3, <3>4, <3>5, <3>6 DEF BootOK
  <2> QED
    BY <2>1, <2>2 DEF BootList
<1>4. ReportsTypeOK'
  BY <1>1, <1>3 DEF ReportsTypeOK
<1> QED
  BY <1>1, <1>2, <1>3, <1>4, JobStays, DigestsStay, NoGapStays DEF ReportsInv

(* The first period of the list is done with: it has a report, or its      *)
(* insert may fail.                                                        *)
LEMMA BootNextOK ==
    ASSUME ReportsInv, boot \in BootRecord, boot.todo # <<>>, BootNext,
           Grows, UNCHANGED <<load, month>>,
           "insert" \notin load.faults =>
              \A m \in Month : Head(boot.todo) = Monthly(m) => Exists(Monthly(m))'
    PROVE  boot' \in BootRecord /\ BootOK'
<1> USE Parts
<1> DEFINE todo == boot.todo
<1>1. todo \in Seq(AnyPeriod) /\ todo # <<>>
  BY DEF BootRecord
<1>2. /\ boot' \in BootRecord /\ boot'.phase = "check" /\ boot'.todo = Tail(todo)
      /\ boot'.from = boot.from /\ boot'.upTo = boot.upTo
  BY <1>1, HeadTailProperties DEF BootNext, BootRecord
<1> HIDE DEF todo
<1>3. /\ Len(todo) \in Nat /\ Len(Tail(todo)) = Len(todo) - 1
      /\ \A i \in 1 .. Len(Tail(todo)) : Tail(todo)[i] = todo[i + 1]
      /\ Head(todo) = todo[1]
  BY <1>1, HeadTailProperties, LenProperties
<1>4. \A i \in 1 .. Len(Tail(todo)) : EndOf(Tail(todo)[i]) < month
  <2>1. \A i \in 1 .. Len(Tail(todo)) : i + 1 \in 1 .. Len(todo)
    BY <1>3
  <2>2. \A i \in 1 .. Len(todo) : EndOf(todo[i]) < month
    BY DEF BootOK, todo
  <2> QED
    BY <1>3, <2>1, <2>2
<1>5. boot.from .. boot.upTo \subseteq Month
  BY DEF BootOK
<1>6. ASSUME "insert" \notin load.faults, NEW m \in boot.from .. boot.upTo
      PROVE  Exists(Monthly(m))' \/ Ahead(m)'
  <2>1. m \in Month /\ Monthly(m) \in Period
    BY <1>5, Periods
  <2>2. CASE Exists(Monthly(m))
    <3>1. PICK p \in Period : p = Monthly(m)
      BY <2>1
    <3> QED
      BY <2>2, <3>1 DEF Grows, Exists, Monthly
  <2>3. CASE Ahead(m)
    <3>1. PICK i \in 1 .. Len(todo) : todo[i] = Monthly(m)
      BY <2>3 DEF Ahead, todo
    <3>2. CASE i = 1
      BY <1>3, <1>6, <2>1, <3>1, <3>2 DEF todo
    <3>3. CASE i # 1
      <4> DEFINE j == i - 1
      <4>1. j \in 1 .. Len(Tail(todo)) /\ j + 1 = i
        BY <1>3, <3>3
      <4>2. Tail(todo)[j] = Monthly(m)
        BY <1>3, <3>1, <4>1
      <4> HIDE DEF j
      <4> QED
        BY <1>2, <4>1, <4>2 DEF Ahead
    <3> QED
      BY <3>2, <3>3
  <2> QED
    BY <1>6, <2>2, <2>3 DEF BootOK
<1>7. BootOK'
  BY <1>2, <1>4, <1>5, <1>6 DEF BootOK
<1> QED
  BY <1>2, <1>7

LEMMA BootCheckInv ==
    ASSUME ReportsInv, BootCheck
    PROVE  ReportsInv'
<1> USE Parts
<1>1. UNCHANGED <<load, up, month, due, snapDays, reports, digests, job, web,
                  requests, crashes, covered>>
  BY DEF BootCheck, clock, counts
<1>2. Grows
  BY <1>1, Unchanged
<1>3. boot \in BootRecord /\ boot.todo # <<>>
  BY BootActive DEF BootCheck
<1>4. boot' \in BootRecord /\ BootOK'
  <2>1. CASE Exists(Head(boot.todo)) /\ BootNext
    <3>1. \A m \in Month : Head(boot.todo) = Monthly(m) => Exists(Monthly(m))'
      BY <1>1, <2>1 DEF Exists, Monthly
    <3> QED
      BY <1>1, <1>2, <1>3, <2>1, <3>1, BootNextOK
  <2>2. CASE boot' = [boot EXCEPT !.phase = "insert", !.asOf = month]
    <3>1. /\ boot' \in BootRecord /\ boot'.phase = "insert" /\ boot'.asOf = month
          /\ boot'.todo = boot.todo /\ boot'.from = boot.from /\ boot'.upTo = boot.upTo
      BY <1>3, <2>2 DEF BootRecord
    <3>2. EndOf(boot.todo[1]) < month
      <4>1. 1 \in 1 .. Len(boot.todo)
        <5>1. boot.todo \in Seq(AnyPeriod)
          BY <1>3 DEF BootRecord
        <5>2. Len(boot.todo) \in Nat \ {0}
          BY <1>3, <5>1, EmptySeq
        <5> QED
          BY <5>2
      <4> QED
        BY <1>3, <4>1 DEF BootOK
    <3>3. \A m : Ahead(m)' = Ahead(m)
      BY <3>1 DEF Ahead
    <3> QED
      BY <1>1, <1>3, <3>1, <3>2, <3>3 DEF BootOK, Exists
  <2> QED
    BY <2>1, <2>2 DEF BootCheck
<1>5. ReportsTypeOK'
  BY <1>1, <1>4 DEF ReportsTypeOK
<1> QED
  BY <1>1, <1>2, <1>4, <1>5, JobStays, DigestsStay, NoGapStays DEF ReportsInv

LEMMA BootInsertInv ==
    ASSUME ReportsInv, BootInsert
    PROVE  ReportsInv'
<1> USE Parts
<1>1. UNCHANGED <<load, up, month, due, snapDays, digests, job, web, requests,
                  crashes, covered>>
  BY DEF BootInsert, clock, counts
<1>2. /\ boot \in BootRecord /\ boot.todo # <<>> /\ boot.asOf \in Int
      /\ BootNext
  BY BootActive DEF BootInsert, BootOK, BootRecord
<1>3. /\ reports' \in [Period -> Seq(Int)] /\ Grows
      /\ "insert" \notin load.faults =>
            \A m \in Month : Head(boot.todo) = Monthly(m) => Exists(Monthly(m))'
  <2>1. CASE Store(Head(boot.todo), boot.asOf)
    <3>1. PICK p : p = Head(boot.todo)
      OBVIOUS
    <3>2. PICK a \in Int : a = boot.asOf
      BY <1>2
    <3>3. reports' \in [Period -> Seq(Int)] /\ Grows /\ (p \in Period => Exists(p)')
      BY <2>1, <3>1, <3>2, Stored
    <3>4. \A m \in Month : p = Monthly(m) => Exists(Monthly(m))'
      BY <3>3, Periods DEF Exists, Monthly
    <3> QED
      BY <3>1, <3>3, <3>4
  <2>2. CASE "insert" \in load.faults /\ UNCHANGED reports
    BY <2>2, Unchanged DEF ReportsTypeOK
  <2> QED
    BY <2>1, <2>2 DEF BootInsert
<1>4. boot' \in BootRecord /\ BootOK'
  BY <1>1, <1>2, <1>3, BootNextOK
<1>5. ReportsTypeOK'
  BY <1>1, <1>3, <1>4 DEF ReportsTypeOK
<1> QED
  BY <1>1, <1>3, <1>4, <1>5, JobStays, DigestsStay, NoGapStays DEF ReportsInv

LEMMA BootDoneInv ==
    ASSUME ReportsInv, BootDone
    PROVE  ReportsInv'
<1> USE Parts
<1>1. /\ UNCHANGED <<load, up, month, due, snapDays, reports, digests, job, web,
                     requests, crashes>>
      /\ boot' = Idle /\ boot.todo = <<>> /\ covered' = boot.from .. boot.upTo
  BY DEF BootDone, clock, counts
<1>2. boot \in BootRecord /\ covered' \subseteq Month
  BY <1>1, BootActive DEF BootDone, BootOK
<1>3. Grows
  BY <1>1, Unchanged
<1>4. ReportsTypeOK'
  BY <1>1, <1>2 DEF ReportsTypeOK
<1>5. BootOK'
  BY <1>1 DEF BootOK, BootRecord, Idle
<1>6. NoGapAfterStart'
  <2>1. 1 .. Len(boot.todo) = {}
    BY <1>1
  <2>2. \A m : ~Ahead(m)
    BY <2>1 DEF Ahead
  <2> QED
    BY <1>1, <1>2, <2>2 DEF NoGapAfterStart, BootOK, Exists
<1> QED
  BY <1>1, <1>3, <1>4, <1>5, <1>6, JobStays, DigestsStay DEF ReportsInv

(* A request: an insert adds a row, all else touches only the request.     *)
LEMMA WebInv ==
    ASSUME ReportsInv, NEW r \in Requester, Request(r) \/ WebStep(r)
    PROVE  ReportsInv'
<1> USE Parts
<1>1. web \in [Requester -> {Idle} \cup WebRecord]
  BY DEF ReportsTypeOK
<1>2. UNCHANGED <<load, up, month, due, snapDays, digests, job, boot, crashes,
                  covered>>
  BY DEF Request, WebStep, WebCheck, WebInsert, clock, counts
<1>3. web' \in [Requester -> {Idle} \cup WebRecord] /\ requests' \in Nat
  <2>1. CASE Request(r)
    <3>1. PICK p \in Period :
            web' = [web EXCEPT ![r] = [phase |-> "check", period |-> p, asOf |-> 0]]
      BY <2>1 DEF Request
    <3>2. [phase |-> "check", period |-> p, asOf |-> 0] \in WebRecord
      BY DEF WebRecord
    <3> QED
      BY <1>1, <2>1, <3>1, <3>2 DEF Request, ReportsTypeOK
  <2>2. CASE WebCheck(r)
    <3>1. web[r] \in WebRecord
      BY <1>1, <2>2 DEF WebCheck, Idle
    <3>2. CASE web' = [web EXCEPT ![r] = Idle]
      BY <1>1, <2>2, <3>2 DEF WebCheck, counts, ReportsTypeOK
    <3>3. CASE web' = [web EXCEPT ![r].phase = "insert", ![r].asOf = month]
      <4>1. /\ \A q \in Requester \ {r} : web'[q] = web[q]
            /\ web'[r] = [web[r] EXCEPT !.phase = "insert", !.asOf = month]
            /\ DOMAIN web' = Requester /\ web' = [q \in Requester |-> web'[q]]
        BY <1>1, <3>3
      <4>2. web'[r] \in WebRecord
        BY <3>1, <4>1 DEF WebRecord
      <4>3. \A q \in Requester : web'[q] \in {Idle} \cup WebRecord
        BY <1>1, <4>1, <4>2
      <4> QED
        BY <2>2, <4>1, <4>3 DEF WebCheck, counts, ReportsTypeOK
    <3> QED
      BY <2>2, <3>2, <3>3 DEF WebCheck
  <2>3. CASE WebInsert(r)
    BY <1>1, <2>3 DEF WebInsert, counts, ReportsTypeOK
  <2> QED
    BY <2>1, <2>2, <2>3 DEF WebStep
<1>4. reports' \in [Period -> Seq(Int)] /\ Grows
  <2>1. CASE UNCHANGED reports
    BY <2>1, Unchanged DEF ReportsTypeOK
  <2>2. CASE WebInsert(r) /\ Store(web[r].period, web[r].asOf)
    <3>1. web[r] \in WebRecord
      BY <1>1, <2>2 DEF WebInsert, Idle
    <3>2. PICK p \in Period, a \in Int : p = web[r].period /\ a = web[r].asOf
      BY <3>1 DEF WebRecord
    <3> QED
      BY <2>2, <3>2, Stored
  <2> QED
    BY <2>1, <2>2 DEF Request, WebStep, WebCheck, WebInsert
<1>5. ReportsTypeOK'
  BY <1>2, <1>3, <1>4 DEF ReportsTypeOK
<1> QED
  BY <1>2, <1>4, <1>5, JobStays, DigestsStay, BootStays, NoGapStays DEF ReportsInv

LEMMA LifeInv ==
    ASSUME ReportsInv, Crash \/ Start \/ UNCHANGED vars
    PROVE  ReportsInv'
<1> USE Parts
<1>1. /\ UNCHANGED <<load, month, due, snapDays, reports, digests, covered>>
      /\ job' = Idle \/ UNCHANGED job
      /\ boot' \in {Idle, Fetching} \/ UNCHANGED boot
  BY DEF Crash, Start, vars, clock, Fetching
<1>2. ReportsTypeOK'
  <2>1. crashes' \in {crashes, crashes + 1} /\ UNCHANGED requests
    BY DEF Crash, Start, vars, counts
  <2>2. up' \in BOOLEAN
    <3>1. up \in BOOLEAN
      BY DEF ReportsTypeOK
    <3>2. CASE UNCHANGED vars
      BY <3>1, <3>2 DEF vars
    <3> QED
      BY <3>2 DEF Crash, Start
  <2>3. web' \in [Requester -> {Idle} \cup WebRecord]
    BY DEF Crash, Start, vars, ReportsTypeOK
  <2> QED
    BY <1>1, <2>1, <2>2, <2>3 DEF ReportsTypeOK
<1>3. Grows
  BY <1>1, Unchanged
<1>4. JobOK'
  BY <1>1, <1>3, JobStays DEF JobOK
<1>5. BootOK'
  BY <1>1, <1>3, BootStays DEF BootOK, BootRecord, Idle, Fetching
<1> QED
  BY <1>1, <1>2, <1>3, <1>4, <1>5, DigestsStay, NoGapStays DEF ReportsInv

LEMMA ReportsInductive == ReportsInv /\ [Next]_vars => ReportsInv'
BY NewMonthInv, CronInv, SnapshotInv, JobCheckInv, JobInsertInv, SendInv,
   BootListInv, BootCheckInv, BootInsertInv, BootDoneInv, WebInv, LifeInv
   DEF Next, JobStep, BootStep

-----------------------------------------------------------------------------
(* A digest is about a report that is stored and is sent once, whatever    *)
(* crashes and whoever else writes reports (jobs.go:182-246).              *)
THEOREM DigestsSafe == Spec => []DigestHasReport
<1>1. ReportsInv => DigestHasReport
  BY DEF ReportsInv, DigestsOK, DigestHasReport
<1> QED
  BY <1>1, ReportsInitial, ReportsInductive, PTL DEF Spec

(* A start that ran to its end leaves no month without a report, from the  *)
(* first snapshot to the last month, unless an insert may fail             *)
(* (jobs.go:308-359).                                                      *)
THEOREM BackfillsLeaveNoGap == Spec => []NoGapAfterStart
<1>1. ReportsInv => NoGapAfterStart
  BY DEF ReportsInv
<1> QED
  BY <1>1, ReportsInitial, ReportsInductive, PTL DEF Spec

(* What the jobs and the backfill store was computed after the end of its  *)
(* period, for any calendar.                                               *)
LEMMA StoredAfterPeriod ==
    ASSUME ReportsInv, Next, job' # job \/ boot' # boot
    PROVE  \A p \in Period : reports'[p] # reports[p] =>
              reports'[p][Len(reports'[p])] > EndOf(p)
<1> USE Parts
<1> SUFFICES ASSUME NEW p \in Period, reports'[p] # reports[p]
             PROVE  reports'[p][Len(reports'[p])] > EndOf(p)
  OBVIOUS
<1>1. CASE JobInsert
  <2>1. job # Idle /\ job.period \in Period /\ job.asOf \in Int
    BY <1>1, JobActive DEF JobInsert, JobRecord
  <2>2. EndOf(job.period) < job.asOf
    BY <1>1, <2>1 DEF JobOK, JobInsert
  <2>3. PICK q \in Period, a \in Int : q = job.period /\ a = job.asOf
    BY <2>1
  <2>4. Store(q, a)
    BY <1>1, <2>3 DEF JobInsert
  <2>5. p = q /\ reports'[p][Len(reports'[p])] = a
    BY <2>4, Stored
  <2> QED
    BY <2>2, <2>3, <2>5
<1>2. CASE BootInsert
  <2>1. boot \in BootRecord /\ boot.asOf \in Int
    BY <1>2, BootActive DEF BootInsert, BootRecord
  <2>2. boot.todo \in Seq(AnyPeriod) /\ boot.todo # <<>> /\ EndOf(boot.todo[1]) < boot.asOf
    BY <1>2, <2>1 DEF BootOK, BootInsert, BootRecord
  <2>3. Head(boot.todo) = boot.todo[1]
    BY <2>2
  <2>4. PICK q : q = Head(boot.todo)
    OBVIOUS
  <2>5. PICK a \in Int : a = boot.asOf
    BY <2>1
  <2>6. Store(q, a)
    BY <1>2, <2>4, <2>5 DEF BootInsert
  <2>7. p = q /\ reports'[p][Len(reports'[p])] = a
    BY <2>6, Stored
  <2> QED
    BY <2>2, <2>3, <2>4, <2>5, <2>7
<1> QED
  BY <1>1, <1>2 DEF Next, NewMonth, Cron, Snapshot, JobStep, JobCheck,
     SendMonthly, SendQuarterly, BootReplay, BootStep, BootList, BootCheck,
     BootDone, Request, WebStep, WebCheck, WebInsert, Crash, Start

(* The monthly and the annual job and the backfill of a start add reports  *)
(* only of periods that are over (jobs.go:1471-1503, 1553-1631).           *)
THEOREM ReportsWaitForPeriod == Spec => ScheduledAfterPeriod
<1>1. ReportsInv /\ [Next]_vars =>
        [job' # job \/ boot' # boot =>
           \A p \in Period : reports'[p] # reports[p] =>
             reports'[p][Len(reports'[p])] > EndOf(p)]_vars
  BY StoredAfterPeriod
<1> QED
  BY <1>1, ReportsInitial, ReportsInductive, PTL DEF Spec, ScheduledAfterPeriod

(* A second report of a period only comes from those who looked before the *)
(* first one was there, unless a look-up may fail (reports.go:143-160).    *)
LEMMA NobodyJoins ==
    ASSUME ReportsInv, Next, NEW p \in Period, Exists(p), "exists" \notin load.faults
    PROVE  Storing(p)' \subseteq Storing(p)
<1> USE Parts
<1>1. ASSUME job'.phase = "insert", job'.period = p
      PROVE  job.phase = "insert" /\ job.period = p
  <2>1. CASE UNCHANGED job
    BY <1>1, <2>1
  <2>2. CASE job' = Idle
    BY <1>1, <2>2 DEF Idle
  <2>3. CASE Cron
    BY <1>1, <2>3 DEF Cron, Idle
  <2>4. CASE JobStep
    <3>1. job \in JobRecord
      BY <2>4, JobActive DEF JobStep, JobCheck, JobInsert, SendMonthly, SendQuarterly
    <3>2. CASE JobCheck /\ job' = [job EXCEPT !.phase = "insert", !.asOf = month]
               /\ ~Exists(job.period)
      <4>1. job'.period = job.period
        BY <3>1, <3>2, JobMoves
      <4> QED
        BY <1>1, <3>2, <4>1 DEF Exists
    <3>3. CASE JobInsert /\ job' = [job EXCEPT !.phase = "monthly"]
      BY <1>1, <3>1, <3>3, JobMoves
    <3>4. CASE SendMonthly /\ job' = [job EXCEPT !.phase = "quarterly"]
      BY <1>1, <3>1, <3>4, JobMoves
    <3> QED
      BY <2>2, <2>4, <3>2, <3>3, <3>4
         DEF JobStep, JobCheck, JobInsert, SendMonthly, SendQuarterly
  <2> QED
    BY <2>1, <2>2, <2>3, <2>4 DEF Next, NewMonth, Snapshot, BootReplay, BootStep,
       BootList, BootCheck, BootInsert, BootDone, Request, WebStep, WebCheck,
       WebInsert, Crash, Start
<1>2. ASSUME boot'.phase = "insert", Head(boot'.todo) = p
      PROVE  boot.phase = "insert" /\ Head(boot.todo) = p
  <2>1. CASE UNCHANGED boot
    BY <1>2, <2>1
  <2>2. CASE boot' \in {Idle, Fetching}
    BY <1>2, <2>2 DEF Idle, Fetching
  <2>3. CASE BootList
    BY <1>2, <2>3 DEF BootList, Idle
  <2>4. CASE BootNext /\ boot \in BootRecord
    BY <1>2, <2>4 DEF BootNext, BootRecord
  <2>5. CASE /\ boot \in BootRecord /\ ~Exists(Head(boot.todo))
             /\ boot' = [boot EXCEPT !.phase = "insert", !.asOf = month]
    <3>1. boot'.todo = boot.todo
      BY <2>5 DEF BootRecord
    <3> QED
      BY <1>2, <2>5, <3>1 DEF Exists
  <2>6. BootCheck \/ BootInsert => boot \in BootRecord
    BY BootActive DEF BootCheck, BootInsert
  <2> QED
    BY <2>1, <2>2, <2>3, <2>4, <2>5, <2>6 DEF Next, NewMonth, Cron, Snapshot,
       JobStep, JobCheck, JobInsert, SendMonthly, SendQuarterly, BootReplay,
       BootStep, BootCheck, BootInsert, BootDone, Request, WebStep, WebCheck,
       WebInsert, Crash, Start, Fetching
<1>3. ASSUME NEW r \in Requester, web'[r].phase = "insert", web'[r].period = p
      PROVE  web[r].phase = "insert" /\ web[r].period = p
  <2>1. web \in [Requester -> {Idle} \cup WebRecord]
    BY DEF ReportsTypeOK
  <2>2. CASE web'[r] = web[r]
    BY <1>3, <2>2
  <2>3. CASE web'[r] = Idle
    BY <1>3, <2>3 DEF Idle
  <2>4. CASE Request(r)
    BY <1>3, <2>1, <2>4 DEF Request
  <2>5. CASE /\ web[r] \in WebRecord /\ ~Exists(web[r].period)
             /\ web' = [web EXCEPT ![r].phase = "insert", ![r].asOf = month]
    <3>1. web'[r] = [web[r] EXCEPT !.phase = "insert", !.asOf = month]
      BY <2>1, <2>5
    <3>2. web'[r].period = web[r].period
      BY <2>5, <3>1 DEF WebRecord
    <3> QED
      BY <1>3, <2>5, <3>2 DEF Exists
  <2>6. ASSUME NEW q \in Requester, Request(q) \/ WebStep(q), q # r
        PROVE  web'[r] = web[r]
    BY <2>1, <2>6 DEF Request, WebStep, WebCheck, WebInsert
  <2>7. CASE WebStep(r)
    <3>1. web[r] \in WebRecord
      BY <2>1, <2>7 DEF WebStep, WebCheck, WebInsert, Idle
    <3>2. web' = [web EXCEPT ![r] = Idle] => web'[r] = Idle
      BY <2>1
    <3> QED
      BY <2>3, <2>5, <2>7, <3>1, <3>2 DEF WebStep, WebCheck, WebInsert
  <2>8. CASE Crash
    BY <2>3, <2>8 DEF Crash
  <2>9. CASE UNCHANGED web
    BY <2>2, <2>9
  <2>10. CASE \E q \in Requester : Request(q) \/ WebStep(q)
    BY <2>2, <2>4, <2>6, <2>7, <2>10
  <2> QED
    BY <2>8, <2>9, <2>10 DEF Next, NewMonth, Cron, Snapshot, JobStep, JobCheck,
       JobInsert, SendMonthly, SendQuarterly, BootReplay, BootStep, BootList,
       BootCheck, BootInsert, BootDone, Start
<1> QED
  BY <1>1, <1>2, <1>3 DEF Storing

(* A period that has a report gets another only from somebody who looked   *)
(* for it before it was there, or whose look failed (jobs.go:1485-1501,    *)
(* 1566-1577; handler/reports.go:143-160).                                 *)
THEOREM OnlyRacersAdd == Spec => OnlyRacersRepeat
<1>1. ReportsInv /\ [Next]_vars =>
        [\A p \in Period :
            Exists(p) /\ "exists" \notin load.faults
              => Storing(p)' \subseteq Storing(p)]_vars
  BY NobodyJoins
<1> QED
  BY <1>1, ReportsInitial, ReportsInductive, PTL DEF Spec, OnlyRacersRepeat
==============================================================================
