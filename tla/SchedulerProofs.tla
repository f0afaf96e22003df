------------------------------ MODULE SchedulerProofs ------------------------------
(***************************************************************************)
(* Proofs about Scheduler: its types, and the safety properties that its   *)
(* runs check, for any workload, calendar, list limits and number of       *)
(* goroutines.                                                             *)
(***************************************************************************)
EXTENDS Scheduler, FiniteSetTheorems, WellFoundedInduction, TLAPS

-----------------------------------------------------------------------------
(* Sequences of distinct elements                                          *)

Elements(s) == {s[i] : i \in 1 .. Len(s)}

Distinct(s) == \A i, j \in 1 .. Len(s) : i # j => s[i] # s[j]

(* What is left of a list when its head has been dealt with.               *)
LEMMA Lists ==
    ASSUME NEW S, NEW s \in Seq(S), s # <<>>
    PROVE  /\ Head(s) \in S /\ Head(s) \in Elements(s) /\ Tail(s) \in Seq(S)
           /\ Elements(s) = {Head(s)} \cup Elements(Tail(s))
           /\ Distinct(s) => Distinct(Tail(s)) /\ Head(s) \notin Elements(Tail(s))
<1>1. /\ Tail(s) \in Seq(S) /\ Len(s) \in Nat \ {0} /\ Len(Tail(s)) = Len(s) - 1
      /\ Head(s) = s[1] /\ s[1] \in S
      /\ \A i \in 1 .. Len(s) - 1 : Tail(s)[i] = s[i + 1]
  OBVIOUS
<1>2. Head(s) \in Elements(s)
  BY <1>1 DEF Elements
<1>3. ASSUME NEW x \in Elements(s) PROVE x = Head(s) \/ x \in Elements(Tail(s))
  <2>1. PICK i \in 1 .. Len(s) : x = s[i]
    BY <1>3 DEF Elements
  <2>2. CASE i = 1
    BY <1>1, <2>1, <2>2
  <2>3. CASE i # 1
    <3>1. i - 1 \in 1 .. Len(Tail(s)) /\ Tail(s)[i - 1] = s[i]
      BY <1>1, <2>3
    <3> QED
      BY <2>1, <3>1 DEF Elements
  <2> QED
    BY <2>2, <2>3
<1>4. ASSUME NEW x \in Elements(Tail(s)) PROVE x \in Elements(s)
  <2>1. PICK i \in 1 .. Len(Tail(s)) : x = Tail(s)[i]
    BY <1>4 DEF Elements
  <2>2. i + 1 \in 1 .. Len(s) /\ s[i + 1] = x
    BY <1>1, <2>1
  <2> QED
    BY <2>2 DEF Elements
<1>5. ASSUME Distinct(s) PROVE Distinct(Tail(s)) /\ Head(s) \notin Elements(Tail(s))
  BY <1>1, <1>5 DEF Distinct, Elements
<1> QED
  BY <1>1, <1>2, <1>3, <1>4, <1>5

(* The lists SetToSeqs makes of a finite set have each element once.       *)
LEMMA Orders ==
    ASSUME NEW S, IsFiniteSet(S), NEW s \in SetToSeqs(S)
    PROVE  s \in Seq(S) /\ Distinct(s) /\ Elements(s) = S
<1>1. Cardinality(S) \in Nat
  BY FS_CardinalityType
<1> DEFINE n == Cardinality(S)
<1>2. s \in [1 .. n -> S] /\ \A i, j \in 1 .. n : i # j => s[i] # s[j]
  BY DEF SetToSeqs
<1>3. s \in Seq(S) /\ Len(s) = n
  BY <1>1, <1>2
<1>4. s \in Injection(1 .. n, S)
  BY <1>2 DEF Injection, IsInjective
<1>5. IsFiniteSet(1 .. n) /\ Cardinality(1 .. n) = n
  BY <1>1, FS_Interval
<1>6. s \in Surjection(1 .. n, S)
  BY <1>4, <1>5, FS_Injection
<1>7. Elements(s) = S
  BY <1>2, <1>3, <1>6 DEF Elements, Surjection
<1> QED
  BY <1>2, <1>3, <1>7 DEF Distinct

(* A finite set of ids has finitely many messages.                         *)
LEMMA FiniteTopics ==
    ASSUME NEW kind, NEW ids, IsFiniteSet(ids)
    PROVE  IsFiniteSet(Topics(kind, ids))
<1> DEFINE f == [i \in ids |-> [kind |-> kind, of |-> i]]
<1>1. f \in Surjection(ids, Topics(kind, ids))
  BY DEF Surjection, Topics
<1> QED
  BY <1>1, FS_Surjection

-----------------------------------------------------------------------------
(* The invariant of the notifications                                      *)

ClockOK ==
    /\ day \in Nat \ {0} /\ hour \in 0 .. 23
    /\ faults \in Nat /\ faults <= workload.faults
    /\ up \in BOOLEAN
    /\ crashes \in Nat /\ requests \in Nat /\ moves \in Nat
    /\ workload \in Workloads

(* What a worker has yet to store.                                         *)
Pending(r) ==
    IF r.step = "store" THEN Elements(r.todo)
    ELSE IF r.step = "send" THEN Elements(Tail(r.todo))
    ELSE {}

(* Row n makes a reminder of today a repetition.                           *)
Lately(n) ==
    IF n.topic.kind = "health" THEN day - n.day < HealthGap
    ELSE Month(n.day) = Month(day) /\ Year(n.day) = Year(day)

Noticed == {"event", "cash", "health"}

(* The list of a job that could read the notifications has nothing on it   *)
(* that they say, but those that were out of sight; the other worker only  *)
(* evaluates alerts.                                                       *)
FreshOK ==
    /\ task["cron"].step \in {"store", "send"} => Distinct(task["cron"].todo)
    /\ task["cron"].step \in {"store", "send"} /\ ~task["cron"].blind =>
         \A t \in Pending(task["cron"]), n \in rows :
            t.kind \in Noticed /\ n.topic = t /\ Lately(n) => serial - n.serial >= ReadBy(t)
    /\ task["manual"].job \in {"none", "alerts"}
    /\ \A t \in Pending(task["manual"]) : t.kind = "alert"

EventTopic(e) == [kind |-> "event", of |-> e]

(* The calendar job loses no event that is due.                            *)
CalendarOK ==
    /\ task["cron"].job = "calendar" => hour = 8
    /\ task["cron"].job = "calendar" /\ task["cron"].step \in {"store", "send"} =>
         \A e \in Event : Due(e, 8) =>
            Reminded(e) \/ EventTopic(e) \in untold \cup Pending(task["cron"])

Sending == {w \in Worker : task[w].step = "send"}

(* A notification that was not sent is lost or about to be sent.           *)
SilenceOK ==
    \E lost \in SUBSET Row :
        /\ IsFiniteSet(lost)
        /\ Cardinality(lost) <= 2 * crashes + (workload.faults - faults)
        /\ \A n \in Unsent : n \in lost \/ \E w \in Sending : task[w].row = n.serial

NoticesInv ==
    /\ NoticesTypeOK /\ RepeatsExplained /\ FreshOK
    /\ DueStored /\ CalendarOK /\ SilenceOK

LEMMA Tasks ==
    ASSUME NEW r \in Task
    PROVE  /\ r.step \in {"none", "start", "store", "send"}
           /\ r.step = "none" <=> r = Idle
           /\ r.step = "none" <=> r.job = "none"
           /\ r.step \in {"store", "send"} =>
                r.todo \in Seq(Topic) /\ r.blind \in BOOLEAN
           /\ r.step = "send" => r.row \in Nat
           /\ r.job \in {"none", "calendar", "cash", "loss", "health", "alerts", "digest"}
  BY DEF Task, Idle

LEMMA Writing ==
    ASSUME NEW job \in {"calendar", "cash", "loss", "health", "alerts", "digest"},
           NEW todo \in Seq(Topic), NEW b \in BOOLEAN, NEW r,
           r = [job |-> job, step |-> "store", todo |-> todo, blind |-> b]
    PROVE  /\ r \in Task /\ r.job = job /\ r.step = "store" /\ r.todo = todo
           /\ r.blind = b /\ Pending(r) = Elements(todo)
  BY DEF Task, Pending

LEMMA Constants ==
    /\ Worker = {"cron", "manual"}
    /\ ListEvents \in Nat /\ ListCash \in Nat /\ ListHealth \in Nat /\ HealthGap \in Nat
    /\ \A ids \in SUBSET Event : Topics("event", ids) \in SUBSET Topic
    /\ \A ids \in SUBSET Institution : Topics("cash", ids) \in SUBSET Topic
    /\ \A ids \in SUBSET Security : Topics("loss", ids) \in SUBSET Topic
    /\ \A ids \in SUBSET Alert : Topics("alert", ids) \in SUBSET Topic
    /\ [kind |-> "health"] \in Topic /\ [kind |-> "digest"] \in Topic
  BY NoticesAssumption DEF Worker, Topics, Topic

(* What a job has on its list when it begins.                              *)
LEMMA Compiles ==
    ASSUME NoticesTypeOK, faults \in Nat, NEW job, NEW limit, NEW C \in SUBSET Topic,
           IsFiniteSet(C), Compile(job, limit, C)
    PROVE  \E todo \in Seq(Topic), b \in BOOLEAN :
              /\ task' = [task EXCEPT !["cron"] =
                            [job |-> job, step |-> "store", todo |-> todo, blind |-> b]]
              /\ Distinct(todo) /\ Elements(todo) \subseteq C
              /\ ~b => \A t \in Elements(todo) : ~Told(t, Latest(limit))
              /\ \A t \in C : t \in Elements(todo) \/ Told(t, rows)
              /\ faults' \in Nat /\ faults' <= faults
<1>1. PICK f \in 0 .. 1 : 
          /\ Failing(f)
          /\ LET known == IF f = 1 THEN {} ELSE Latest(limit)
             IN  \E todo \in SetToSeqs({t \in C : ~Told(t, known)}) :
                    InOrder(todo) /\ Assign("cron", job, todo, f = 1)
  BY DEF Compile
<1>2. PICK known : known = IF f = 1 THEN {} ELSE Latest(limit)
  OBVIOUS
<1>3. PICK b \in BOOLEAN : b = (f = 1)
  OBVIOUS
<1>4. PICK K : K = {t \in C : ~Told(t, known)}
  OBVIOUS
<1>5. PICK todo \in SetToSeqs(K) : Assign("cron", job, todo, b)
  BY <1>1, <1>2, <1>3, <1>4, Zenon
<1>6. K \in SUBSET C /\ IsFiniteSet(K)
  BY <1>4, FS_Subset
<1>7. todo \in Seq(K) /\ Distinct(todo) /\ Elements(todo) = K
  BY <1>5, <1>6, Orders
<1>8. todo \in Seq(Topic)
  BY <1>6, <1>7
<1>9. faults' \in Nat /\ faults' <= faults
  BY <1>1 DEF Failing
<1>10. known \subseteq rows
  BY <1>2 DEF Latest
<1>11. \A t \in C : t \in K \/ Told(t, rows)
  BY <1>4, <1>10 DEF Told
<1>12. ~b => \A t \in K : ~Told(t, Latest(limit))
  <2>1. ~b => known = Latest(limit)
    BY <1>1, <1>2, <1>3
  <2> QED
    BY <1>4, <2>1
<1>13. task' = [task EXCEPT !["cron"] =
                   [job |-> job, step |-> "store", todo |-> todo, blind |-> b]]
  BY <1>5, Zenon DEF Assign
<1> QED
  BY <1>6, <1>7, <1>8, <1>9, <1>11, <1>12, <1>13

(* A row that is not among the latest is older than so many others.        *)
LEMMA OutOfSight ==
    ASSUME NoticesTypeOK, NEW limit \in Nat, NEW n \in rows, n \notin Latest(limit)
    PROVE  serial - n.serial >= limit
<1> DEFINE later == {s \in rows : s.serial > n.serial}
<1> DEFINE range == n.serial + 1 .. serial
<1>1. /\ serial \in Nat /\ n.serial \in Nat /\ n.serial <= serial
      /\ \A s \in rows : s.serial \in Nat /\ s.serial <= serial
      /\ \A s, t \in rows : s.serial = t.serial => s = t
  BY DEF NoticesTypeOK, Row
<1>2. ~(Cardinality(later) < limit)
  BY DEF Latest
<1> DEFINE f == [s \in later |-> s.serial]
<1>3. f \in Injection(later, range)
  BY <1>1 DEF Injection, IsInjective
<1>4. IsFiniteSet(range) /\ Cardinality(range) = serial - n.serial
  <2>1. n.serial + 1 \in Int /\ serial \in Int
    BY <1>1
  <2>2. /\ IsFiniteSet(range)
        /\ Cardinality(range) = IF n.serial + 1 > serial THEN 0 ELSE serial - (n.serial + 1) + 1
    BY <2>1, FS_Interval
  <2> QED
    BY <1>1, <2>2
<1> HIDE DEF f, range
<1>5. IsFiniteSet(later) /\ Cardinality(later) <= Cardinality(range)
  BY <1>3, <1>4, FS_Injection
<1>6. Cardinality(later) \in Nat
  BY <1>5, FS_CardinalityType
<1> QED
  BY <1>1, <1>2, <1>4, <1>5, <1>6

LEMMA Telling ==
    /\ \A t \in Topic, K \in SUBSET rows : \A n \in K :
          t.kind \in Noticed /\ n.topic = t /\ Lately(n) => Told(t, K)
    /\ \A e \in Event : Told(EventTopic(e), rows) => Reminded(e)
  BY DEF Noticed, Lately, Told, HasPrefix, SameMonth, EventTopic, Reminded

LEMMA EventTopics ==
    ASSUME NEW e \in Event
    PROVE  EventTopic(e) \in Topic /\ EventTopic(e).kind = "event"
  BY DEF EventTopic, Topic

-----------------------------------------------------------------------------
(* Steps that store no notification                                        *)

LEMMA SilenceStays ==
    ASSUME SilenceOK, ClockOK, rows' \subseteq rows, sent \subseteq sent',
           workload' = workload, crashes' = crashes,
           faults' \in Nat, faults' <= faults,
           \A w \in Worker : task[w].step = "send" \/ task'[w].step = "send"
                               => task'[w] = task[w]
    PROVE  SilenceOK'
<1>1. PICK lost \in SUBSET Row :
          /\ IsFiniteSet(lost)
          /\ Cardinality(lost) <= 2 * crashes + (workload.faults - faults)
          /\ \A n \in Unsent : n \in lost \/ \E w \in Sending : task[w].row = n.serial
  BY DEF SilenceOK
<1>2. Sending' = Sending /\ \A w \in Sending : task'[w] = task[w]
  BY DEF Sending
<1>3. Unsent' \subseteq Unsent
  BY DEF Unsent
<1>4. Cardinality(lost) <= 2 * crashes' + (workload'.faults - faults')
  <2>1. workload.faults \in Nat /\ crashes \in Nat /\ faults \in Nat /\ Cardinality(lost) \in Nat
    BY <1>1, SchedulerAssumption, FS_CardinalityType DEF ClockOK, Workload
  <2> QED
    BY <1>1, <2>1
<1> QED
  BY <1>1, <1>2, <1>3, <1>4 DEF SilenceOK

(* Nothing is stored, workers stop or begin.                               *)
LEMMA Calm ==
    ASSUME NoticesInv, ClockOK, task' \in [Worker -> Task],
           rows' \subseteq rows, \A n \in rows : n.topic.kind = "event" => n \in rows',
           serial' = serial, untold' = untold, sent \subseteq sent',
           "event" \in checked' => "event" \in checked,
           UNCHANGED <<clock, workload, crashes>>, faults' \in Nat, faults' <= faults,
           \A w \in Worker :
              \/ task'[w] = task[w]
              \/ /\ task[w].step # "send" /\ task'[w].step \in {"none", "start"}
                 /\ task'[w].job # "calendar",
           task'["manual"].job \in {"none", "alerts"}
    PROVE  RepeatsExplained' /\ FreshOK' /\ DueStored' /\ CalendarOK' /\ SilenceOK'
<1> USE DEF NoticesInv
<1>1. day' = day /\ hour' = hour
  BY DEF clock
<1>2. RepeatsExplained'
  BY DEF RepeatsExplained, Recent, ReadBy
<1>3. \A w \in Worker : task'[w] = task[w] \/ Pending(task'[w]) = {}
  BY DEF Pending
<1>4. \A n : Lately(n)' <=> Lately(n)
  BY <1>1 DEF Lately, Month, Year
<1>5. "cron" \in Worker /\ "manual" \in Worker
  BY Constants
<1>6. FreshOK'
  <2>1. CASE task'["cron"] = task["cron"]
    BY <1>3, <1>4, <1>5, <2>1 DEF FreshOK
  <2>2. CASE task'["cron"].step \in {"none", "start"}
    BY <1>3, <1>5, <2>2 DEF FreshOK
  <2> QED
    BY <1>5, <2>1, <2>2
<1>7. \A e \in Event : (Reminded(e)' <=> Reminded(e)) /\ (Due(e, 8)' <=> Due(e, 8))
  <2>1. ASSUME NEW e \in Event, Reminded(e) PROVE Reminded(e)'
    BY <1>1, <2>1 DEF Reminded, SameMonth, Month, Year
  <2>2. ASSUME NEW e \in Event, Reminded(e)' PROVE Reminded(e)
    BY <1>1, <2>2 DEF Reminded, SameMonth, Month, Year
  <2>3. \A e \in Event : Due(e, 8)' <=> Due(e, 8)
    BY <1>1 DEF Due, HoursUntil, Year
  <2> QED
    BY <2>1, <2>2, <2>3
<1>8. DueStored'
  BY <1>7 DEF DueStored
<1>9. CalendarOK'
  <2>1. CASE task'["cron"] = task["cron"]
    BY <1>1, <1>7, <2>1 DEF CalendarOK
  <2>2. CASE task'["cron"].job # "calendar"
    BY <2>2 DEF CalendarOK
  <2> QED
    BY <1>5, <2>1, <2>2
<1>10. SilenceOK'
  BY <1>1, SilenceStays
<1> QED
  BY <1>2, <1>6, <1>8, <1>9, <1>10

-----------------------------------------------------------------------------
(* A worker gets a list                                                    *)

LEMMA EventsStay ==
    ASSUME rows' = rows, day' = day
    PROVE  \A e \in Event : (Reminded(e)' <=> Reminded(e)) /\ (Due(e, 8)' <=> Due(e, 8))
<1>1. \A e \in Event : Reminded(e)' <=> Reminded(e)
  BY DEF Reminded, SameMonth, Month, Year
<1>2. \A e \in Event : Due(e, 8)' <=> Due(e, 8)
  BY DEF Due, HoursUntil, Year
<1> QED
  BY <1>1, <1>2

LEMMA ListKeeps ==
    ASSUME NoticesInv, ClockOK, NEW w \in Worker,
           NEW job \in {"calendar", "cash", "loss", "health", "alerts", "digest"},
           NEW todo \in Seq(Topic), NEW b \in BOOLEAN, NEW r,
           r = [job |-> job, step |-> "store", todo |-> todo, blind |-> b],
           task' = [task EXCEPT ![w] = r], task[w].step # "send",
           UNCHANGED <<rows, serial, unread, alerts, channels, sent, untold, clock,
                       workload, crashes>>,
           faults' \in Nat, faults' <= faults,
           Distinct(todo),
           w = "manual" => job = "alerts" /\ \A t \in Elements(todo) : t.kind = "alert",
           ~b => \A t \in Elements(todo), n \in rows :
                    t.kind \in Noticed /\ n.topic = t /\ Lately(n)
                      => serial - n.serial >= ReadBy(t),
           job = "calendar" =>
              hour = 8 /\ \A e \in Event : Due(e, 8) =>
                             Reminded(e) \/ EventTopic(e) \in Elements(todo),
           checked' \subseteq {"event", "cash"},
           "event" \in checked' =>
              \/ "event" \in checked
              \/ \A e \in Event : Due(e, 8) => Reminded(e) \/ EventTopic(e) \in untold
    PROVE  NoticesInv'
<1> USE DEF NoticesInv
<1>1. /\ r \in Task /\ r.job = job /\ r.step = "store" /\ r.todo = todo
      /\ r.blind = b /\ Pending(r) = Elements(todo)
  BY Writing
<1>2. /\ task \in [Worker -> Task] /\ task' \in [Worker -> Task]
      /\ task'[w] = r /\ \A v \in Worker \ {w} : task'[v] = task[v]
  BY <1>1 DEF NoticesTypeOK
<1>3. "cron" \in Worker /\ "manual" \in Worker /\ w \in {"cron", "manual"}
  BY Constants
<1>4. NoticesTypeOK'
  BY <1>1, <1>2 DEF NoticesTypeOK
<1>5. RepeatsExplained'
  BY DEF RepeatsExplained, Recent, ReadBy
<1>6. day' = day /\ hour' = hour
  BY DEF clock
<1>7. \A n : Lately(n)' <=> Lately(n)
  BY <1>6 DEF Lately, Month, Year
<1>8. FreshOK'
  <2>1. CASE w = "cron"
    BY <1>1, <1>2, <1>3, <1>7, <2>1 DEF FreshOK
  <2>2. CASE w = "manual"
    <3>1. task'["cron"] = task["cron"] /\ task'["manual"] = r
      BY <1>2, <1>3, <2>2
    <3>2. Pending(task'["cron"]) = Pending(task["cron"])
      BY <3>1
    <3> QED
      BY <1>1, <1>7, <2>2, <3>1, <3>2 DEF FreshOK
  <2> QED
    BY <1>3, <2>1, <2>2
<1>9. DueStored'
  BY <1>6, EventsStay DEF DueStored, EventTopic
<1>10. CalendarOK'
  <2>1. CASE w = "cron"
    BY <1>1, <1>2, <1>3, <1>6, <2>1, EventsStay DEF CalendarOK
  <2>2. CASE w = "manual"
    <3>1. task'["cron"] = task["cron"]
      BY <1>2, <1>3, <2>2
    <3> QED
      BY <1>6, <3>1, EventsStay DEF CalendarOK
  <2> QED
    BY <1>3, <2>1, <2>2
<1>11. SilenceOK'
  BY <1>1, <1>2, <1>6, SilenceStays
<1> QED
  BY <1>4, <1>5, <1>8, <1>9, <1>10, <1>11

(* The jobs that look up what they have told.                              *)
LEMMA CompileKeeps ==
    ASSUME NoticesInv, ClockOK, NEW job \in {"calendar", "cash", "loss", "health"},
           NEW limit \in Nat, NEW C \in SUBSET Topic, IsFiniteSet(C),
           Compile(job, limit, C), task["cron"].step # "send",
           UNCHANGED <<clock, workload, crashes>>,
           \A t \in C : t.kind \in Noticed => ReadBy(t) = limit,
           job = "calendar" =>
              hour = 8 /\ \A e \in Event : Due(e, 8) => EventTopic(e) \in C,
           checked' \subseteq {"event", "cash"},
           "event" \in checked' =>
              \/ "event" \in checked
              \/ \A e \in Event : Due(e, 8) => Reminded(e) \/ EventTopic(e) \in untold
    PROVE  NoticesInv'
<1>1. NoticesTypeOK /\ faults \in Nat
  BY DEF NoticesInv, ClockOK
<1>2. PICK todo \in Seq(Topic), b \in BOOLEAN :
          /\ task' = [task EXCEPT !["cron"] =
                        [job |-> job, step |-> "store", todo |-> todo, blind |-> b]]
          /\ Distinct(todo) /\ Elements(todo) \subseteq C
          /\ ~b => \A t \in Elements(todo) : ~Told(t, Latest(limit))
          /\ \A t \in C : t \in Elements(todo) \/ Told(t, rows)
          /\ faults' \in Nat /\ faults' <= faults
  BY <1>1, Compiles
<1>3. PICK r : r = [job |-> job, step |-> "store", todo |-> todo, blind |-> b]
  OBVIOUS
<1>4. task' = [task EXCEPT !["cron"] = r]
  BY <1>2, <1>3
<1>5. ASSUME ~b, NEW t \in Elements(todo), NEW n \in rows,
             t.kind \in Noticed, n.topic = t, Lately(n)
      PROVE  serial - n.serial >= ReadBy(t)
  <2>1. Latest(limit) \in SUBSET rows /\ t \in Topic
    BY <1>2, <1>5 DEF Latest
  <2>2. n \notin Latest(limit)
    BY <1>2, <1>5, <2>1, Telling
  <2>3. serial - n.serial >= limit
    BY <1>1, <1>5, <2>2, OutOfSight
  <2> QED
    BY <1>2, <1>5, <2>3
<1>6. job = "calendar" =>
         hour = 8 /\ \A e \in Event : Due(e, 8) =>
                        Reminded(e) \/ EventTopic(e) \in Elements(todo)
  BY <1>2, Telling
<1>7. UNCHANGED <<rows, serial, unread, alerts, channels, sent, untold>>
  BY DEF Compile
<1>8. "cron" \in Worker /\ "cron" # "manual"
  BY Constants
<1> QED
  BY <1>2, <1>3, <1>4, <1>5, <1>6, <1>7, <1>8, ListKeeps

Still == UNCHANGED <<clock, workload, crashes>>

LEMMA CalendarKeeps ==
    ASSUME NoticesInv, ClockOK, Still, CheckTaxCalendar
    PROVE  NoticesInv' /\ faults' \in Nat /\ faults' <= faults
<1>1. PICK due : due = {e \in Event : Due(e, hour)}
  OBVIOUS
<1>2. PICK C : C = Topics("event", due)
  OBVIOUS
<1>3. due \in SUBSET Event /\ IsFiniteSet(due)
  BY <1>1, FS_Subset, NoticesAssumption
<1>4. C \in SUBSET Topic /\ IsFiniteSet(C)
  BY <1>2, <1>3, FiniteTopics, Constants
<1>5. /\ task["cron"] = [job |-> "calendar", step |-> "start"] /\ checked' = checked
      /\ Compile("calendar", ListEvents, C)
  BY <1>1, <1>2 DEF CheckTaxCalendar, Begins
<1>6. hour = 8
  BY <1>5 DEF NoticesInv, CalendarOK
<1>7. \A e \in Event : Due(e, 8) => EventTopic(e) \in C
  BY <1>1, <1>2, <1>6 DEF EventTopic, Topics
<1>8. \A t \in C : ReadBy(t) = ListEvents
  BY <1>2 DEF Topics, ReadBy
<1>9. checked \subseteq {"event", "cash"} /\ NoticesTypeOK /\ faults \in Nat
  BY DEF NoticesInv, NoticesTypeOK, ClockOK
<1>10. faults' \in Nat /\ faults' <= faults
  BY <1>4, <1>5, <1>9, Compiles
<1>11. task["cron"].step # "send" /\ checked' = checked /\ Compile("calendar", ListEvents, C)
  BY <1>5
<1>12. ListEvents \in Nat
  BY Constants
<1> QED
  BY <1>4, <1>6, <1>7, <1>8, <1>9, <1>10, <1>11, <1>12, CompileKeeps DEF Still

LEMMA DepositKeeps ==
    ASSUME NoticesInv, ClockOK, Still, CheckDepositInsurance(workload.accounts)
    PROVE  NoticesInv' /\ faults' \in Nat /\ faults' <= faults
<1>1. workload.accounts \subseteq Institution
  BY SchedulerAssumption DEF ClockOK, Workload
<1>2. PICK over \in SUBSET workload.accounts : Compile("cash", ListCash, Topics("cash", over))
  BY DEF CheckDepositInsurance
<1>3. PICK C : C = Topics("cash", over)
  OBVIOUS
<1>4. C \in SUBSET Topic /\ IsFiniteSet(C)
  <2>1. over \in SUBSET Institution /\ IsFiniteSet(Institution)
    BY <1>1, <1>2, NoticesAssumption
  <2>2. IsFiniteSet(over)
    BY <2>1, FS_Subset
  <2> QED
    BY <1>3, <2>1, <2>2, FiniteTopics, Constants
<1>5. /\ task["cron"].job = "calendar" /\ task["cron"].step = "store"
      /\ task["cron"].todo = <<>> /\ checked' = checked \cup {"event"}
  BY DEF CheckDepositInsurance, Finished
<1>6. Pending(task["cron"]) = {}
  BY <1>5 DEF Pending, Elements
<1>7. \A e \in Event : Due(e, 8) => Reminded(e) \/ EventTopic(e) \in untold
  BY <1>5, <1>6 DEF NoticesInv, CalendarOK
<1>8. \A t \in C : ReadBy(t) = ListCash
  BY <1>3 DEF Topics, ReadBy
<1>9. checked' \subseteq {"event", "cash"} /\ NoticesTypeOK /\ faults \in Nat
  BY <1>5 DEF NoticesInv, NoticesTypeOK, ClockOK
<1>10. faults' \in Nat /\ faults' <= faults
  BY <1>2, <1>3, <1>4, <1>9, Compiles
<1> QED
  BY <1>2, <1>3, <1>4, <1>5, <1>7, <1>8, <1>9, <1>10, CompileKeeps, Constants DEF Still

LEMMA LossKeeps ==
    ASSUME NoticesInv, ClockOK, Still, CheckTaxLossHarvesting(Security)
    PROVE  NoticesInv' /\ faults' \in Nat /\ faults' <= faults
<1>1. PICK down \in SUBSET Security : Compile("loss", ListCash, Topics("loss", down))
  BY DEF CheckTaxLossHarvesting
<1>2. PICK C : C = Topics("loss", down)
  OBVIOUS
<1>3. C \in SUBSET Topic /\ IsFiniteSet(C)
  <2>1. IsFiniteSet(down)
    BY FS_Subset, NoticesAssumption
  <2> QED
    BY <1>2, <2>1, FiniteTopics, Constants
<1>4. task["cron"] = [job |-> "loss", step |-> "start"] /\ checked' = checked
  BY DEF CheckTaxLossHarvesting, Begins
<1>5. \A t \in C : t.kind \notin Noticed
  BY <1>2 DEF Topics, Noticed
<1>6. checked' \subseteq {"event", "cash"} /\ NoticesTypeOK /\ faults \in Nat
  BY <1>4 DEF NoticesInv, NoticesTypeOK, ClockOK
<1>7. faults' \in Nat /\ faults' <= faults
  BY <1>1, <1>2, <1>3, <1>6, Compiles
<1>8. task["cron"].step # "send" /\ checked' = checked /\ Compile("loss", ListCash, C)
  BY <1>1, <1>2, <1>4
<1>9. ListCash \in Nat
  BY Constants
<1> QED
  BY <1>3, <1>5, <1>6, <1>7, <1>8, <1>9, CompileKeeps DEF Still

LEMMA HealthKeeps ==
    ASSUME NoticesInv, ClockOK, Still, WeeklyDataHealth
    PROVE  NoticesInv' /\ faults' \in Nat /\ faults' <= faults
<1>1. PICK C \in SUBSET {[kind |-> "health"]} : Compile("health", ListHealth, C)
  BY DEF WeeklyDataHealth
<1>2. C \in SUBSET Topic /\ IsFiniteSet(C)
  <2>1. IsFiniteSet({[kind |-> "health"]})
    BY FS_Singleton
  <2>2. IsFiniteSet(C)
    BY <2>1, FS_Subset
  <2> QED
    BY <2>2, Constants
<1>3. task["cron"] = [job |-> "health", step |-> "start"] /\ checked' = checked
  BY DEF WeeklyDataHealth, Begins
<1>4. \A t \in C : ReadBy(t) = ListHealth
  BY DEF ReadBy
<1>5. checked' \subseteq {"event", "cash"} /\ NoticesTypeOK /\ faults \in Nat
  BY <1>3 DEF NoticesInv, NoticesTypeOK, ClockOK
<1>6. faults' \in Nat /\ faults' <= faults
  BY <1>1, <1>2, <1>5, Compiles
<1>7. task["cron"].step # "send" /\ checked' = checked
  BY <1>3
<1>8. ListHealth \in Nat /\ C \in SUBSET Topic
  BY <1>2, Constants
<1> QED
  BY <1>1, <1>2, <1>4, <1>5, <1>6, <1>7, <1>8, CompileKeeps DEF Still

LEMMA EvaluateKeeps ==
    ASSUME NoticesInv, ClockOK, Still, NEW w \in Worker, EvaluateAlerts(w)
    PROVE  NoticesInv' /\ faults' = faults
<1>1. task[w] = [job |-> "alerts", step |-> "start"]
  BY DEF EvaluateAlerts, Begins
<1>2. PICK hit \in SUBSET Alert : \E todo \in SetToSeqs(Topics("alert", hit)) :
          Assign(w, "alerts", todo, FALSE)
  BY DEF EvaluateAlerts
<1>3. PICK C : C = Topics("alert", hit)
  OBVIOUS
<1>4. C \in SUBSET Topic /\ IsFiniteSet(C)
  <2>1. IsFiniteSet(hit)
    BY FS_Subset, NoticesAssumption
  <2> QED
    BY <1>3, <2>1, FiniteTopics, Constants
<1>5. PICK todo \in SetToSeqs(C) : Assign(w, "alerts", todo, FALSE)
  BY <1>2, <1>3
<1>6. todo \in Seq(C) /\ Distinct(todo) /\ Elements(todo) = C
  BY <1>5, <1>4, Orders
<1>7. todo \in Seq(Topic)
  BY <1>4, <1>6
<1>8. PICK b \in BOOLEAN : b = FALSE
  OBVIOUS
<1>9. PICK r : r = [job |-> "alerts", step |-> "store", todo |-> todo, blind |-> b]
  OBVIOUS
<1>10. task' = [task EXCEPT ![w] = r]
  BY <1>5, <1>8, <1>9 DEF Assign
<1>11. \A t \in C : t.kind = "alert" /\ t.kind \notin Noticed
  BY <1>3 DEF Topics, Noticed
<1>12. UNCHANGED <<rows, serial, unread, alerts, channels, sent, checked, untold, faults>>
  BY DEF EvaluateAlerts
<1>13. checked \subseteq {"event", "cash"} /\ faults \in Nat
  BY DEF NoticesInv, NoticesTypeOK, ClockOK
<1>14. task[w].step # "send"
  BY <1>1
<1>15. \A t \in Elements(todo) : t.kind = "alert" /\ t.kind \notin Noticed
  BY <1>6, <1>11
<1>16. checked' \subseteq {"event", "cash"} /\ faults' \in Nat /\ faults' <= faults
  BY <1>12, <1>13
<1>17. Distinct(todo)
  BY <1>6
<1>18. NoticesInv'
  BY <1>7, <1>9, <1>10, <1>12, <1>14, <1>15, <1>16, <1>17, ListKeeps DEF Still
<1> QED
  BY <1>12, <1>18

-----------------------------------------------------------------------------
(* notifyAndDispatch                                                       *)

LEMMA Storing ==
    ASSUME NEW r \in Task, r.step = "store", r.todo # <<>>, NEW k \in Nat, NEW q,
           q = [job |-> r.job, step |-> "send", todo |-> r.todo, blind |-> r.blind, row |-> k]
    PROVE  /\ q \in Task /\ q.job = r.job /\ q.step = "send" /\ q.todo = r.todo
           /\ q.row = k /\ q.blind = r.blind /\ r.todo \in Seq(Topic) /\ r.blind \in BOOLEAN
           /\ Head(r.todo) \in Topic
           /\ Pending(r) = {Head(r.todo)} \cup Pending(q)
           /\ Distinct(r.todo) => Head(r.todo) \notin Pending(q)
<1>1. /\ r.todo \in Seq(Topic) /\ r.blind \in BOOLEAN
      /\ r.job \in {"calendar", "cash", "loss", "health", "alerts", "digest"}
  BY DEF Task, Idle
<1>2. q \in Task /\ q.job = r.job /\ q.step = "send" /\ q.todo = r.todo /\ q.blind = r.blind
      /\ q.row = k
  BY <1>1 DEF Task
<1>3. Pending(r) = Elements(r.todo) /\ Pending(q) = Elements(Tail(r.todo))
  BY <1>2 DEF Pending
<1> QED
  BY <1>1, <1>2, <1>3, Lists

LEMMA Dispatching ==
    ASSUME NEW r \in Task, r.step = "send", r.todo # <<>>, NEW q,
           q = [job |-> r.job, step |-> "store", todo |-> Tail(r.todo), blind |-> r.blind]
    PROVE  /\ q \in Task /\ q.job = r.job /\ q.step = "store" /\ q.blind = r.blind
           /\ q.todo = Tail(r.todo)
           /\ Pending(q) = Pending(r)
           /\ Distinct(r.todo) => Distinct(q.todo)
<1>1. /\ r.todo \in Seq(Topic) /\ r.blind \in BOOLEAN
      /\ r.job \in {"calendar", "cash", "loss", "health", "alerts", "digest"}
  BY DEF Task, Idle
<1>2. Distinct(r.todo) => Distinct(Tail(r.todo))
  BY <1>1, Lists
<1>3. Tail(r.todo) \in Seq(Topic)
  BY <1>1
<1>4. PICK b \in BOOLEAN : b = r.blind
  BY <1>1
<1>5. PICK left \in Seq(Topic) : left = Tail(r.todo)
  BY <1>3
<1>6. PICK job \in {"calendar", "cash", "loss", "health", "alerts", "digest"} : job = r.job
  BY <1>1
<1>7. q = [job |-> job, step |-> "store", todo |-> left, blind |-> b]
  BY <1>4, <1>5, <1>6
<1>8. q \in Task /\ q.job = job /\ q.step = "store" /\ q.blind = b /\ q.todo = left
  BY <1>7, Writing
<1>9. q \in Task /\ q.job = r.job /\ q.step = "store" /\ q.blind = r.blind /\ q.todo = Tail(r.todo)
  BY <1>4, <1>5, <1>6, <1>8
<1>10. Pending(q) = Elements(q.todo)
  BY <1>9 DEF Pending
<1>11. Pending(r) = Elements(Tail(r.todo))
  BY DEF Pending
<1> QED
  BY <1>2, <1>9, <1>10, <1>11

(* The notification of a serial.                                           *)
LEMMA Held ==
    ASSUME NoticesTypeOK, NEW k
    PROVE  \E own \in Row : \A n \in rows : n.serial = k => n = own
<1>1. rows \subseteq Row /\ \A n, m \in rows : n.serial = m.serial => n = m
  BY DEF NoticesTypeOK
<1>2. CASE \E n \in rows : n.serial = k
  BY <1>1, <1>2
<1>3. CASE ~\E n \in rows : n.serial = k
  <2>1. PICK n : n = [serial |-> 1, topic |-> [kind |-> "health"], day |-> 1, blind |-> FALSE]
    OBVIOUS
  <2>2. n \in Row
    BY <2>1, Constants DEF Row
  <2> QED
    BY <1>3, <2>2
<1> QED
  BY <1>2, <1>3

LEMMA Limits == \A t : ReadBy(t) \in Nat
  BY Constants DEF ReadBy

(* A notification is stored, or is not.                                    *)
LEMMA InsertRows ==
    ASSUME NoticesInv, ClockOK, NEW w \in Worker, InsertNotification(w),
           NEW t, t = Head(task[w].todo), NEW n,
           n = [serial |-> serial + 1, topic |-> t, day |-> day, blind |-> task[w].blind]
    PROVE  /\ task[w].step = "store" /\ task[w].todo # <<>> /\ task[w] \in Task
           /\ n \in Row /\ n.serial = serial + 1 /\ n.topic = t /\ n.day = day
           /\ n.blind = task[w].blind /\ serial \in Nat
           /\ \/ rows' = rows \cup {n} /\ serial' = serial + 1 /\ untold' = untold
                 /\ unread' = unread \cup {serial + 1} /\ ToSend(w, serial + 1)
              \/ /\ rows' = rows /\ serial' = serial /\ unread' = unread /\ ToSend(w, 0)
                 /\ untold' = IF t.kind = "alert" THEN untold ELSE untold \cup {t}
           /\ faults' \in Nat /\ faults' <= faults
<1>1. task[w].step = "store" /\ task[w].todo # <<>> /\ task[w] \in Task /\ serial \in Nat
  BY DEF InsertNotification, NoticesInv, NoticesTypeOK
<1>2. t \in Topic /\ task[w].blind \in BOOLEAN
  <2>1. task[w].todo \in Seq(Topic) /\ task[w].blind \in BOOLEAN
    BY <1>1 DEF Task, Idle
  <2> QED
    BY <1>1, <2>1, Lists
<1>3. day \in Nat /\ faults \in Nat
  BY DEF ClockOK
<1>4. PICK b \in BOOLEAN : b = task[w].blind
  BY <1>2
<1>5. n = [serial |-> serial + 1, topic |-> t, day |-> day, blind |-> b]
  BY <1>4
<1>6. n \in Row /\ n.serial = serial + 1 /\ n.topic = t /\ n.day = day /\ n.blind = b
  BY <1>1, <1>2, <1>3, <1>5 DEF Row
<1>7. PICK f \in 0 .. 1 :
          /\ Failing(f)
          /\ IF f = 0 /\ Storable(t)
             THEN /\ rows' = rows \cup {n}
                  /\ serial' = serial + 1 /\ unread' = unread \cup {serial + 1}
                  /\ ToSend(w, serial + 1)
                  /\ UNCHANGED untold
             ELSE /\ untold' = IF t.kind = "alert" THEN untold ELSE untold \cup {t}
                  /\ ToSend(w, 0)
                  /\ UNCHANGED <<rows, serial, unread>>
  BY Zenon DEF InsertNotification
<1>8. faults' \in Nat /\ faults' <= faults
  BY <1>3, <1>7 DEF Failing
<1> QED
  BY <1>1, <1>4, <1>6, <1>7, <1>8

LEMMA InsertKeeps ==
    ASSUME NoticesInv, ClockOK, Still, NEW w \in Worker, InsertNotification(w)
    PROVE  NoticesInv' /\ faults' \in Nat /\ faults' <= faults
<1> USE DEF NoticesInv
<1>1. PICK t : t = Head(task[w].todo)
  OBVIOUS
<1>2. PICK n : n = [serial |-> serial + 1, topic |-> t, day |-> day, blind |-> task[w].blind]
  OBVIOUS
<1>3. /\ task[w].step = "store" /\ task[w].todo # <<>> /\ task[w] \in Task
      /\ n \in Row /\ n.serial = serial + 1 /\ n.topic = t /\ n.day = day
      /\ n.blind = task[w].blind /\ serial \in Nat
      /\ \/ rows' = rows \cup {n} /\ serial' = serial + 1 /\ untold' = untold
            /\ unread' = unread \cup {serial + 1} /\ ToSend(w, serial + 1)
         \/ /\ rows' = rows /\ serial' = serial /\ unread' = unread /\ ToSend(w, 0)
            /\ untold' = IF t.kind = "alert" THEN untold ELSE untold \cup {t}
      /\ faults' \in Nat /\ faults' <= faults
  BY <1>1, <1>2, InsertRows
<1>4. PICK id \in Nat : ToSend(w, id) /\ (rows' = rows \/ id = n.serial)
  BY <1>3
<1>5. PICK q : q = [job |-> task[w].job, step |-> "send", todo |-> task[w].todo,
                    blind |-> task[w].blind, row |-> id]
  OBVIOUS
<1>6. /\ q \in Task /\ q.row = id /\ q.job = task[w].job /\ q.step = "send" /\ q.todo = task[w].todo
      /\ q.blind = task[w].blind /\ t \in Topic
      /\ Pending(task[w]) = {t} \cup Pending(q)
      /\ Distinct(task[w].todo) => t \notin Pending(q)
  <2>1. PICK r : r = task[w]
    OBVIOUS
  <2>2. r \in Task /\ r.step = "store" /\ r.todo # <<>> /\ t = Head(r.todo)
    BY <1>1, <1>3, <2>1
  <2>3. q = [job |-> r.job, step |-> "send", todo |-> r.todo, blind |-> r.blind, row |-> id]
    BY <1>5, <2>1
  <2>4. /\ q \in Task /\ q.row = id /\ q.job = r.job /\ q.step = "send" /\ q.todo = r.todo
        /\ q.blind = r.blind /\ Head(r.todo) \in Topic
        /\ Pending(r) = {Head(r.todo)} \cup Pending(q)
        /\ Distinct(r.todo) => Head(r.todo) \notin Pending(q)
    BY <1>4, <2>2, <2>3, Storing
  <2> QED
    BY <2>1, <2>2, <2>4
<1>7. /\ task' = [task EXCEPT ![w] = q]
      /\ UNCHANGED <<alerts, channels, sent, checked>>
  <2>1. task' = [task EXCEPT ![w] = q]
    BY <1>4, <1>5, Zenon DEF ToSend
  <2>2. UNCHANGED <<alerts, channels, sent, checked>>
    BY DEF InsertNotification
  <2> QED
    BY <2>1, <2>2
<1>8. /\ task \in [Worker -> Task] /\ task' \in [Worker -> Task]
      /\ task'[w] = q /\ \A v \in Worker \ {w} : task'[v] = task[v]
  BY <1>6, <1>7 DEF NoticesTypeOK
<1>9. "cron" \in Worker /\ "manual" \in Worker /\ w \in {"cron", "manual"}
  BY Constants
<1>10. day' = day /\ hour' = hour /\ crashes' = crashes /\ workload' = workload
  BY DEF Still, clock
<1>11. rows \subseteq Row /\ \A m \in rows : m.serial \in Nat /\ m.serial <= serial
  BY DEF NoticesTypeOK, Row
<1>12. NoticesTypeOK'
  <2>1. /\ rows' \subseteq Row /\ \A m \in rows' : m.serial <= serial'
        /\ \A m, k \in rows' : m.serial = k.serial => m = k
    BY <1>3, <1>11 DEF NoticesTypeOK
  <2>2. serial' \in Nat /\ unread' \subseteq 1 .. serial'
    <3>1. unread \subseteq 1 .. serial /\ serial \in Nat
      BY <1>3 DEF NoticesTypeOK
    <3>2. unread \cup {serial + 1} \subseteq 1 .. serial + 1
      <4>1. \A u \in unread : u \in 1 .. serial + 1
        BY <3>1
      <4>2. serial + 1 \in 1 .. serial + 1
        BY <3>1
      <4> QED
        BY <4>1, <4>2
    <3>3. CASE serial' = serial + 1 /\ unread' = unread \cup {serial + 1}
      BY <1>3, <3>2, <3>3
    <3>4. CASE serial' = serial /\ unread' = unread
      BY <1>3, <3>1, <3>4
    <3> QED
      BY <1>3, <3>3, <3>4
  <2>3. untold' \subseteq Topic /\ checked' \subseteq {"event", "cash"}
    BY <1>3, <1>6, <1>7 DEF NoticesTypeOK
  <2>4. \A v \in Worker : task'[v].step = "send" => task'[v].todo # <<>>
    BY <1>3, <1>6, <1>8 DEF NoticesTypeOK
  <2> QED
    BY <1>7, <1>8, <2>1, <2>2, <2>3, <2>4 DEF NoticesTypeOK
<1>13. w = "manual" => t.kind = "alert" /\ t.kind \notin Noticed
  BY <1>6 DEF FreshOK, Noticed
<1>14. w = "cron" => Distinct(task["cron"].todo) /\ t \notin Pending(q)
  BY <1>3, <1>6 DEF FreshOK
<1>15. \A m : Lately(m)' <=> Lately(m)
  BY <1>10 DEF Lately, Month, Year
<1>16. RepeatsExplained'
  <2> SUFFICES ASSUME NEW m \in rows', NEW k \in rows',
                      m.serial < k.serial, m.topic = k.topic,
                      m.topic.kind \in {"event", "cash", "health"}, Recent(m, k)
               PROVE  k.blind \/ k.serial - m.serial > ReadBy(m.topic)
    BY DEF RepeatsExplained, Recent, ReadBy
  <2>1. CASE m \in rows /\ k \in rows
    BY <2>1 DEF RepeatsExplained
  <2>2. CASE m \in rows /\ k = n /\ k \notin rows
    <3>1. Lately(m) /\ m.topic = t /\ t.kind \in Noticed
      BY <1>3, <2>2 DEF Lately, Recent, Noticed
    <3>2. w = "cron" /\ t \in Pending(task["cron"])
      BY <1>6, <1>9, <1>13, <3>1
    <3>3. k.blind \/ serial - m.serial >= ReadBy(t)
      BY <1>3, <2>2, <3>1, <3>2 DEF FreshOK
    <3>4. /\ m.serial \in Nat /\ serial \in Nat /\ k.serial = serial + 1
          /\ ReadBy(t) \in Nat /\ m.topic = t
      BY <1>3, <1>11, <2>2, <3>1, Limits
    <3> QED
      BY <3>3, <3>4
  <2>3. CASE m = n /\ m \notin rows
    <3>1. k \in rows \/ k = n
      BY <1>3
    <3>2. k.serial \in Nat /\ k.serial <= serial + 1 /\ m.serial = serial + 1 /\ serial \in Nat
      BY <1>3, <1>11, <2>3, <3>1
    <3> QED
      BY <3>2
  <2> QED
    BY <1>3, <2>1, <2>2, <2>3
<1>17. FreshOK'
  <2>1. ASSUME task'["cron"].step \in {"store", "send"}, ~task'["cron"].blind,
               NEW u \in Pending(task'["cron"]), NEW m \in rows',
               u.kind \in Noticed, m.topic = u, Lately(m)
        PROVE  serial' - m.serial >= ReadBy(u)
    <3>1. /\ task["cron"].step \in {"store", "send"} /\ ~task["cron"].blind
          /\ u \in Pending(task["cron"])
      BY <1>3, <1>6, <1>8, <1>9, <2>1
    <3>2. CASE m \in rows
      <4>1. serial - m.serial >= ReadBy(u)
        BY <2>1, <3>1, <3>2 DEF FreshOK
      <4> QED
        BY <1>3, <1>11, <3>2, <4>1, Limits
    <3>3. CASE m = n
      <4>1. u = t
        BY <1>3, <2>1, <3>3
      <4>2. w = "cron"
        BY <1>9, <1>13, <2>1, <4>1
      <4> QED
        BY <1>8, <1>14, <2>1, <4>1, <4>2
    <3> QED
      BY <1>3, <3>2, <3>3
  <2>2. \A u \in Pending(task'["cron"]), m \in rows' : ReadBy(u)' = ReadBy(u)
    BY DEF ReadBy
  <2>3. task'["cron"].step \in {"store", "send"} => Distinct(task'["cron"].todo)
    BY <1>3, <1>6, <1>8, <1>9 DEF FreshOK
  <2>4. /\ task'["manual"].job \in {"none", "alerts"}
        /\ Pending(task'["manual"]) \subseteq Pending(task["manual"])
    BY <1>6, <1>8, <1>9 DEF FreshOK
  <2> QED
    BY <1>15, <2>1, <2>3, <2>4 DEF FreshOK
<1>18. untold \subseteq untold' /\ rows \subseteq rows'
  BY <1>3
<1>19. \A e \in Event : (Reminded(e) => Reminded(e)') /\ (Due(e, 8)' <=> Due(e, 8))
  <2>1. \A e \in Event : Reminded(e) => Reminded(e)'
    BY <1>10, <1>18 DEF Reminded, SameMonth, Month, Year
  <2>2. \A e \in Event : Due(e, 8)' <=> Due(e, 8)
    BY <1>10 DEF Due, HoursUntil, Year
  <2> QED
    BY <2>1, <2>2
<1>20. DueStored'
  BY <1>7, <1>18, <1>19 DEF DueStored
<1>21. CalendarOK'
  <2>1. CASE w = "cron"
    <3> SUFFICES ASSUME task["cron"].job = "calendar", NEW e \in Event, Due(e, 8)
                 PROVE  Reminded(e)' \/ EventTopic(e) \in untold' \cup Pending(task'["cron"])
      BY <1>3, <1>6, <1>8, <1>9, <1>10, <1>19, <2>1 DEF CalendarOK
    <3>1. Reminded(e) \/ EventTopic(e) \in untold \cup Pending(task["cron"])
      BY <1>3, <2>1 DEF CalendarOK
    <3>2. CASE EventTopic(e) = t
      <4>1. t.kind = "event"
        BY <3>2, EventTopics
      <4>2. rows' = rows \cup {n} => Reminded(e)'
        BY <1>3, <1>10, <3>2 DEF Reminded, EventTopic, SameMonth
      <4> QED
        BY <1>3, <3>2, <4>1, <4>2
    <3> QED
      BY <1>6, <1>8, <1>18, <1>19, <2>1, <3>1, <3>2
  <2>2. CASE w = "manual"
    <3>1. task'["cron"] = task["cron"]
      BY <1>8, <1>9, <2>2
    <3> QED
      BY <1>10, <1>18, <1>19, <3>1 DEF CalendarOK
  <2> QED
    BY <1>9, <2>1, <2>2
<1>22. SilenceOK'
  <2>1. PICK lost \in SUBSET Row :
            /\ IsFiniteSet(lost)
            /\ Cardinality(lost) <= 2 * crashes + (workload.faults - faults)
            /\ \A m \in Unsent : m \in lost \/ \E v \in Sending : task[v].row = m.serial
    BY DEF SilenceOK
  <2>2. w \notin Sending /\ Sending' = Sending \cup {w}
    BY <1>3, <1>6, <1>8 DEF Sending
  <2>3. ASSUME NEW m \in Unsent' PROVE m \in Unsent \/ (m = n /\ id = n.serial)
    BY <1>3, <1>7, <1>4 DEF Unsent
  <2>4. \A m \in Unsent' : m \in lost \/ \E v \in Sending' : task'[v].row = m.serial
    <3>1. \A v \in Sending : v \in Sending' /\ task'[v] = task[v]
      BY <1>8, <2>2 DEF Sending
    <3>2. w \in Sending' /\ task'[w].row = id
      BY <1>6, <1>8, <2>2
    <3> QED
      BY <2>1, <2>3, <3>1, <3>2
  <2>5. Cardinality(lost) <= 2 * crashes' + (workload'.faults - faults')
    <3>1. workload.faults \in Nat /\ crashes \in Nat /\ faults \in Nat /\ Cardinality(lost) \in Nat
      BY <2>1, SchedulerAssumption, FS_CardinalityType DEF ClockOK, Workload
    <3> QED
      BY <1>3, <1>10, <2>1, <3>1
  <2> QED
    BY <2>1, <2>4, <2>5 DEF SilenceOK
<1> QED
  BY <1>3, <1>12, <1>16, <1>17, <1>20, <1>21, <1>22

LEMMA Receiving ==
    ASSUME NoticesTypeOK, NEW category, NEW freq
    PROVE  Receivers(category, freq) \subseteq Channel
  BY DEF Receivers, NoticesTypeOK, ChannelRow

LEMMA DispatchKeeps ==
    ASSUME NoticesInv, ClockOK, Still, NEW w \in Worker, DispatchMessage(w)
    PROVE  NoticesInv' /\ faults' \in Nat /\ faults' <= faults
<1> USE DEF NoticesInv
<1>1. task[w].step = "send" /\ task[w].todo # <<>> /\ task \in [Worker -> Task]
  BY DEF DispatchMessage, NoticesTypeOK
<1>2. PICK q : q = [job |-> task[w].job, step |-> "store", todo |-> Tail(task[w].todo),
                    blind |-> task[w].blind]
  OBVIOUS
<1>3. /\ q \in Task /\ q.job = task[w].job /\ q.step = "store" /\ q.blind = task[w].blind
      /\ q.todo = Tail(task[w].todo)
      /\ Pending(q) = Pending(task[w])
      /\ Distinct(task[w].todo) => Distinct(q.todo)
  BY <1>1, <1>2, Dispatching
<1>4. task' = [task EXCEPT ![w] = q]
  BY <1>2 DEF DispatchMessage, Assign
<1>5. task' \in [Worker -> Task] /\ task'[w] = q /\ \A v \in Worker \ {w} : task'[v] = task[v]
  BY <1>1, <1>3, <1>4
<1>6. UNCHANGED <<rows, serial, unread, alerts, channels, checked, untold>>
  BY DEF DispatchMessage
<1>7. PICK f \in 0 .. 1 :
          /\ Failing(f)
          /\ sent' = IF f = 1 THEN sent ELSE sent \cup
                 {[topic |-> Head(task[w].todo), row |-> task[w].row,
                   to |-> Receivers("alerts", "")]}
  BY DEF DispatchMessage
<1>8. faults' \in Nat /\ faults' = faults - f /\ faults \in Nat
  <2>1. f <= faults /\ faults' = faults - f /\ faults \in Nat
    BY <1>7 DEF Failing, ClockOK
  <2> QED
    BY <2>1
<1>9. PICK t \in Topic, k \in Nat : t = Head(task[w].todo) /\ k = task[w].row
  <2>1. task[w].todo \in Seq(Topic) /\ task[w].row \in Nat
    BY <1>1, Tasks
  <2> QED
    BY <1>1, <2>1
<1>10. day' = day /\ hour' = hour /\ crashes' = crashes /\ workload' = workload
  BY DEF Still, clock
<1>11. "cron" \in Worker /\ "manual" \in Worker /\ w \in {"cron", "manual"}
  BY Constants
<1>12. PICK m : m = [topic |-> t, row |-> k, to |-> Receivers("alerts", "")]
  OBVIOUS
<1>13. m.topic = t /\ m.row = k /\ m.to \subseteq Channel
  BY <1>12, Receiving
<1>14. sent' = IF f = 1 THEN sent ELSE sent \cup {m}
  <2>1. m = [topic |-> Head(task[w].todo), row |-> task[w].row, to |-> Receivers("alerts", "")]
    BY <1>9, <1>12
  <2> QED
    BY <1>7, <2>1
<1>15. NoticesTypeOK'
  <2>1. \A s \in sent' : s.topic \in Topic /\ s.row \in Nat /\ s.to \subseteq Channel
    BY <1>13, <1>14 DEF NoticesTypeOK
  <2>2. \A v \in Worker : task'[v].step = "send" => task'[v].todo # <<>>
    BY <1>3, <1>5 DEF NoticesTypeOK
  <2> QED
    BY <1>5, <1>6, <2>1, <2>2 DEF NoticesTypeOK
<1>16. RepeatsExplained'
  BY <1>6 DEF RepeatsExplained, Recent, ReadBy
<1>17. \A n : Lately(n)' <=> Lately(n)
  BY <1>10 DEF Lately, Month, Year
<1>18. FreshOK'
  <2>1. CASE w = "cron"
    BY <1>1, <1>3, <1>5, <1>6, <1>11, <1>17, <2>1 DEF FreshOK
  <2>2. CASE w = "manual"
    <3>1. task'["cron"] = task["cron"] /\ task'["manual"] = q
      BY <1>5, <1>11, <2>2
    <3>2. Pending(task'["cron"]) = Pending(task["cron"])
      BY <3>1
    <3> QED
      BY <1>3, <1>6, <1>17, <2>2, <3>1, <3>2 DEF FreshOK
  <2> QED
    BY <1>11, <2>1, <2>2
<1>19. DueStored'
  BY <1>6, <1>10, EventsStay DEF DueStored
<1>20. CalendarOK'
  <2>1. CASE w = "cron"
    BY <1>1, <1>3, <1>5, <1>6, <1>10, <1>11, <2>1, EventsStay DEF CalendarOK
  <2>2. CASE w = "manual"
    <3>1. task'["cron"] = task["cron"]
      BY <1>5, <1>11, <2>2
    <3> QED
      BY <1>6, <1>10, <3>1, EventsStay DEF CalendarOK
  <2> QED
    BY <1>11, <2>1, <2>2
<1>21. SilenceOK'
  <2>1. PICK lost \in SUBSET Row :
            /\ IsFiniteSet(lost)
            /\ Cardinality(lost) <= 2 * crashes + (workload.faults - faults)
            /\ \A n \in Unsent : n \in lost \/ \E v \in Sending : task[v].row = n.serial
    BY DEF SilenceOK
  <2>2. w \in Sending /\ Sending' = Sending \ {w} /\ \A v \in Sending' : task'[v] = task[v]
    BY <1>1, <1>3, <1>5 DEF Sending
  <2>3. workload.faults \in Nat /\ crashes \in Nat /\ Cardinality(lost) \in Nat
    BY <2>1, SchedulerAssumption, FS_CardinalityType DEF ClockOK, Workload
  <2>4. CASE f = 0
    <3>1. ASSUME NEW n \in Unsent' PROVE n \in Unsent /\ n.serial # task[w].row
      <4>1. m \in sent' /\ sent \subseteq sent' /\ rows' = rows
        BY <1>6, <1>14, <2>4
      <4>2. n \in rows /\ ~\E s \in sent' : s.row = n.serial
        BY <4>1 DEF Unsent
      <4> QED
        BY <1>9, <1>13, <4>1, <4>2 DEF Unsent
    <3>2. \A n \in Unsent' : n \in lost \/ \E v \in Sending' : task'[v].row = n.serial
      BY <2>1, <2>2, <3>1
    <3>3. Cardinality(lost) <= 2 * crashes' + (workload'.faults - faults')
      BY <1>8, <1>10, <2>1, <2>3, <2>4
    <3> QED
      BY <2>1, <3>2, <3>3 DEF SilenceOK
  <2>5. CASE f = 1
    <3>1. PICK own \in Row : \A n \in rows : n.serial = task[w].row => n = own
      BY Held
    <3>2. PICK more : more = lost \cup {own}
      OBVIOUS
    <3>3. IsFiniteSet(more)
          /\ Cardinality(more) = IF own \in lost THEN Cardinality(lost) ELSE Cardinality(lost) + 1
      BY <2>1, <3>2, FS_AddElement
    <3>4. more \in SUBSET Row /\ IsFiniteSet(more) /\ Cardinality(more) <= Cardinality(lost) + 1
      BY <2>1, <2>3, <3>1, <3>2, <3>3
    <3>5. IsFiniteSet(more) /\ Cardinality(more) \in Nat
      BY <3>4, FS_CardinalityType
    <3>6. Unsent' = Unsent /\ Unsent \subseteq rows
      BY <1>6, <1>14, <2>5 DEF Unsent
    <3>7. \A n \in Unsent' : n \in more \/ \E v \in Sending' : task'[v].row = n.serial
      BY <2>1, <2>2, <3>1, <3>2, <3>6
    <3>8. Cardinality(more) <= 2 * crashes' + (workload'.faults - faults')
      BY <1>8, <1>10, <2>1, <2>3, <2>5, <3>4, <3>5
    <3> QED
      BY <3>4, <3>7, <3>8 DEF SilenceOK
  <2> QED
    BY <2>4, <2>5
<1>22. faults' <= faults
  BY <1>8
<1> QED
  BY <1>8, <1>15, <1>16, <1>18, <1>19, <1>20, <1>21, <1>22

-----------------------------------------------------------------------------
(* The other steps on notifications                                        *)

(* A worker is done or begins to evaluate alerts.                          *)
LEMMA TurnKeeps ==
    ASSUME NoticesInv, ClockOK, Still, NEW w \in Worker, task[w].step # "send",
           NEW r \in {Idle, [job |-> "alerts", step |-> "start"]},
           task' = [task EXCEPT ![w] = r],
           UNCHANGED <<rows, serial, unread, alerts, channels, untold>>,
           sent \subseteq sent', \A m \in sent' : m.topic \in Topic /\ m.row \in Nat /\ m.to \subseteq Channel,
           checked' \subseteq {"event", "cash"}, "event" \in checked' => "event" \in checked,
           faults' \in Nat, faults' <= faults
    PROVE  NoticesInv'
<1>1. r \in Task /\ r.step \in {"none", "start"} /\ r.job \in {"none", "alerts"}
  BY DEF Task, Idle
<1>2. NoticesTypeOK /\ FreshOK /\ task \in [Worker -> Task]
  BY DEF NoticesInv, NoticesTypeOK
<1>3. /\ task' \in [Worker -> Task]
      /\ task'[w] = r /\ \A v \in Worker \ {w} : task'[v] = task[v]
  BY <1>1, <1>2
<1>4. NoticesTypeOK'
  BY <1>1, <1>2, <1>3 DEF NoticesTypeOK
<1>5. task'["manual"].job \in {"none", "alerts"}
  BY <1>1, <1>2, <1>3, Constants DEF FreshOK
<1>6. RepeatsExplained' /\ FreshOK' /\ DueStored' /\ CalendarOK' /\ SilenceOK'
  BY <1>1, <1>3, <1>5, Calm DEF Still
<1> QED
  BY <1>4, <1>6 DEF NoticesInv

LEMMA FinishKeeps ==
    ASSUME NoticesInv, ClockOK, Still, NEW w \in Worker, Finish(w)
    PROVE  NoticesInv' /\ faults' = faults
<1>1. task[w].step = "store" /\ UNCHANGED <<rows, serial, unread, alerts, channels, sent, untold, faults>>
  BY DEF Finish, Finished
<1>2. task' = [task EXCEPT ![w] = Idle]
  BY DEF Finish
<1>3. checked' = IF task[w].job = "cash" THEN checked \cup {"cash"} ELSE checked
  BY DEF Finish
<1>4. checked \subseteq {"event", "cash"} /\ faults \in Nat
      /\ \A m \in sent : m.topic \in Topic /\ m.row \in Nat /\ m.to \subseteq Channel
  BY DEF NoticesInv, NoticesTypeOK, ClockOK
<1>5. checked' \subseteq {"event", "cash"} /\ ("event" \in checked' => "event" \in checked)
  BY <1>3, <1>4
<1>6. task[w].step # "send" /\ faults' = faults /\ faults' \in Nat /\ faults' <= faults
  BY <1>1, <1>4
<1> QED
  BY <1>1, <1>2, <1>4, <1>5, <1>6, TurnKeeps

LEMMA AlertsFailKeeps ==
    ASSUME NoticesInv, ClockOK, Still, NEW w \in Worker, AlertsFail(w)
    PROVE  NoticesInv' /\ faults' \in Nat /\ faults' <= faults
<1>1. UNCHANGED <<rows, serial, unread, alerts, channels, sent, checked, untold>>
  BY DEF AlertsFail
<1>2. task[w].step # "send" /\ task' = [task EXCEPT ![w] = Idle]
  BY DEF AlertsFail, Begins
<1>3. faults' \in Nat /\ faults' <= faults
  BY DEF AlertsFail, Failing, ClockOK
<1>4. checked \subseteq {"event", "cash"}
      /\ \A m \in sent : m.topic \in Topic /\ m.row \in Nat /\ m.to \subseteq Channel
  BY DEF NoticesInv, NoticesTypeOK
<1> QED
  BY <1>1, <1>2, <1>3, <1>4, TurnKeeps

LEMMA DigestKeeps ==
    ASSUME NoticesInv, ClockOK, Still, SendWeeklyDigest
    PROVE  NoticesInv' /\ faults' = faults
<1>1. UNCHANGED <<rows, serial, unread, alerts, channels, checked, untold, faults>>
  BY DEF SendWeeklyDigest
<1>2. PICK w \in Worker : w = "cron"
  BY Constants
<1>3. task[w].step # "send" /\ task' = [task EXCEPT ![w] = Idle]
  BY <1>2 DEF SendWeeklyDigest, Begins
<1>4. checked \subseteq {"event", "cash"} /\ faults \in Nat
      /\ \A m \in sent : m.topic \in Topic /\ m.row \in Nat /\ m.to \subseteq Channel
  BY DEF NoticesInv, NoticesTypeOK, ClockOK
<1>5. PICK k : k = [topic |-> [kind |-> "digest"], row |-> 0,
                    to |-> Receivers("digest", "weekly")]
  OBVIOUS
<1>6. k.topic \in Topic /\ k.row \in Nat /\ k.to \subseteq Channel
  BY <1>5, Constants, Receiving DEF NoticesInv
<1>7. sent' = sent \/ sent' = sent \cup {k}
  BY <1>5 DEF SendWeeklyDigest
<1>8. sent \subseteq sent' /\ \A m \in sent' : m.topic \in Topic /\ m.row \in Nat /\ m.to \subseteq Channel
  BY <1>4, <1>6, <1>7
<1>9. faults' \in Nat /\ faults' <= faults /\ faults' = faults /\ checked' = checked
  BY <1>1, <1>4
<1> QED
  BY <1>1, <1>3, <1>4, <1>8, <1>9, TurnKeeps

LEMMA AlertCheckKeeps ==
    ASSUME NoticesInv, ClockOK, Still, RunAlertCheck
    PROVE  NoticesInv' /\ faults' = faults
<1>1. UNCHANGED <<faults, rows, serial, unread, alerts, channels, sent, checked, untold>>
  BY DEF RunAlertCheck
<1>2. PICK w \in Worker : w = "manual"
  BY Constants
<1>3. task[w] = Idle
  BY <1>2 DEF RunAlertCheck
<1>4. task[w].step # "send"
  BY <1>3 DEF Idle
<1>5. checked \subseteq {"event", "cash"} /\ faults \in Nat
      /\ \A m \in sent : m.topic \in Topic /\ m.row \in Nat /\ m.to \subseteq Channel
  BY DEF NoticesInv, NoticesTypeOK, ClockOK
<1>6. PICK r \in {Idle, [job |-> "alerts", step |-> "start"]} :
          r = [job |-> "alerts", step |-> "start"]
  OBVIOUS
<1>7. task' = [task EXCEPT ![w] = r]
  BY <1>6, <1>2 DEF RunAlertCheck
<1>8. faults' \in Nat /\ faults' <= faults /\ faults' = faults /\ sent' = sent /\ checked' = checked
  BY <1>1, <1>5
<1> QED
  BY <1>1, <1>4, <1>5, <1>7, <1>8, TurnKeeps

(* Users change alerts and channels and mark what they have read.          *)
LEMMA UsersKeep ==
    ASSUME NoticesInv, ClockOK, Still, NoticeRequest
    PROVE  NoticesInv' /\ faults' = faults
<1>1. /\ UNCHANGED <<serial, task, sent, checked, untold, faults>>
      /\ rows' \subseteq rows /\ \A n \in rows : n.topic.kind = "event" => n \in rows'
      /\ unread' \subseteq unread
  <2>1. ASSUME NEW a \in Alert, HandleDeleteAlert(a)
        PROVE  /\ UNCHANGED <<serial, task, sent, checked, untold, faults>>
               /\ rows' \subseteq rows /\ \A n \in rows : n.topic.kind = "event" => n \in rows'
               /\ unread' \subseteq unread
    BY <2>1 DEF HandleDeleteAlert
  <2>2. CASE \E a \in Alert : HandleDeleteAlert(a)
    BY <2>1, <2>2
  <2>3. CASE \E a \in Alert : HandleCreateAlert(a) \/ HandleToggleAlert(a)
    BY <2>3 DEF HandleCreateAlert, HandleToggleAlert
  <2>4. CASE HandleMarkRead
    BY <2>4 DEF HandleMarkRead
  <2>5. CASE \E c \in Channel : \/ HandleDeleteChannel(c)
                               \/ \E for \in {"", "alerts", "digest"}, freq \in {"", "weekly"} :
                                     HandleCreateChannel(c, TRUE, for, freq)
    BY <2>5 DEF HandleDeleteChannel, HandleCreateChannel
  <2> QED
    BY <2>2, <2>3, <2>4, <2>5 DEF NoticeRequest
<1>2. NoticesTypeOK /\ FreshOK /\ faults \in Nat
  BY DEF NoticesInv, ClockOK
<1>3. alerts' \in [Alert -> {"none", "active", "paused"}]
  BY <1>2 DEF NoticeRequest, HandleCreateAlert, HandleToggleAlert, HandleDeleteAlert,
     HandleMarkRead, HandleCreateChannel, HandleDeleteChannel, NoticesTypeOK
<1>4. channels' \subseteq ChannelRow
  <2>1. ASSUME NEW c \in Channel, NEW for \in {"", "alerts", "digest"},
               NEW freq \in {"", "weekly"}, HandleCreateChannel(c, TRUE, for, freq)
        PROVE  channels' \subseteq ChannelRow
    <3>1. channels' = channels \cup {[id |-> c, enabled |-> TRUE,
            for |-> IF for = "" THEN "all" ELSE for,
            freq |-> IF freq = "" THEN "monthly" ELSE freq]}
      BY <2>1 DEF HandleCreateChannel
    <3>2. [id |-> c, enabled |-> TRUE, for |-> IF for = "" THEN "all" ELSE for,
            freq |-> IF freq = "" THEN "monthly" ELSE freq] \in ChannelRow
      BY DEF ChannelRow
    <3> QED
      BY <1>2, <3>1, <3>2 DEF NoticesTypeOK
  <2> QED
    BY <1>2, <2>1 DEF NoticeRequest, HandleCreateAlert, HandleToggleAlert, HandleDeleteAlert,
       HandleMarkRead, HandleDeleteChannel, NoticesTypeOK
<1>5. NoticesTypeOK'
  BY <1>1, <1>2, <1>3, <1>4 DEF NoticesTypeOK
<1>6. task' \in [Worker -> Task] /\ task'["manual"].job \in {"none", "alerts"}
  BY <1>1, <1>2 DEF NoticesTypeOK, FreshOK
<1>7. RepeatsExplained' /\ FreshOK' /\ DueStored' /\ CalendarOK' /\ SilenceOK'
  BY <1>1, <1>2, <1>6, Calm DEF Still
<1> QED
  BY <1>1, <1>5, <1>7 DEF NoticesInv

(* Steps that are not about notifications.                                 *)
LEMMA OthersKeep ==
    ASSUME NoticesInv, ClockOK, Still, UNCHANGED noticeVars, faults' \in Nat, faults' <= faults
    PROVE  NoticesInv'
<1>1. UNCHANGED <<rows, serial, unread, alerts, channels, task, sent, checked, untold>>
  BY DEF noticeVars
<1>2. NoticesTypeOK /\ FreshOK /\ task \in [Worker -> Task]
  BY DEF NoticesInv, NoticesTypeOK
<1>3. NoticesTypeOK'
  BY <1>1, <1>2 DEF NoticesTypeOK
<1>4. task' \in [Worker -> Task] /\ task'["manual"].job \in {"none", "alerts"}
  BY <1>1, <1>2 DEF FreshOK
<1>5. RepeatsExplained' /\ FreshOK' /\ DueStored' /\ CalendarOK' /\ SilenceOK'
  BY <1>1, <1>4, Calm DEF Still
<1> QED
  BY <1>3, <1>5 DEF NoticesInv

-----------------------------------------------------------------------------
(* Cron                                                                    *)

LEMMA LeastNatural ==
    ASSUME NEW S \in SUBSET Nat, S # {}
    PROVE  \E m \in S : \A n \in S : m <= n
<1> DEFINE below == {ss \in Nat \X Nat : ss[1] < ss[2]}
<1>1. IsWellFoundedOn(below, Nat)
  BY NatLessThanWellFounded DEF OpToRel
<1>2. PICK m \in S : \A n \in S : <<n, m>> \notin below
  <2> HIDE DEF below
  <2> QED
    BY <1>1, WFMin
<1>3. \A n \in S : ~(n < m)
  BY <1>2
<1> QED
  BY <1>3

(* The next slot is a later one of the day, or one of the next day.        *)
LEMMA NextSlots ==
    ASSUME ClockOK, NEW slots \in SUBSET Slot, slots # {}, NextSlot(slots)
    PROVE  /\ hour' \in slots /\ hour' \in Slot
           /\ \/ day' = day /\ hour' > hour
              \/ day' = day + 1
<1>1. Slot \in SUBSET Nat /\ hour \in Nat
  BY DEF Slot, ClockOK
<1>2. CASE \E s \in slots : s > hour
  <2>1. PICK later : later = {s \in slots : s > hour}
    OBVIOUS
  <2>2. PICK m \in later : \A n \in later : m <= n
    BY <1>1, <1>2, <2>1, LeastNatural
  <2>3. \E s \in slots : s > hour /\ \A t \in slots : t > hour => s <= t
    BY <2>1, <2>2
  <2>4. hour' \in slots /\ hour' > hour
    BY <1>2, <2>3 DEF NextSlot
  <2> QED
    BY <1>2, <2>4 DEF NextSlot
<1>3. CASE ~\E s \in slots : s > hour
  <2>1. \E s \in slots : \A t \in slots : s <= t
    BY <1>1, LeastNatural
  <2> QED
    BY <1>3, <2>1 DEF NextSlot
<1> QED
  BY <1>2, <1>3

LEMMA Bounds ==
    ASSUME ClockOK
    PROVE  /\ workload \in Workload /\ workload.slots \in SUBSET Slot /\ workload.slots # {}
           /\ workload.faults \in Nat /\ workload.symbols \in SUBSET Symbol
  BY SchedulerAssumption DEF ClockOK, Workload

LEMMA ScheduleNext ==
    ASSUME hour' \in Slot
    PROVE  /\ "calendar" \in Table' => hour' = 8
           /\ "backup" \in Table' => hour' = 2
  BY DEF Table, Slot

LEMMA FireClock ==
    ASSUME ClockOK, Fire
    PROVE  /\ hour' \in Slot
           /\ \/ day' = day /\ hour' > hour
              \/ day' = day + 1
           /\ ClockOK'
<1>1. NextSlot(workload.slots)
  BY DEF Fire
<1>2. PICK slots \in SUBSET Slot : slots = workload.slots /\ slots # {}
  BY Bounds
<1>3. /\ hour' \in Slot
      /\ \/ day' = day /\ hour' > hour
         \/ day' = day + 1
  BY <1>1, <1>2, NextSlots
<1>4. UNCHANGED <<faults, up, crashes, requests, moves, workload>>
  BY DEF Fire, others
<1> QED
  BY <1>3, <1>4 DEF ClockOK, Slot

LEMMA FireKeeps ==
    ASSUME NoticesInv, ClockOK, Fire
    PROVE  NoticesInv'
<1> USE DEF NoticesInv
<1>1. /\ hour' \in Slot /\ day' \in Nat
  BY FireClock DEF ClockOK
<1>2. task["cron"] = Idle
  BY DEF Fire
<1>3. UNCHANGED <<rows, serial, unread, alerts, channels, sent, faults, crashes, workload>>
  BY DEF Fire, others
<1>4. IF day' = day THEN checked' = checked /\ untold' = untold ELSE checked' = {} /\ untold' = {}
  BY DEF Fire
<1>5. PICK told : /\ told \subseteq Table' /\ told \subseteq NoticeJobs
                  /\ task' = IF told = {} THEN task ELSE
                      [task EXCEPT !["cron"] = [job |-> CHOOSE j \in told : TRUE, step |-> "start"]]
  <2>1. PICK due : due = IF up THEN Table' \cap workload.jobs ELSE {}
    OBVIOUS
  <2>2. PICK told : told = due \cap NoticeJobs
    OBVIOUS
  <2>3. task' = IF told = {} THEN task ELSE
                   [task EXCEPT !["cron"] = [job |-> CHOOSE j \in told : TRUE, step |-> "start"]]
    BY <2>1, <2>2 DEF Fire
  <2>4. told \subseteq Table' /\ told \subseteq NoticeJobs
    BY <2>1, <2>2
  <2> QED
    BY <2>3, <2>4
<1>6. task \in [Worker -> Task] /\ "cron" \in Worker /\ "manual" \in Worker /\ "cron" # "manual"
  BY Constants DEF NoticesTypeOK
<1>7. /\ task' \in [Worker -> Task]
      /\ task'["manual"] = task["manual"]
      /\ task'["cron"].step \in {"none", "start"}
      /\ task'["cron"].job = "calendar" => "calendar" \in Table'
  <2>1. CASE told = {}
    BY <1>2, <1>5, <1>6, <2>1 DEF Idle
  <2>2. CASE told # {}
    <3>1. PICK j \in told : j = CHOOSE i \in told : TRUE
      BY <2>2
    <3>2. PICK r : r = [job |-> j, step |-> "start"]
      OBVIOUS
    <3>3. r \in Task /\ r.job = j /\ r.step = "start"
      BY <1>5, <3>1, <3>2 DEF Task, NoticeJobs
    <3>4. task' = [task EXCEPT !["cron"] = r]
      BY <1>5, <2>2, <3>1, <3>2
    <3> QED
      BY <1>2, <1>5, <1>6, <3>1, <3>3, <3>4
  <2> QED
    BY <2>1, <2>2
<1>8. task["cron"].step = "none"
  BY <1>2 DEF Idle
<1>9. NoticesTypeOK'
  <2>1. untold' \subseteq Topic /\ checked' \subseteq {"event", "cash"}
    BY <1>4 DEF NoticesTypeOK
  <2>2. \A w \in Worker : task'[w].step = "send" => task'[w].todo # <<>>
    BY <1>7, Constants DEF NoticesTypeOK
  <2> QED
    BY <1>3, <1>7, <2>1, <2>2 DEF NoticesTypeOK
<1>10. RepeatsExplained'
  BY <1>3 DEF RepeatsExplained, Recent, ReadBy
<1>11. FreshOK'
  BY <1>7 DEF FreshOK, Pending
<1>12. DueStored'
  <2>1. CASE day' = day
    BY <1>3, <1>4, <2>1, EventsStay DEF DueStored
  <2>2. CASE day' # day
    BY <1>4, <2>2 DEF DueStored
  <2> QED
    BY <2>1, <2>2
<1>13. CalendarOK'
  <2>1. "calendar" \in Table' => hour' = 8
    BY <1>1, ScheduleNext
  <2> QED
    BY <1>7, <2>1 DEF CalendarOK
<1>14. SilenceOK'
  <2>1. \A w \in Worker : task[w].step = "send" \/ task'[w].step = "send" => task'[w] = task[w]
    BY <1>7, <1>8, Constants
  <2>2. faults' \in Nat /\ faults' <= faults
    BY <1>3 DEF ClockOK
  <2> QED
    BY <1>3, <2>1, <2>2, SilenceStays
<1> QED
  BY <1>9, <1>10, <1>11, <1>12, <1>13, <1>14

LEMMA CrashKeeps ==
    ASSUME NoticesInv, ClockOK, Crash
    PROVE  NoticesInv'
<1> USE DEF NoticesInv
<1>1. /\ UNCHANGED <<rows, serial, unread, alerts, channels, sent, checked, untold, faults, workload>>
      /\ day' = day /\ hour' = hour /\ crashes' = crashes + 1
      /\ task' = [w \in Worker |-> Idle]
  BY DEF Crash, clock
<1>2. \A w \in Worker : task'[w] = Idle
  BY <1>1
<1>3. Idle \in Task /\ Idle.step = "none" /\ Idle.job = "none"
  BY DEF Idle, Task
<1>4. NoticesTypeOK'
  <2>1. task' \in [Worker -> Task]
    BY <1>1, <1>3
  <2> QED
    BY <1>1, <1>2, <1>3, <2>1 DEF NoticesTypeOK
<1>5. RepeatsExplained'
  BY <1>1 DEF RepeatsExplained, Recent, ReadBy
<1>6. FreshOK' /\ CalendarOK'
  BY <1>2, <1>3, Constants DEF FreshOK, CalendarOK, Pending
<1>7. DueStored'
  BY <1>1, EventsStay DEF DueStored
<1>8. SilenceOK'
  <2>1. PICK lost \in SUBSET Row :
            /\ IsFiniteSet(lost)
            /\ Cardinality(lost) <= 2 * crashes + (workload.faults - faults)
            /\ \A n \in Unsent : n \in lost \/ \E w \in Sending : task[w].row = n.serial
    BY DEF SilenceOK
  <2>2. PICK first \in Row : \A n \in rows : n.serial = task["cron"].row => n = first
    BY Held
  <2>3. PICK second \in Row : \A n \in rows : n.serial = task["manual"].row => n = second
    BY Held
  <2>4. PICK one : one = lost \cup {first}
    OBVIOUS
  <2>5. PICK both : both = one \cup {second}
    OBVIOUS
  <2>6. workload.faults \in Nat /\ crashes \in Nat /\ faults \in Nat /\ Cardinality(lost) \in Nat
    BY <2>1, Bounds, FS_CardinalityType DEF ClockOK
  <2>7. /\ IsFiniteSet(one)
        /\ Cardinality(one) = IF first \in lost THEN Cardinality(lost) ELSE Cardinality(lost) + 1
    BY <2>1, <2>4, FS_AddElement
  <2>8. /\ IsFiniteSet(both)
        /\ Cardinality(both) = IF second \in one THEN Cardinality(one) ELSE Cardinality(one) + 1
    BY <2>5, <2>7, FS_AddElement
  <2>9. Cardinality(both) <= 2 * crashes' + (workload'.faults - faults')
    BY <1>1, <2>1, <2>6, <2>7, <2>8
  <2>10. Unsent' = Unsent
    BY <1>1 DEF Unsent
  <2>11. both \in SUBSET Row
    BY <2>1, <2>4, <2>5, <2>2, <2>3
  <2>12. Unsent \subseteq both
    <3>1. Unsent \subseteq rows /\ Sending \subseteq {"cron", "manual"}
      BY Constants DEF Unsent, Sending
    <3> QED
      BY <2>1, <2>4, <2>5, <2>2, <2>3, <3>1
  <2> QED
    BY <2>8, <2>9, <2>10, <2>11, <2>12 DEF SilenceOK
<1> QED
  BY <1>4, <1>5, <1>6, <1>7, <1>8

LEMMA NoticesInitial == Init => ClockOK /\ NoticesInv
<1> SUFFICES ASSUME Init PROVE ClockOK /\ NoticesInv
  OBVIOUS
<1>1. /\ rows = {} /\ serial = 0 /\ unread = {} /\ alerts = [a \in Alert |-> "none"]
      /\ channels = Channels /\ task = [w \in Worker |-> Idle]
      /\ sent = {} /\ checked = {} /\ untold = {}
  BY DEF Init, NoticesInit
<1>2. Idle \in Task /\ Idle.step = "none" /\ Idle.job = "none"
  BY DEF Idle, Task
<1>3. /\ day = 1 /\ hour = 0 /\ faults = workload.faults /\ workload \in Workloads
      /\ up = TRUE /\ crashes = 0 /\ requests = 0 /\ moves = 0
  BY DEF Init
<1>4. workload.faults \in Nat
  BY <1>3, SchedulerAssumption DEF Workload
<1>5. ClockOK
  BY <1>3, <1>4 DEF ClockOK
<1>6. NoticesTypeOK
  BY <1>1, <1>2, SchedulerAssumption DEF NoticesTypeOK
<1>7. \A w \in Worker : task[w] = Idle
  BY <1>1
<1>8. RepeatsExplained /\ DueStored
  BY <1>1 DEF RepeatsExplained, DueStored
<1>9. FreshOK /\ CalendarOK
  BY <1>2, <1>7, Constants DEF FreshOK, CalendarOK, Pending
<1>10. SilenceOK
  <2>1. Sending = {} /\ Unsent = {}
    BY <1>1, <1>2, <1>7 DEF Sending, Unsent
  <2>2. IsFiniteSet({}) /\ Cardinality({}) = 0
    BY FS_EmptySet
  <2>3. Cardinality({}) <= 2 * crashes + (workload.faults - faults)
    BY <1>3, <1>4, <2>2
  <2> QED
    BY <2>1, <2>2, <2>3 DEF SilenceOK
<1> QED
  BY <1>5, <1>6, <1>8, <1>9, <1>10 DEF NoticesInv

-----------------------------------------------------------------------------
(* The invariant of the goroutines                                         *)

Prices == {"prices", "prices-live"}

(* A job that has begun vouches for its status, a backup until its file is *)
(* written.                                                                *)
RunsOK ==
    \A j \in Prices \cup {"fx", "backup"} :
        status[j] = "running" =>
            \/ \E g \in Goroutine : go[g].job = j /\ go[g].step \notin {"start", "retention"}
            \/ j \in Prices /\ workload.symbols = {}

EvaluatingOK ==
    status["alerts"] = "running" =>
        \E w \in Worker : task[w].job = "alerts" /\ task[w].step \in {"store", "send"}

(* What an update has fetched was the market's.                            *)
Fetched(r) ==
    r.job \in Prices /\ r.step \in {"fetch", "store"} => r.got \in [Symbol -> 0 .. market]

FetchedOK == \A g \in Goroutine : Fetched(go[g])

Dumping(r) == r.job = "backup" /\ r.step \in {"start", "dump"}

(* The backup r goes on to s.                                              *)
Continues(r, s) == r.job = "backup" /\ s.day = r.day /\ (Dumping(s) => Dumping(r))

(* One goroutine writes the one dump of a day, though the backups of       *)
(* several days may be at work.                                            *)
DumpingOK ==
    /\ \A g, h \in Goroutine :
         Dumping(go[g]) /\ Dumping(go[h]) /\ go[g].day = go[h].day => g = h
    /\ \A g \in Goroutine : Dumping(go[g]) => go[g].day \notin dumps
    /\ \A g \in Goroutine : go[g].job = "backup" =>
         go[g].day \in 1 .. day /\ (go[g].day = day => hour >= 2)
    /\ day \in dumps => hour >= 2

JobsInv == JobsTypeOK /\ RunsOK /\ FetchedOK /\ DumpingOK /\ DumpsKept

LEMMA Works ==
    ASSUME NEW r \in Work
    PROVE  /\ r.job = "none" <=> r = Off
           /\ r # Off => r.job \in JobName /\ r.then \in Seq(Chained)
           /\ r # Off => r.step \in {"start", "list", "fetch", "store", "weights", "page",
                                     "dump", "retention"}
           /\ r.job \in Prices /\ r.step \in {"fetch", "store"} =>
                r.todo \in SUBSET Symbol /\ r.got \in [Symbol -> Nat]
           /\ r.job = "fx" /\ r.step = "fetch" => r.tries \in Nat
           /\ r.job = "etf" /\ r.step \in {"weights", "page"} => r.todo \in SUBSET Etf
           /\ r.job = "etf" /\ r.step = "page" => r.of \in Etf
           /\ r.job = "backup" => r.day \in Nat
  BY DEF Work, Off, Chained, JobName, Prices

LEMMA GoesOn ==
    ASSUME NEW then \in Seq(Chained), NEW r, r = GoOn(then)
    PROVE  /\ r \in Work /\ r.job # "backup" /\ Fetched(r)
           /\ r.step = "start" \/ r.job = "none"
<1>1. CASE then = <<>>
  BY <1>1 DEF GoOn, Off, Work, Fetched, Prices
<1>2. CASE then # <<>>
  <2>1. Head(then) \in Chained /\ Tail(then) \in Seq(Chained)
    BY <1>2, Lists
  <2>2. r = [job |-> Head(then), step |-> "start", then |-> Tail(then)]
    BY <1>2 DEF GoOn
  <2>3. r.job = Head(then) /\ r.step = "start"
    BY <2>2
  <2>4. r \in Work
    BY <2>1, <2>2 DEF Work
  <2> QED
    BY <2>1, <2>3, <2>4 DEF Chained, Fetched
<1> QED
  BY <1>1, <1>2

(* What the step of one goroutine leaves true.                             *)
LEMMA GoKeeps ==
    ASSUME JobsInv, NEW g \in Goroutine, NEW r \in Work, go' = [go EXCEPT ![g] = r],
           UNCHANGED <<clock, workload, market>>,
           r.job = "backup" => Continues(go[g], r),
           Fetched(r),
           \/ dumps' = dumps
           \/ dumps' = dumps \cup {go[g].day} /\ Dumping(go[g]) /\ ~Dumping(r),
           status' \in [JobName -> {"never", "running", "ok", "error"}],
           \A j \in Prices \cup {"fx", "backup"} :
              status'[j] = "running" =>
                 \/ r.job = j /\ r.step \notin {"start", "retention"}
                 \/ j \in Prices /\ workload.symbols = {}
                 \/ status[j] = "running" /\ (go[g].job # j \/ go[g].step \in {"start", "retention"})
    PROVE  go' \in [Goroutine -> Work] /\ RunsOK' /\ FetchedOK' /\ DumpingOK'
<1> USE DEF JobsInv
<1>1. /\ go \in [Goroutine -> Work] /\ go' \in [Goroutine -> Work]
      /\ go'[g] = r /\ \A h \in Goroutine \ {g} : go'[h] = go[h]
  BY DEF JobsTypeOK
<1>2. RunsOK'
  <2> SUFFICES ASSUME NEW j \in Prices \cup {"fx", "backup"}, status'[j] = "running"
               PROVE  \/ \E h \in Goroutine : go'[h].job = j /\ go'[h].step \notin {"start", "retention"}
                      \/ j \in Prices /\ workload'.symbols = {}
    BY DEF RunsOK
  <2>1. CASE r.job = j /\ r.step \notin {"start", "retention"}
    BY <1>1, <2>1
  <2>2. CASE status[j] = "running" /\ (go[g].job # j \/ go[g].step \in {"start", "retention"})
    <3>1. CASE j \in Prices /\ workload.symbols = {}
      BY <3>1
    <3>2. CASE \E h \in Goroutine : go[h].job = j /\ go[h].step \notin {"start", "retention"}
      BY <1>1, <2>2, <3>2
    <3> QED
      BY <2>2, <3>1, <3>2 DEF RunsOK
  <2> QED
    BY <2>1, <2>2
<1>3. FetchedOK'
  BY <1>1 DEF FetchedOK, Fetched
<1>4. DumpingOK'
  <2>1. day' = day /\ hour' = hour
    BY DEF clock
  <2>2. \A h \in Goroutine : go'[h].job = "backup" =>
           /\ go[h].job = "backup" /\ go'[h].day = go[h].day
           /\ Dumping(go'[h]) => Dumping(go[h])
    BY <1>1 DEF Continues
  <2>3. \A h \in Goroutine : Dumping(go'[h]) =>
           Dumping(go[h]) /\ go'[h].job = "backup" /\ go'[h].day = go[h].day
    BY <2>2 DEF Dumping
  <2>4. ASSUME NEW h \in Goroutine, Dumping(go'[h]) PROVE go'[h].day \notin dumps'
    <3>1. go[h].day \notin dumps /\ go'[h].day = go[h].day /\ Dumping(go[h])
      BY <2>3, <2>4 DEF DumpingOK
    <3>2. CASE dumps' = dumps
      BY <3>1, <3>2
    <3>3. CASE dumps' = dumps \cup {go[g].day} /\ Dumping(go[g]) /\ ~Dumping(r)
      <4>1. h # g
        BY <1>1, <2>4, <3>3
      <4>2. go[h].day # go[g].day
        BY <3>1, <3>3, <4>1 DEF DumpingOK
      <4> QED
        BY <3>1, <3>3, <4>2
    <3> QED
      BY <3>2, <3>3
  <2>5. \A h \in Goroutine : go'[h].job = "backup" =>
           go'[h].day \in 1 .. day /\ (go'[h].day = day => hour >= 2)
    BY <2>2 DEF DumpingOK
  <2>6. day \in dumps' => hour >= 2
    BY DEF DumpingOK, Dumping
  <2>7. \A h, k \in Goroutine :
           Dumping(go'[h]) /\ Dumping(go'[k]) /\ go'[h].day = go'[k].day => h = k
    BY <2>3 DEF DumpingOK
  <2> QED
    BY <2>1, <2>4, <2>5, <2>6, <2>7 DEF DumpingOK
<1> QED
  BY <1>1, <1>2, <1>3, <1>4

(* The steps of a job.                                                     *)
LEMMA Listing ==
    ASSUME NEW w \in Work, NEW r
    PROVE  /\ w.job \in Prices /\ w.step = "start" /\ r = [w EXCEPT !.step = "list"] =>
                r \in Work /\ r.job = w.job /\ r.step = "list" /\ r.then = w.then
           /\ w.job = "backup" /\ w.step = "start" /\ r = [w EXCEPT !.step = "dump"] =>
                /\ r \in Work /\ r.job = w.job /\ r.step = "dump" /\ r.then = w.then
                /\ r.day = w.day
           /\ w.job = "backup" /\ w.step = "dump" /\ r = [w EXCEPT !.step = "retention"] =>
                /\ r \in Work /\ r.job = w.job /\ r.step = "retention" /\ r.then = w.then
                /\ r.day = w.day
<1>1. ASSUME w.job \in Prices, w.step = "start", r = [w EXCEPT !.step = "list"]
      PROVE  r \in Work /\ r.job = w.job /\ r.step = "list" /\ r.then = w.then
  <2>1. w \in [job : Chained, step : {"start"}, then : Seq(Chained)]
    BY <1>1 DEF Work, Off, Prices
  <2> QED
    BY <1>1, <2>1 DEF Work, Prices
<1>2. ASSUME w.job = "backup",
             \/ w.step = "start" /\ r = [w EXCEPT !.step = "dump"]
             \/ w.step = "dump" /\ r = [w EXCEPT !.step = "retention"]
      PROVE  /\ r \in Work /\ r.job = w.job /\ r.then = w.then /\ r.day = w.day
             /\ r.step = IF w.step = "start" THEN "dump" ELSE "retention"
  <2>1. w \in [job : {"backup"}, step : {"start", "dump", "retention"}, then : Seq(Chained),
               day : Nat]
    BY <1>2 DEF Work, Off, Chained
  <2> QED
    BY <1>2, <2>1 DEF Work
<1> QED
  BY <1>1, <1>2

(* The same of a step that stores no price and no file.                    *)
LEMMA JobKeeps ==
    ASSUME JobsInv, NEW g \in Goroutine, NEW r \in Work, go' = [go EXCEPT ![g] = r],
           UNCHANGED <<clock, workload, market, pages, quotes, files, dumps>>,
           r.job = "backup" => Continues(go[g], r),
           Fetched(r),
           status' \in [JobName -> {"never", "running", "ok", "error"}],
           \A j \in Prices \cup {"fx", "backup"} :
              status'[j] = "running" =>
                 \/ r.job = j /\ r.step \notin {"start", "retention"}
                 \/ j \in Prices /\ workload.symbols = {}
                 \/ status[j] = "running" /\ (go[g].job # j \/ go[g].step \in {"start", "retention"}),
           rates' \in [Currency -> 0 .. day], weights' \in [Etf -> 0 .. market],
           listed' \in [Etf -> [Constituent -> 0 .. day]]
    PROVE  JobsInv'
<1>1. go' \in [Goroutine -> Work] /\ RunsOK' /\ FetchedOK' /\ DumpingOK'
  BY GoKeeps
<1>2. day' = day
  BY DEF clock
<1>3. JobsTypeOK'
  BY <1>1, <1>2 DEF JobsInv, JobsTypeOK
<1>4. DumpsKept'
  BY <1>2 DEF JobsInv, DumpsKept, DayOfMonth, DaysPerYear
<1> QED
  BY <1>1, <1>3, <1>4 DEF JobsInv

LEMMA Types ==
    ASSUME JobsInv
    PROVE  /\ rates \in [Currency -> 0 .. day] /\ weights \in [Etf -> 0 .. market]
           /\ listed \in [Etf -> [Constituent -> 0 .. day]]
           /\ status \in [JobName -> {"never", "running", "ok", "error"}]
           /\ go \in [Goroutine -> Work]
           /\ \A g \in Goroutine : go[g] # Off => go[g].then \in Seq(Chained)
           /\ market \in Nat
           /\ pages \in [Etf -> SUBSET Constituent]
  BY Works DEF JobsInv, JobsTypeOK

(* One job's status is written.                                            *)
LEMMA Statuses ==
    ASSUME JobsInv, NEW j \in JobName, NEW s \in {"running", "ok", "error"}, SetJobStatus(j, s)
    PROVE  /\ status' \in [JobName -> {"never", "running", "ok", "error"}]
           /\ status'[j] = s /\ \A k \in JobName \ {j} : status'[k] = status[k]
  BY Types DEF SetJobStatus

LEMMA Names == /\ Prices \cup {"fx", "backup"} \subseteq JobName
               /\ {"alerts", "networth", "etf"} \subseteq JobName
               /\ "none" \notin JobName
  BY DEF Prices, JobName

Steady == UNCHANGED <<clock, workload>>

LEMMA PricesStartKeeps ==
    ASSUME JobsInv, ClockOK, Steady, NEW g \in Goroutine, PricesStart(g)
    PROVE  JobsInv' /\ faults' = faults
<1>1. /\ go[g].job \in Prices /\ go[g].step = "start" /\ go[g] # Off
      /\ UNCHANGED <<faults, market, pages, quotes, rates, weights, listed, files, dumps>>
  BY DEF PricesStart, Prices, Off
<1>2. /\ go[g] \in Work /\ go[g].then \in Seq(Chained)
      /\ go[g].job \in JobName
  BY <1>1, Types, Names
<1>3. CASE go[g].job = "prices-live" /\ ~(Workday /\ hour \in 8 .. 21)
  <2>1. PICK r : r = GoOn(go[g].then)
    OBVIOUS
  <2>2. go' = [go EXCEPT ![g] = r] /\ status' = status
    BY <1>3, <2>1 DEF PricesStart, Goto
  <2>3. r \in Work /\ r.job # "backup" /\ Fetched(r)
    BY <1>2, <2>1, GoesOn
  <2>4. \A j \in Prices \cup {"fx", "backup"} :
           status'[j] = "running" =>
              status[j] = "running" /\ (go[g].job # j \/ go[g].step \in {"start", "retention"})
    BY <1>1, <2>2
  <2> QED
    BY <1>1, <2>2, <2>3, <2>4, JobKeeps, Types DEF Steady
<1>4. CASE ~(go[g].job = "prices-live" /\ ~(Workday /\ hour \in 8 .. 21))
  <2>1. PICK r : r = [go[g] EXCEPT !.step = "list"]
    OBVIOUS
  <2>2. go' = [go EXCEPT ![g] = r] /\ SetJobStatus(go[g].job, "running")
    BY <1>4, <2>1 DEF PricesStart, Goto
  <2>3. r \in Work /\ r.job = go[g].job /\ r.step = "list" /\ r.then = go[g].then
    BY <1>1, <1>2, <2>1, Listing
  <2>4. \A j \in Prices \cup {"fx", "backup"} :
           status'[j] = "running" =>
              \/ r.job = j /\ r.step \notin {"start", "retention"}
              \/ status[j] = "running" /\ (go[g].job # j \/ go[g].step \in {"start", "retention"})
    BY <1>1, <1>2, <2>2, <2>3, Statuses, Names
  <2>5. r.job # "backup" /\ Fetched(r)
    BY <1>1, <2>3 DEF Prices, Fetched
  <2>6. status' \in [JobName -> {"never", "running", "ok", "error"}]
    BY <1>2, <2>2, Statuses
  <2> QED
    BY <1>1, <2>2, <2>3, <2>4, <2>5, <2>6, JobKeeps, Types DEF Steady
<1> QED
  BY <1>3, <1>4

(* A goroutine ends its job, ...                                           *)
LEMMA LeaveKeeps ==
    ASSUME JobsInv, Steady, NEW g \in Goroutine, go[g] # Off, Goto(g, GoOn(go[g].then)),
           UNCHANGED <<market, pages, quotes, files, dumps>>,
           status' \in [JobName -> {"never", "running", "ok", "error"}],
           \A j \in Prices \cup {"fx", "backup"} :
              status'[j] = "running" =>
                 \/ j \in Prices /\ workload.symbols = {}
                 \/ status[j] = "running" /\ (go[g].job # j \/ go[g].step \in {"start", "retention"}),
           rates' \in [Currency -> 0 .. day], weights' \in [Etf -> 0 .. market],
           listed' \in [Etf -> [Constituent -> 0 .. day]]
    PROVE  JobsInv'
<1>1. PICK r : r = GoOn(go[g].then)
  OBVIOUS
<1>2. /\ r \in Work /\ r.job # "backup" /\ Fetched(r)
      /\ r.step = "start" \/ r.job = "none"
  BY <1>1, Types, GoesOn
<1>3. go' = [go EXCEPT ![g] = r]
  BY <1>1 DEF Goto
<1> QED
  BY <1>2, <1>3, JobKeeps DEF Steady

(* ... or is busy with it.                                                 *)
LEMMA BusyKeeps ==
    ASSUME JobsInv, Steady, NEW g \in Goroutine, go[g] # Off,
           NEW r \in Work, go' = [go EXCEPT ![g] = r],
           r.job = go[g].job, r.step \notin {"start", "retention"}, r.then = go[g].then, r # Off,
           r.job = "backup" => Continues(go[g], r), Fetched(r),
           UNCHANGED <<market, pages, quotes, files, dumps>>,
           status' = status \/ SetJobStatus(r.job, "running"),
           rates' \in [Currency -> 0 .. day], weights' \in [Etf -> 0 .. market],
           listed' \in [Etf -> [Constituent -> 0 .. day]]
    PROVE  JobsInv'
<1>1. r.job \in JobName
  BY Works
<1>2. /\ status' \in [JobName -> {"never", "running", "ok", "error"}]
      /\ \A j \in JobName \ {r.job} : status'[j] = status[j]
  BY <1>1, Statuses, Types
<1>3. \A j \in Prices \cup {"fx", "backup"} :
         status'[j] = "running" =>
            \/ r.job = j /\ r.step \notin {"start", "retention"}
            \/ status[j] = "running" /\ (go[g].job # j \/ go[g].step \in {"start", "retention"})
  BY <1>2, Names
<1> QED
  BY <1>1, <1>2, <1>3, JobKeeps DEF Steady

LEMMA PricesListKeeps ==
    ASSUME JobsInv, ClockOK, Steady, NEW g \in Goroutine, PricesList(g, workload.symbols)
    PROVE  JobsInv' /\ faults' \in Nat /\ faults' <= faults
<1>1. /\ go[g].job \in Prices /\ go[g].step = "list" /\ go[g] # Off
      /\ UNCHANGED <<market, pages, quotes, rates, weights, listed, files, dumps>>
  BY DEF PricesList, Prices, Off
<1>2. go[g] \in Work /\ go[g].job \in JobName
  BY <1>1, Types, Names
<1>3. faults' \in Nat /\ faults' <= faults
  BY DEF PricesList, Failing, ClockOK
<1>4. CASE SetJobStatus(go[g].job, "error") /\ Goto(g, GoOn(go[g].then))
  <2>1. /\ status' \in [JobName -> {"never", "running", "ok", "error"}]
        /\ \A j \in JobName : status'[j] = "running" => status[j] = "running" /\ go[g].job # j
    BY <1>2, <1>4, Statuses
  <2> QED
    BY <1>1, <1>3, <1>4, <2>1, LeaveKeeps, Types, Names
<1>5. CASE workload.symbols = {} /\ Goto(g, GoOn(go[g].then)) /\ UNCHANGED status
  BY <1>1, <1>3, <1>5, LeaveKeeps, Types
<1>6. CASE Goto(g, Asking(g, workload.symbols)) /\ UNCHANGED status
  <2>1. PICK r : r = Asking(g, workload.symbols)
    OBVIOUS
  <2>2. PICK got : got = [s \in Symbol |-> 0]
    OBVIOUS
  <2>3. got \in [Symbol -> Nat] /\ got \in [Symbol -> 0 .. market]
    BY <2>2, Types
  <2>4. r = [job |-> go[g].job, step |-> "fetch", then |-> go[g].then,
             todo |-> workload.symbols, got |-> got]
    BY <2>1, <2>2 DEF Asking
  <2>5. /\ r \in Work /\ r.job = go[g].job /\ r.step = "fetch" /\ r.then = go[g].then
        /\ r.got = got
    BY <1>1, <2>3, <2>4, Types, Bounds DEF Work, Prices
  <2>6. go' = [go EXCEPT ![g] = r] /\ r # Off /\ r.job # "backup" /\ Fetched(r)
    BY <1>1, <1>6, <2>1, <2>3, <2>5 DEF Goto, Off, Prices, Fetched
  <2> QED
    BY <1>1, <1>3, <1>6, <2>5, <2>6, BusyKeeps, Types
<1> QED
  BY <1>4, <1>5, <1>6 DEF PricesList

LEMMA PricesFetchKeeps ==
    ASSUME JobsInv, ClockOK, Steady, NEW g \in Goroutine, NEW s \in Symbol, PricesFetch(g, s)
    PROVE  JobsInv' /\ faults' \in Nat /\ faults' <= faults
<1>1. /\ go[g].job \in Prices /\ go[g].step = "fetch" /\ go[g] # Off
      /\ UNCHANGED <<status, market, pages, quotes, rates, weights, listed, files, dumps>>
  BY DEF PricesFetch, Prices, Off
<1>2. PICK got \in {go[g].got, [go[g].got EXCEPT ![s] = FetchPrice]} :
          /\ Failing(IF got = go[g].got THEN 1 ELSE 0)
          /\ Goto(g, IF go[g].todo = {s}
                      THEN [go[g] EXCEPT !.step = "store", !.got = got,
                                         !.todo = {t \in Symbol : got[t] # 0}]
                      ELSE [go[g] EXCEPT !.got = got, !.todo = @ \ {s}])
  BY DEF PricesFetch
<1>3. faults' \in Nat /\ faults' <= faults
  BY <1>2 DEF Failing, ClockOK
<1>4. go[g] \in [job : Prices, step : {"fetch", "store"}, then : Seq(Chained),
                 todo : SUBSET Symbol, got : [Symbol -> Nat]]
  BY <1>1, Types DEF Work, Off, Prices
<1>5. go[g].got \in [Symbol -> 0 .. market]
  BY <1>1 DEF JobsInv, FetchedOK, Fetched
<1>6. got \in [Symbol -> 0 .. market] /\ got \in [Symbol -> Nat]
  <2>1. market \in 0 .. market /\ 0 .. market \subseteq Nat
    BY Types
  <2>2. PICK old \in [Symbol -> 0 .. market] : old = go[g].got
    BY <1>5
  <2>3. got = old \/ got = [old EXCEPT ![s] = market]
    BY <1>2, <2>2 DEF FetchPrice
  <2> QED
    BY <2>1, <2>3
<1>7. PICK r : r = IF go[g].todo = {s}
                   THEN [go[g] EXCEPT !.step = "store", !.got = got,
                                      !.todo = {t \in Symbol : got[t] # 0}]
                   ELSE [go[g] EXCEPT !.got = got, !.todo = @ \ {s}]
  OBVIOUS
<1>8. go' = [go EXCEPT ![g] = r]
  BY <1>2, <1>7 DEF Goto
<1>9. PICK todo \in SUBSET Symbol, step \in {"fetch", "store"} :
         r = [job |-> go[g].job, step |-> step, then |-> go[g].then, todo |-> todo, got |-> got]
  <2>1. CASE go[g].todo = {s}
    <3>1. PICK left \in SUBSET Symbol : left = {t \in Symbol : got[t] # 0}
      OBVIOUS
    <3>2. r = [go[g] EXCEPT !.step = "store", !.got = got, !.todo = left]
      BY <1>7, <2>1, <3>1
    <3>3. r = [job |-> go[g].job, step |-> "store", then |-> go[g].then, todo |-> left, got |-> got]
      BY <1>4, <3>2
    <3> QED
      BY <3>1, <3>3
  <2>2. CASE go[g].todo # {s}
    <3>1. PICK left \in SUBSET Symbol : left = go[g].todo \ {s}
      BY <1>4
    <3>2. r = [go[g] EXCEPT !.got = got, !.todo = left]
      BY <1>7, <2>2, <3>1
    <3>3. r = [job |-> go[g].job, step |-> "fetch", then |-> go[g].then, todo |-> left, got |-> got]
      BY <1>1, <1>4, <3>2
    <3> QED
      BY <3>1, <3>3
  <2> QED
    BY <2>1, <2>2
<1>10. /\ r \in Work /\ r.job = go[g].job /\ r.step \in {"fetch", "store"}
       /\ r.then = go[g].then /\ r.got = got
  BY <1>4, <1>6, <1>9 DEF Work, Prices
<1>11. r # Off /\ r.job # "backup" /\ Fetched(r)
  BY <1>1, <1>6, <1>10 DEF Off, Prices, Fetched
<1> QED
  BY <1>1, <1>3, <1>8, <1>10, <1>11, BusyKeeps, Types

LEMMA PricesDoneKeeps ==
    ASSUME JobsInv, ClockOK, Steady, NEW g \in Goroutine, PricesDone(g)
    PROVE  JobsInv' /\ faults' = faults
<1>1. /\ go[g].job \in Prices /\ go[g].step = "store" /\ go[g] # Off
      /\ UNCHANGED <<faults, market, pages, quotes, rates, weights, listed, files, dumps>>
  BY DEF PricesDone, Prices, Off
<1>2. go[g].job \in JobName /\ go[g].then \in Seq(Chained)
  BY <1>1, Types, Names
<1>3. PICK r : r = [job |-> "networth", step |-> "start", then |-> go[g].then]
  OBVIOUS
<1>4. go' = [go EXCEPT ![g] = r] /\ SetJobStatus(go[g].job, "ok")
  BY <1>3 DEF PricesDone, Goto
<1>5. r \in Work /\ r.job = "networth" /\ r.step = "start" /\ Fetched(r)
  BY <1>2, <1>3, Names DEF Work, Chained, Fetched, Prices
<1>6. /\ status' \in [JobName -> {"never", "running", "ok", "error"}]
      /\ \A j \in JobName : status'[j] = "running" => status[j] = "running" /\ go[g].job # j
  BY <1>2, <1>4, Statuses
<1>7. \A j \in Prices \cup {"fx", "backup"} :
         status'[j] = "running" => status[j] = "running" /\ go[g].job # j
  BY <1>6, Names
<1> QED
  BY <1>1, <1>2, <1>4, <1>5, <1>6, <1>7, JobKeeps, Types DEF Steady

LEMMA UpsertKeeps ==
    ASSUME JobsInv, ClockOK, Steady, NEW g \in Goroutine, NEW s \in Symbol, UpsertMarketData(g, s)
    PROVE  JobsInv' /\ faults' \in Nat /\ faults' <= faults
<1>1. /\ go[g].job \in Prices /\ go[g].step = "store" /\ go[g] # Off /\ s \in go[g].todo
      /\ UNCHANGED <<status, market, pages, rates, weights, listed, files, dumps>>
  BY DEF UpsertMarketData, Prices, Off
<1>2. faults' \in Nat /\ faults' <= faults
  BY DEF UpsertMarketData, Failing, ClockOK
<1>3. PICK r : r = [go[g] EXCEPT !.todo = @ \ {s}]
  OBVIOUS
<1>4. go' = [go EXCEPT ![g] = r]
  BY <1>3 DEF UpsertMarketData, Goto
<1>5. /\ r \in Work /\ r.job = go[g].job /\ r.step = "store" /\ r.then = go[g].then
      /\ r.got = go[g].got /\ r # Off
  <2>1. go[g] \in [job : Prices, step : {"fetch", "store"}, then : Seq(Chained),
                   todo : SUBSET Symbol, got : [Symbol -> Nat]]
    BY <1>1, Types DEF Work, Off, Prices
  <2>2. /\ r \in [job : Prices, step : {"fetch", "store"}, then : Seq(Chained),
                  todo : SUBSET Symbol, got : [Symbol -> Nat]]
        /\ r.job = go[g].job /\ r.then = go[g].then /\ r.got = go[g].got /\ r.step = go[g].step
    BY <1>3, <2>1
  <2> QED
    BY <1>1, <2>2 DEF Work, Off, Prices
<1>6. go[g].got \in [Symbol -> 0 .. market]
  BY <1>1 DEF JobsInv, FetchedOK, Fetched
<1>7. go' \in [Goroutine -> Work] /\ RunsOK' /\ FetchedOK' /\ DumpingOK'
  <2>1. r.job # "backup" /\ Fetched(r)
    BY <1>1, <1>5, <1>6 DEF Prices, Fetched
  <2>2. status' = status /\ status \in [JobName -> {"never", "running", "ok", "error"}]
    BY <1>1, Types
  <2>3. \A j \in Prices \cup {"fx", "backup"} :
           status'[j] = "running" =>
              \/ r.job = j /\ r.step \notin {"start", "retention"}
              \/ status[j] = "running" /\ (go[g].job # j \/ go[g].step \in {"start", "retention"})
    BY <1>5, <2>2
  <2> QED
    BY <1>1, <1>4, <1>5, <2>1, <2>2, <2>3, GoKeeps DEF Steady
<1>8. quotes' = [quotes EXCEPT ![s] = go[g].got[s]] \/ quotes' = quotes
  BY DEF UpsertMarketData
<1>9. day' = day /\ market' = market
  BY <1>1 DEF Steady, clock
<1>10. quotes' \in [Symbol -> 0 .. market]
  BY <1>6, <1>8 DEF JobsInv, JobsTypeOK
<1>11. JobsTypeOK'
  BY <1>1, <1>7, <1>9, <1>10 DEF JobsInv, JobsTypeOK
<1>12. DumpsKept'
  BY <1>1, <1>9 DEF JobsInv, DumpsKept, DayOfMonth, DaysPerYear
<1> QED
  BY <1>2, <1>7, <1>11, <1>12 DEF JobsInv

LEMMA NetWorthRunKeeps ==
    ASSUME JobsInv, ClockOK, Steady, NEW g \in Goroutine, NetWorthRun(g)
    PROVE  JobsInv' /\ faults' \in Nat /\ faults' <= faults
<1>1. /\ go[g].job = "networth" /\ go[g] # Off /\ Goto(g, GoOn(go[g].then))
      /\ UNCHANGED <<market, pages, quotes, rates, weights, listed, files, dumps>>
  BY DEF NetWorthRun, Off
<1>2. faults' \in Nat /\ faults' <= faults
  BY DEF NetWorthRun, Failing, ClockOK
<1>3. SetJobStatus("networth", "ok") \/ status' = status
  BY DEF NetWorthRun
<1>4. /\ status' \in [JobName -> {"never", "running", "ok", "error"}]
      /\ \A j \in JobName \ {"networth"} : status'[j] = status[j]
  BY <1>3, Statuses, Types, Names
<1>5. \A j \in Prices \cup {"fx", "backup"} :
         status'[j] = "running" => status[j] = "running" /\ go[g].job # j
  BY <1>1, <1>4, Names DEF Prices
<1> QED
  BY <1>1, <1>2, <1>4, <1>5, LeaveKeeps, Types

LEMMA FXStartKeeps ==
    ASSUME JobsInv, ClockOK, Steady, NEW g \in Goroutine, FXStart(g)
    PROVE  JobsInv' /\ faults' = faults
<1>1. /\ go[g].job = "fx" /\ go[g] # Off
      /\ UNCHANGED <<faults, market, pages, quotes, rates, weights, listed, files, dumps>>
  BY DEF FXStart, Off
<1>2. PICK r : r = [job |-> "fx", step |-> "fetch", then |-> go[g].then, tries |-> 0]
  OBVIOUS
<1>3. go' = [go EXCEPT ![g] = r] /\ SetJobStatus("fx", "running")
  BY <1>2 DEF FXStart, Goto
<1>4. r \in Work /\ r.job = "fx" /\ r.step = "fetch" /\ r.then = go[g].then /\ r # Off
  BY <1>1, <1>2, Types DEF Work, Off
<1>5. r.job # "backup" /\ Fetched(r)
  BY <1>4 DEF Fetched, Prices
<1> QED
  BY <1>1, <1>3, <1>4, <1>5, BusyKeeps, Types

LEMMA FXFetchKeeps ==
    ASSUME JobsInv, ClockOK, Steady, NEW g \in Goroutine, FXFetch(g)
    PROVE  JobsInv' /\ faults' \in Nat /\ faults' <= faults
<1>1. /\ go[g].job = "fx" /\ go[g].step = "fetch" /\ go[g] # Off
      /\ UNCHANGED <<market, pages, quotes, weights, listed, files, dumps>>
  BY DEF FXFetch, Off
<1>2. ASSUME NEW s \in {"ok", "error"}, SetJobStatus("fx", s)
      PROVE  /\ status' \in [JobName -> {"never", "running", "ok", "error"}]
             /\ \A j \in Prices \cup {"fx", "backup"} :
                   status'[j] = "running" => status[j] = "running" /\ go[g].job # j
  <2>1. /\ status' \in [JobName -> {"never", "running", "ok", "error"}]
        /\ status'["fx"] = s /\ \A k \in JobName \ {"fx"} : status'[k] = status[k]
    BY <1>2, Statuses, Names
  <2> QED
    BY <1>1, <1>2, <2>1, Names
<1>3. CASE /\ Failing(1) /\ Goto(g, [go[g] EXCEPT !.tries = @ + 1]) /\ UNCHANGED <<status, rates>>
  <2>1. PICK r : r = [go[g] EXCEPT !.tries = @ + 1]
    OBVIOUS
  <2>2. go' = [go EXCEPT ![g] = r]
    BY <1>3, <2>1 DEF Goto
  <2>3. go[g] \in [job : {"fx"}, step : {"fetch"}, then : Seq(Chained), tries : Nat]
    BY <1>1, Types DEF Work, Off
  <2>4. /\ r \in [job : {"fx"}, step : {"fetch"}, then : Seq(Chained), tries : Nat]
        /\ r.then = go[g].then
    BY <2>1, <2>3
  <2>5. /\ r \in Work /\ r.job = "fx" /\ r.step = "fetch" /\ r.then = go[g].then
        /\ r # Off /\ r.job # "backup" /\ Fetched(r)
    BY <2>4 DEF Work, Off, Fetched, Prices
  <2>6. faults' \in Nat /\ faults' <= faults
    BY <1>3 DEF Failing, ClockOK
  <2> QED
    BY <1>1, <1>3, <2>2, <2>5, <2>6, BusyKeeps, Types
<1>4. CASE Failing(1) /\ SetJobStatus("fx", "error") /\ Goto(g, GoOn(go[g].then)) /\ UNCHANGED rates
  <2>1. faults' \in Nat /\ faults' <= faults
    BY <1>4 DEF Failing, ClockOK
  <2> QED
    BY <1>1, <1>2, <1>4, <2>1, LeaveKeeps, Types
<1>5. ASSUME NEW ok \in SUBSET Currency, NEW d \in FetchDailyRates,
             Failing(Cardinality(Currency \ ok)),
             rates' = [c \in Currency |-> IF c \in ok /\ d > rates[c] THEN d ELSE rates[c]],
             SetJobStatus("fx", "ok"), Goto(g, GoOn(go[g].then))
      PROVE  JobsInv' /\ faults' \in Nat /\ faults' <= faults
  <2>1. Cardinality(Currency \ ok) \in Nat
    BY JobsAssumption, FS_Difference, FS_CardinalityType
  <2>2. faults' \in Nat /\ faults' <= faults
    BY <1>5, <2>1 DEF Failing, ClockOK
  <2>3. d \in 0 .. day
    BY DEF FetchDailyRates, ClockOK
  <2>4. rates' \in [Currency -> 0 .. day]
    BY <1>5, <2>3, Types
  <2> QED
    BY <1>1, <1>2, <1>5, <2>2, <2>4, LeaveKeeps, Types
<1> QED
  BY <1>3, <1>4, <1>5 DEF FXFetch

LEMMA EtfStartKeeps ==
    ASSUME JobsInv, ClockOK, Steady, NEW g \in Goroutine, EtfStart(g)
    PROVE  JobsInv' /\ faults' \in Nat /\ faults' <= faults
<1>1. /\ go[g].job = "etf" /\ go[g] # Off
      /\ UNCHANGED <<status, market, pages, quotes, rates, weights, listed, files, dumps>>
  BY DEF EtfStart, Off
<1>2. faults' \in Nat /\ faults' <= faults
  BY DEF EtfStart, Failing, ClockOK
<1>3. \A j \in Prices \cup {"fx", "backup"} :
         status'[j] = "running" => status[j] = "running" /\ go[g].job # j
  BY <1>1 DEF Prices
<1>4. CASE Goto(g, GoOn(go[g].then))
  BY <1>1, <1>2, <1>3, <1>4, LeaveKeeps, Types
<1>5. CASE Goto(g, [job |-> "etf", step |-> "weights", then |-> go[g].then, todo |-> Etf])
  <2>1. PICK r : r = [job |-> "etf", step |-> "weights", then |-> go[g].then, todo |-> Etf]
    OBVIOUS
  <2>2. go' = [go EXCEPT ![g] = r]
    BY <1>5, <2>1 DEF Goto
  <2>3. /\ r \in Work /\ r.job = "etf" /\ r.step = "weights" /\ r.then = go[g].then /\ r # Off
        /\ r.job # "backup" /\ Fetched(r)
    BY <1>1, <2>1, Types DEF Work, Off, Fetched, Prices
  <2> QED
    BY <1>1, <1>2, <2>2, <2>3, BusyKeeps, Types
<1> QED
  BY <1>4, <1>5 DEF EtfStart

LEMMA EtfWeightsKeeps ==
    ASSUME JobsInv, ClockOK, Steady, NEW g \in Goroutine, NEW e \in Etf, EtfWeights(g, e)
    PROVE  JobsInv' /\ faults' \in Nat /\ faults' <= faults
<1>1. /\ go[g].job = "etf" /\ go[g].step = "weights" /\ go[g] # Off
      /\ UNCHANGED <<status, market, pages, quotes, rates, listed, files, dumps>>
  BY DEF EtfWeights, Off
<1>2. faults' \in Nat /\ faults' <= faults
  BY DEF EtfWeights, Failing, ClockOK
<1>3. PICK r : /\ go' = [go EXCEPT ![g] = r]
               /\ \/ r = [job |-> "etf", step |-> "page", then |-> go[g].then,
                          todo |-> go[g].todo, of |-> e]
                  \/ r = [go[g] EXCEPT !.todo = @ \ {e}]
  BY DEF EtfWeights, Goto
<1>4. go[g] \in [job : {"etf"}, step : {"weights"}, then : Seq(Chained), todo : SUBSET Etf]
  BY <1>1, Types DEF Work, Off
<1>5. /\ r \in [job : {"etf"}, step : {"page"}, then : Seq(Chained), todo : SUBSET Etf, of : Etf]
            \cup [job : {"etf"}, step : {"weights"}, then : Seq(Chained), todo : SUBSET Etf]
      /\ r.then = go[g].then
  BY <1>3, <1>4
<1>6. /\ r \in Work /\ r.job = "etf" /\ r.step \in {"weights", "page"} /\ r.then = go[g].then
      /\ r # Off /\ r.job # "backup" /\ Fetched(r)
  BY <1>5 DEF Work, Off, Fetched, Prices
<1>7. weights' = [weights EXCEPT ![e] = FetchMetadata] \/ weights' = weights
  BY DEF EtfWeights
<1>8. weights' \in [Etf -> 0 .. market]
  BY <1>7, Types DEF FetchMetadata
<1> QED
  BY <1>1, <1>2, <1>3, <1>6, <1>8, BusyKeeps, Types

LEMMA EtfPageKeeps ==
    ASSUME JobsInv, ClockOK, Steady, NEW g \in Goroutine, EtfPage(g)
    PROVE  JobsInv' /\ faults' \in Nat /\ faults' <= faults
<1>1. /\ go[g].job = "etf" /\ go[g].step = "page" /\ go[g] # Off
      /\ UNCHANGED <<status, market, pages, quotes, rates, weights, files, dumps>>
  BY DEF EtfPage, Off
<1>2. go[g] \in [job : {"etf"}, step : {"page"}, then : Seq(Chained), todo : SUBSET Etf, of : Etf]
  BY <1>1, Types DEF Work, Off
<1>3. PICK e \in Etf : e = go[g].of
  BY <1>2
<1>4. PICK r : r = [job |-> "etf", step |-> "weights", then |-> go[g].then, todo |-> go[g].todo \ {e}]
  OBVIOUS
<1>5. go' = [go EXCEPT ![g] = r]
  BY <1>3, <1>4 DEF EtfPage, Goto
<1>6. /\ r \in [job : {"etf"}, step : {"weights"}, then : Seq(Chained), todo : SUBSET Etf]
      /\ r.then = go[g].then
  BY <1>2, <1>4
<1>7. /\ r \in Work /\ r.job = "etf" /\ r.step = "weights" /\ r.then = go[g].then
      /\ r # Off /\ r.job # "backup" /\ Fetched(r)
  BY <1>6 DEF Work, Off, Fetched, Prices
<1>8. CASE UNCHANGED listed /\ Failing(1)
  <2>1. faults' \in Nat /\ faults' <= faults
    BY <1>8 DEF Failing, ClockOK
  <2> QED
    BY <1>1, <1>5, <1>7, <1>8, <2>1, BusyKeeps, Types
<1>9. ASSUME NEW ok \in SUBSET FetchHoldings(e), Failing(Cardinality(FetchHoldings(e) \ ok)),
             listed' = [listed EXCEPT ![e] =
                          [c \in Constituent |-> IF c \in ok THEN day ELSE @[c]]]
      PROVE  JobsInv' /\ faults' \in Nat /\ faults' <= faults
  <2>1. FetchHoldings(e) \in SUBSET Constituent
    BY Types DEF FetchHoldings
  <2>2. FetchHoldings(e) \ ok \in SUBSET Constituent
    BY <2>1
  <2>3. IsFiniteSet(FetchHoldings(e) \ ok)
    BY <2>2, JobsAssumption, FS_Subset
  <2>4. Cardinality(FetchHoldings(e) \ ok) \in Nat
    BY <2>3, FS_CardinalityType
  <2>5. faults' \in Nat /\ faults' <= faults
    BY <1>9, <2>4 DEF Failing, ClockOK
  <2>6. listed[e] \in [Constituent -> 0 .. day] /\ day \in 0 .. day
    BY Types DEF ClockOK
  <2>7. [c \in Constituent |-> IF c \in ok THEN day ELSE listed[e][c]] \in [Constituent -> 0 .. day]
    BY <2>6
  <2>8. listed' = [listed EXCEPT ![e] = [c \in Constituent |-> IF c \in ok THEN day ELSE listed[e][c]]]
    BY <1>9, Types
  <2>9. listed' \in [Etf -> [Constituent -> 0 .. day]]
    BY <2>7, <2>8, Types
  <2> QED
    BY <1>1, <1>5, <1>7, <2>5, <2>9, BusyKeeps, Types
<1> QED
  BY <1>3, <1>8, <1>9 DEF EtfPage

LEMMA EtfDoneKeeps ==
    ASSUME JobsInv, ClockOK, Steady, NEW g \in Goroutine, EtfDone(g)
    PROVE  JobsInv' /\ faults' = faults
<1>1. /\ go[g].job = "etf" /\ go[g] # Off /\ SetJobStatus("etf", "ok") /\ Goto(g, GoOn(go[g].then))
      /\ UNCHANGED <<faults, market, pages, quotes, rates, weights, listed, files, dumps>>
  BY DEF EtfDone, Off
<1>2. /\ status' \in [JobName -> {"never", "running", "ok", "error"}]
      /\ \A k \in JobName \ {"etf"} : status'[k] = status[k]
  BY <1>1, Statuses, Names
<1>3. \A j \in Prices \cup {"fx", "backup"} :
         status'[j] = "running" => status[j] = "running" /\ go[g].job # j
  BY <1>1, <1>2, Names DEF Prices
<1> QED
  BY <1>1, <1>2, <1>3, LeaveKeeps, Types

-----------------------------------------------------------------------------
(* The backup                                                              *)

LEMMA BackupStartKeeps ==
    ASSUME JobsInv, ClockOK, Steady, NEW g \in Goroutine, NEW path \in BOOLEAN, BackupStart(g, path)
    PROVE  JobsInv' /\ faults' = faults
<1>1. /\ go[g].job = "backup" /\ go[g].step = "start" /\ go[g] # Off
      /\ UNCHANGED <<faults, market, pages, quotes, rates, weights, listed, files, dumps>>
  BY DEF BackupStart, Off
<1>2. CASE path
  <2>1. PICK r : r = [go[g] EXCEPT !.step = "dump"]
    OBVIOUS
  <2>2. go' = [go EXCEPT ![g] = r] /\ SetJobStatus("backup", "running")
    BY <1>2, <2>1 DEF BackupStart, Goto
  <2>3. /\ r \in Work /\ r.job = go[g].job /\ r.step = "dump" /\ r.then = go[g].then
        /\ r.day = go[g].day
    BY <1>1, <2>1, Listing, Types
  <2>4. r # Off /\ Fetched(r) /\ Continues(go[g], r)
    BY <1>1, <2>3 DEF Off, Prices, Dumping, Fetched, Continues
  <2>5. SetJobStatus(r.job, "running")
    BY <1>1, <2>2, <2>3
  <2> QED
    BY <1>1, <2>2, <2>3, <2>4, <2>5, BusyKeeps, Types
<1>3. CASE ~path
  <2>1. SetJobStatus("backup", "error") /\ Goto(g, GoOn(go[g].then))
    BY <1>3 DEF BackupStart
  <2>2. /\ status' \in [JobName -> {"never", "running", "ok", "error"}]
        /\ status'["backup"] = "error"
        /\ \A k \in JobName \ {"backup"} : status'[k] = status[k]
    BY <2>1, Statuses, Names
  <2>3. \A j \in Prices \cup {"fx", "backup"} :
           status'[j] = "running" => status[j] = "running" /\ go[g].job # j
    BY <1>1, <2>2, Names
  <2> QED
    BY <1>1, <2>1, <2>2, <2>3, LeaveKeeps, Types
<1> QED
  BY <1>2, <1>3

LEMMA BackupDumpKeeps ==
    ASSUME JobsInv, ClockOK, Steady, NEW g \in Goroutine, BackupDump(g)
    PROVE  JobsInv' /\ faults' \in Nat /\ faults' <= faults
<1> USE DEF JobsInv
<1>1. /\ go[g].job = "backup" /\ go[g].step = "dump" /\ go[g] # Off
      /\ UNCHANGED <<market, pages, quotes, rates, weights, listed>>
  BY DEF BackupDump, Off
<1>2. PICK full \in BOOLEAN :
        /\ Failing(IF full THEN 0 ELSE 1)
        /\ files' = {f \in files : f.day # go[g].day} \cup {[day |-> go[g].day, full |-> full]}
        /\ dumps' = IF full THEN dumps \cup {go[g].day} ELSE dumps
        /\ \/ SetJobStatus("backup", "ok") /\ Goto(g, [go[g] EXCEPT !.step = "retention"])
           \/ /\ ~full /\ SetJobStatus("backup", "error") /\ Goto(g, GoOn(go[g].then))
  BY DEF BackupDump
<1>3. faults' \in Nat /\ faults' <= faults
  BY <1>2 DEF Failing, ClockOK
<1>4. day' = day /\ day \in Nat \ {0}
  BY DEF Steady, clock, ClockOK
<1>5. Dumping(go[g]) /\ go[g].day \notin dumps /\ go[g].day \in 1 .. day
  BY <1>1 DEF Dumping, DumpingOK
<1>6. PICK r \in Work : /\ go' = [go EXCEPT ![g] = r] /\ ~Dumping(r) /\ Fetched(r)
                        /\ r.job = "backup" => Continues(go[g], r)
                        /\ r.step # "start" \/ r.job # "backup"
  <2>1. CASE Goto(g, [go[g] EXCEPT !.step = "retention"])
    <3>1. PICK r : r = [go[g] EXCEPT !.step = "retention"]
      OBVIOUS
    <3>2. r \in Work /\ r.job = go[g].job /\ r.step = "retention" /\ r.day = go[g].day
      BY <1>1, <3>1, Listing, Types
    <3>3. go' = [go EXCEPT ![g] = r]
      BY <2>1, <3>1 DEF Goto
    <3>4. ~Dumping(r) /\ Fetched(r) /\ Continues(go[g], r) /\ r.step # "start"
      BY <1>1, <3>2 DEF Dumping, Prices, Fetched, Continues
    <3> QED
      BY <3>2, <3>3, <3>4
  <2>2. CASE Goto(g, GoOn(go[g].then))
    <3>1. PICK r : r = GoOn(go[g].then)
      OBVIOUS
    <3>2. r \in Work /\ r.job # "backup" /\ Fetched(r)
      BY <1>1, <3>1, Types, GoesOn
    <3>3. go' = [go EXCEPT ![g] = r] /\ ~Dumping(r)
      BY <2>2, <3>1, <3>2 DEF Goto, Dumping
    <3> QED
      BY <3>2, <3>3
  <2> QED
    BY <1>2, <2>1, <2>2
<1>7. /\ status' \in [JobName -> {"never", "running", "ok", "error"}]
      /\ status'["backup"] # "running"
      /\ \A k \in JobName \ {"backup"} : status'[k] = status[k]
  <2>1. PICK s \in {"ok", "error"} : SetJobStatus("backup", s)
    BY <1>2
  <2> QED
    BY <2>1, Statuses, Names
<1>8. go' \in [Goroutine -> Work] /\ RunsOK' /\ FetchedOK' /\ DumpingOK'
  <2>1. \A j \in Prices \cup {"fx", "backup"} :
           status'[j] = "running" => status[j] = "running" /\ go[g].job # j
    BY <1>1, <1>7, Names
  <2>2. \/ dumps' = dumps
        \/ dumps' = dumps \cup {go[g].day} /\ Dumping(go[g]) /\ ~Dumping(r)
    BY <1>2, <1>5, <1>6
  <2> QED
    BY <1>1, <1>6, <1>7, <2>1, <2>2, GoKeeps DEF Steady
<1>9. /\ files' \subseteq [day : 1 .. day, full : BOOLEAN] /\ dumps' \subseteq 1 .. day
  BY <1>2, <1>4, <1>5 DEF JobsTypeOK
<1>10. JobsTypeOK'
  BY <1>1, <1>4, <1>7, <1>8, <1>9 DEF JobsTypeOK
<1>11. DumpsKept'
  <2> SUFFICES ASSUME NEW d \in dumps',
                      \/ day - d < DailyKeep
                      \/ DayOfMonth(d) = 1 /\ day - d < DaysPerYear
               PROVE  [day |-> d, full |-> TRUE] \in files'
    BY <1>4 DEF DumpsKept, DayOfMonth, DaysPerYear
  <2>1. CASE d = go[g].day
    BY <1>2, <1>5, <2>1
  <2>2. CASE d # go[g].day
    <3>1. d \in dumps
      BY <1>2, <2>2
    <3>2. PICK f : f = [day |-> d, full |-> TRUE]
      OBVIOUS
    <3>3. f \in files /\ f.day # go[g].day
      BY <2>2, <3>1, <3>2 DEF DumpsKept
    <3> QED
      BY <1>2, <3>2, <3>3
  <2> QED
    BY <2>1, <2>2
<1> QED
  BY <1>3, <1>8, <1>10, <1>11

LEMMA RetentionKeeps ==
    ASSUME JobsInv, ClockOK, Steady, NEW g \in Goroutine, EnforceBackupRetention(g)
    PROVE  JobsInv' /\ faults' \in Nat /\ faults' <= faults
<1> USE DEF JobsInv
<1>1. /\ go[g].job = "backup" /\ go[g].step = "retention" /\ go[g] # Off
      /\ UNCHANGED <<status, market, pages, quotes, rates, weights, listed, dumps>>
  BY DEF EnforceBackupRetention, Off
<1>2. faults' \in Nat /\ faults' <= faults
  BY DEF EnforceBackupRetention, Failing, ClockOK
<1>3. day' = day /\ day \in Nat \ {0}
  BY DEF Steady, clock, ClockOK
<1>4. PICK r : r = GoOn(go[g].then)
  OBVIOUS
<1>5. go' = [go EXCEPT ![g] = r]
  BY <1>4 DEF EnforceBackupRetention, Goto
<1>6. /\ r \in Work /\ r.job # "backup" /\ Fetched(r)
      /\ r.step = "start" \/ r.job = "none"
  BY <1>1, <1>4, Types, GoesOn
<1>7. go' \in [Goroutine -> Work] /\ RunsOK' /\ FetchedOK' /\ DumpingOK'
  <2>1. \A j \in Prices \cup {"fx", "backup"} :
           status'[j] = "running" =>
              status[j] = "running" /\ (go[g].job # j \/ go[g].step \in {"start", "retention"})
    BY <1>1
  <2>2. status' \in [JobName -> {"never", "running", "ok", "error"}]
    BY <1>1, Types
  <2> QED
    BY <1>1, <1>5, <1>6, <2>1, <2>2, GoKeeps DEF Steady
<1>8. files' \subseteq files
  BY DEF EnforceBackupRetention
<1>9. JobsTypeOK'
  BY <1>1, <1>3, <1>7, <1>8 DEF JobsTypeOK
<1>10. DumpsKept'
  <2> SUFFICES ASSUME NEW d \in dumps,
                      \/ day - d < DailyKeep
                      \/ DayOfMonth(d) = 1 /\ day - d < DaysPerYear
               PROVE  [day |-> d, full |-> TRUE] \in files'
    BY <1>1, <1>3 DEF DumpsKept, DayOfMonth, DaysPerYear
  <2>1. PICK f : f = [day |-> d, full |-> TRUE]
    OBVIOUS
  <2>2. f \in files /\ f.day = d /\ d \in Nat
    BY <1>3, <2>1 DEF DumpsKept, JobsTypeOK
  <2>3. DailyKeep \in Nat /\ DaysPerYear \in Nat
    BY JobsAssumption, CronAssumption DEF DaysPerYear
  <2>4. ~Expired(f)
    <3> SUFFICES ASSUME d <= day - DailyKeep PROVE DayOfMonth(d) = 1 /\ d + DaysPerYear > day
      BY <2>2 DEF Expired
    <3> QED
      BY <1>3, <2>2, <2>3
  <2> QED
    BY <2>1, <2>2, <2>4 DEF EnforceBackupRetention
<1> QED
  BY <1>2, <1>7, <1>9, <1>10

-----------------------------------------------------------------------------
(* The steps of the goroutines and those around them                       *)

LEMMA GoroutineKeeps ==
    ASSUME JobsInv, ClockOK, Steady, NEW g \in Goroutine,
           GoroutineStep(g, workload.symbols, workload.path)
    PROVE  JobsInv' /\ faults' \in Nat /\ faults' <= faults
<1>1. faults' = faults => faults' \in Nat /\ faults' <= faults
  BY DEF ClockOK
<1>2. CASE PricesStart(g)
  BY <1>1, <1>2, PricesStartKeeps
<1>3. CASE PricesList(g, workload.symbols)
  BY <1>3, PricesListKeeps
<1>4. CASE \E s \in Symbol : PricesFetch(g, s)
  BY <1>4, PricesFetchKeeps
<1>5. CASE \E s \in Symbol : UpsertMarketData(g, s)
  BY <1>5, UpsertKeeps
<1>6. CASE PricesDone(g)
  BY <1>1, <1>6, PricesDoneKeeps
<1>7. CASE NetWorthRun(g)
  BY <1>7, NetWorthRunKeeps
<1>8. CASE FXStart(g)
  BY <1>1, <1>8, FXStartKeeps
<1>9. CASE FXFetch(g)
  BY <1>9, FXFetchKeeps
<1>10. CASE EtfStart(g)
  BY <1>10, EtfStartKeeps
<1>11. CASE \E e \in Etf : EtfWeights(g, e)
  BY <1>11, EtfWeightsKeeps
<1>12. CASE EtfPage(g)
  BY <1>12, EtfPageKeeps
<1>13. CASE EtfDone(g)
  BY <1>1, <1>13, EtfDoneKeeps
<1>14. CASE BackupStart(g, workload.path)
  <2>1. PICK path \in BOOLEAN : path = workload.path
    BY Bounds DEF Workload
  <2> QED
    BY <1>1, <1>14, <2>1, BackupStartKeeps
<1>15. CASE BackupDump(g)
  BY <1>15, BackupDumpKeeps
<1>16. CASE EnforceBackupRetention(g)
  BY <1>16, RetentionKeeps
<1> QED
  BY <1>2, <1>3, <1>4, <1>5, <1>6, <1>7, <1>8, <1>9, <1>10, <1>11, <1>12, <1>13, <1>14,
     <1>15, <1>16 DEF GoroutineStep

(* Steps of the messages, which write no status but that of the alerts.    *)
LEMMA MessagesKeep ==
    ASSUME JobsInv, Steady,
           UNCHANGED <<go, market, pages, quotes, rates, weights, listed, files, dumps>>,
           UNCHANGED status \/ \E s \in {"running", "ok", "error"} : SetJobStatus("alerts", s)
    PROVE  JobsInv'
<1> USE DEF JobsInv
<1>1. day' = day /\ hour' = hour
  BY DEF Steady, clock
<1>2. /\ status' \in [JobName -> {"never", "running", "ok", "error"}]
      /\ \A k \in JobName \ {"alerts"} : status'[k] = status[k]
  BY Statuses, Types, Names
<1>3. \A j \in Prices \cup {"fx", "backup"} : status'[j] = status[j]
  BY <1>2, Names DEF Prices
<1>4. RunsOK'
  BY <1>3 DEF RunsOK, Steady
<1>5. JobsTypeOK'
  BY <1>1, <1>2 DEF JobsTypeOK
<1>6. FetchedOK' /\ DumpingOK'
  BY <1>1 DEF FetchedOK, Fetched, DumpingOK
<1>7. DumpsKept'
  BY <1>1 DEF DumpsKept, DayOfMonth, DaysPerYear
<1> QED
  BY <1>4, <1>5, <1>6, <1>7

(* A goroutine starts that was not there.                                  *)
LEMMA BeginKeeps ==
    ASSUME JobsInv, Steady, NEW g \in Goroutine, go[g] = Off, NEW r \in Work, Goto(g, r),
           r.step = "start", r.job # "backup",
           UNCHANGED <<status, market, pages, quotes, rates, weights, listed, files, dumps>>
    PROVE  JobsInv'
<1>1. go[g].job = "none"
  BY DEF Off
<1>2. \A j \in Prices \cup {"fx", "backup"} :
         status'[j] = "running" => status[j] = "running" /\ go[g].job # j
  BY <1>1 DEF Prices
<1>3. go' = [go EXCEPT ![g] = r] /\ Fetched(r)
  BY DEF Goto, Fetched
<1> QED
  BY <1>2, <1>3, JobKeeps, Types DEF Steady

LEMMA UpdateKeeps ==
    ASSUME JobsInv, Steady, RunUpdate
    PROVE  JobsInv' /\ faults' = faults
<1>1. PICK k \in RequestKind, g \in Goroutine :
        /\ go[g] = Off
        /\ Goto(g, [job |-> IF k = "refresh prices" THEN "prices" ELSE "etf",
                    step |-> "start", then |-> <<>>])
  BY DEF RunUpdate, RequestKind
<1>2. PICK r : r = [job |-> IF k = "refresh prices" THEN "prices" ELSE "etf",
                    step |-> "start", then |-> <<>>]
  OBVIOUS
<1>3. r.job # "backup" /\ r.step = "start"
  BY <1>2
<1>4. r \in Work
  <2>1. <<>> \in Seq(Chained)
    OBVIOUS
  <2>2. r.job \in {"prices", "etf"} /\ {"prices", "etf"} \subseteq Chained
    BY <1>2 DEF Chained, JobName
  <2>3. r \in [job : Chained, step : {"start"}, then : Seq(Chained)]
    BY <1>2, <2>1, <2>2
  <2> QED
    BY <2>3 DEF Work
<1>5. /\ UNCHANGED <<faults, status, market, pages, quotes, rates, weights, listed,
                     files, dumps>>
      /\ Goto(g, r)
  BY <1>1, <1>2 DEF RunUpdate
<1> QED
  BY <1>1, <1>3, <1>4, <1>5, BeginKeeps

LEMMA StartKeeps ==
    ASSUME JobsInv, Start
    PROVE  JobsInv'
<1>1. /\ UNCHANGED <<clock, status, market, pages, quotes, rates, weights, listed, files,
                     dumps, workload>>
      /\ \/ \E g \in Goroutine : go[g] = Off /\ Goto(g, InitialFetch)
         \/ go' = go
  BY DEF Start
<1>2. Steady
  BY <1>1 DEF Steady
<1>3. CASE go' = go
  BY <1>1, <1>2, <1>3, MessagesKeep
<1>4. ASSUME NEW g \in Goroutine, go[g] = Off, Goto(g, InitialFetch)
      PROVE  JobsInv'
  <2>1. PICK r : r = InitialFetch
    OBVIOUS
  <2>2. PICK next : next = <<"prices", "fx">>
    OBVIOUS
  <2>3. next \in Seq(Chained)
    BY <2>2 DEF Chained, JobName
  <2>4. r.then = next /\ r.job = "etf" /\ r.step = "start" /\ r \in Work
    BY <2>1, <2>2, <2>3, Names DEF InitialFetch, Work, Chained, JobName
  <2>5. Goto(g, r) /\ r.job # "backup" /\ r.step = "start"
    BY <1>4, <2>1, <2>4
  <2> QED
    BY <1>1, <1>2, <1>4, <2>4, <2>5, BeginKeeps
<1> QED
  BY <1>1, <1>3, <1>4

LEMMA MoveKeeps ==
    ASSUME JobsInv, Move
    PROVE  JobsInv' /\ faults' = faults
<1> USE DEF JobsInv
<1>1. /\ market' = market + 1 /\ pages' \in [Etf -> SUBSET Constituent]
      /\ UNCHANGED <<faults, status, go, quotes, rates, weights, listed, files, dumps, clock,
                     workload>>
  BY DEF Move, MarketMoves
<1>2. day' = day /\ hour' = hour
  BY <1>1 DEF clock
<1>3. JobsTypeOK'
  BY <1>1, <1>2 DEF JobsTypeOK
<1>4. 0 .. market \subseteq 0 .. market'
  BY <1>1 DEF JobsTypeOK
<1>5. FetchedOK'
  BY <1>1, <1>4 DEF FetchedOK, Fetched
<1>6. RunsOK' /\ DumpingOK'
  BY <1>1, <1>2 DEF RunsOK, DumpingOK
<1>7. DumpsKept'
  BY <1>1, <1>2 DEF DumpsKept, DayOfMonth, DaysPerYear
<1> QED
  BY <1>1, <1>3, <1>5, <1>6, <1>7

LEMMA Nearer == \A a, b, d, k \in Nat : a <= b /\ b - d < k => a - d < k
  OBVIOUS

LEMMA FireJobs ==
    ASSUME JobsInv, ClockOK, Fire
    PROVE  JobsInv'
<1> USE DEF JobsInv
<1>1. /\ hour' \in Slot /\ day' \in Nat /\ day \in Nat \ {0}
      /\ \/ day' = day /\ hour' > hour
         \/ day' = day + 1
  BY FireClock DEF ClockOK
<1>2. UNCHANGED <<status, market, pages, quotes, rates, weights, listed, files, dumps, workload>>
  BY DEF Fire, others
<1>3. PICK jobs : jobs \subseteq Table' /\ jobs \subseteq DataJobs /\ Started(jobs)
  <2>1. PICK due : due = IF up THEN Table' \cap workload.jobs ELSE {}
    OBVIOUS
  <2>2. Started(due \cap DataJobs)
    BY <2>1 DEF Fire
  <2>3. due \cap DataJobs \subseteq Table' /\ due \cap DataJobs \subseteq DataJobs
    BY <2>1
  <2> QED
    BY <2>2, <2>3
<1>4. PICK for \in [jobs -> {h \in Goroutine : go[h] = Off}] :
        /\ IsInjective(for)
        /\ go' = [h \in Goroutine |->
              IF \E j \in jobs : for[j] = h THEN Begun(CHOOSE j \in jobs : for[j] = h) ELSE go[h]]
  BY <1>3 DEF Started
<1>5. ASSUME NEW j \in jobs, NEW r, r = Begun(j)
      PROVE  /\ r \in Work /\ r.job = j /\ r.step = "start"
             /\ j = "backup" => r.day = day'
  <2>1. j \in JobName /\ <<>> \in Seq(Chained)
    BY <1>3 DEF DataJobs, JobName
  <2>2. CASE j = "backup"
    BY <1>1, <1>5, <2>1, <2>2 DEF Begun, Work
  <2>3. CASE j # "backup"
    BY <1>5, <2>1, <2>3 DEF Begun, Work, Chained
  <2> QED
    BY <2>2, <2>3
<1>6. ASSUME NEW h \in Goroutine
      PROVE  \/ go'[h] = go[h]
             \/ /\ go[h] = Off /\ go'[h] \in Work /\ go'[h].step = "start"
                /\ go'[h].job \in jobs /\ for[go'[h].job] = h
                /\ go'[h].job = "backup" => go'[h].day = day'
  <2>1. CASE ~\E j \in jobs : for[j] = h
    BY <1>4, <2>1
  <2>2. CASE \E j \in jobs : for[j] = h
    <3>1. PICK j : j = CHOOSE k \in jobs : for[k] = h
      OBVIOUS
    <3>2. j \in jobs /\ for[j] = h
      BY <2>2, <3>1
    <3>3. go[h] = Off
      BY <1>4, <3>2
    <3>4. go'[h] = Begun(j)
      BY <1>4, <2>2, <3>1
    <3>5. PICK r : r = Begun(j)
      OBVIOUS
    <3>6. r \in Work /\ r.job = j /\ r.step = "start" /\ (j = "backup" => r.day = day')
      BY <1>5, <3>2, <3>5
    <3> QED
      BY <3>2, <3>3, <3>4, <3>5, <3>6
  <2> QED
    BY <2>1, <2>2
<1>7. go \in [Goroutine -> Work] /\ go' \in [Goroutine -> Work]
  <2>1. go \in [Goroutine -> Work]
    BY DEF JobsTypeOK
  <2>2. \A h \in Goroutine : go'[h] \in Work
    BY <1>6, <2>1
  <2>3. go' = [h \in Goroutine |-> go'[h]]
    BY <1>4
  <2> QED
    BY <2>1, <2>2, <2>3
<1>8. JobsTypeOK'
  <2>1. 1 .. day \subseteq 1 .. day' /\ 0 .. day \subseteq 0 .. day'
    BY <1>1
  <2>2. rates \in [Currency -> 0 .. day'] /\ listed \in [Etf -> [Constituent -> 0 .. day']]
    BY <2>1 DEF JobsTypeOK
  <2>3. files \subseteq [day : 1 .. day', full : BOOLEAN] /\ dumps \subseteq 1 .. day'
    BY <2>1 DEF JobsTypeOK
  <2> QED
    BY <1>2, <1>7, <2>2, <2>3 DEF JobsTypeOK
<1>9. RunsOK'
  <2>1. ASSUME NEW h \in Goroutine, NEW j \in Prices \cup {"fx", "backup"}, go[h].job = j
        PROVE  go'[h] = go[h]
    BY <1>6, <2>1 DEF Off, Prices
  <2> QED
    BY <1>2, <2>1 DEF RunsOK
<1>10. FetchedOK'
  <2>1. \A h \in Goroutine : go'[h] = go[h] \/ go'[h].step = "start"
    BY <1>6
  <2> QED
    BY <1>2, <2>1 DEF FetchedOK, Fetched
<1>11. ASSUME NEW h \in Goroutine, go'[h].job = "backup", go'[h] # go[h]
       PROVE  go'[h].day = day' /\ hour' = 2 /\ for["backup"] = h
  <2>1. go'[h].day = day' /\ "backup" \in jobs /\ for["backup"] = h
    BY <1>6, <1>11
  <2> QED
    BY <1>1, <1>3, <2>1, ScheduleNext
<1>12. ASSUME NEW h \in Goroutine, go[h].job = "backup"
       PROVE  go[h].day \in 1 .. day /\ (go[h].day = day' => day' = day /\ hour' # 2)
  <2>1. go[h].day \in 1 .. day /\ (go[h].day = day => hour >= 2)
    BY <1>12 DEF DumpingOK
  <2>2. hour \in 0 .. 23 /\ hour' \in Nat
    BY <1>1 DEF ClockOK, Slot
  <2> QED
    BY <1>1, <2>1, <2>2
<1>13. hour' = 2 => day' \notin dumps
  <2>1. dumps \subseteq 1 .. day /\ hour \in 0 .. 23 /\ (day \in dumps => hour >= 2)
    BY DEF JobsTypeOK, ClockOK, DumpingOK
  <2> QED
    BY <1>1, <2>1
<1>14. DumpingOK'
  <2>1. ASSUME NEW h \in Goroutine, NEW k \in Goroutine,
               Dumping(go'[h]), Dumping(go'[k]), go'[h].day = go'[k].day
        PROVE  h = k
    <3>1. go'[h].job = "backup" /\ go'[k].job = "backup"
      BY <2>1 DEF Dumping
    <3>2. CASE go'[h] = go[h] /\ go'[k] = go[k]
      BY <2>1, <3>2 DEF DumpingOK
    <3>3. CASE go'[h] # go[h] /\ go'[k] # go[k]
      BY <1>11, <3>1, <3>3
    <3>4. CASE go'[h] # go[h] /\ go'[k] = go[k]
      BY <1>11, <1>12, <2>1, <3>1, <3>4
    <3>5. CASE go'[h] = go[h] /\ go'[k] # go[k]
      BY <1>11, <1>12, <2>1, <3>1, <3>5
    <3> QED
      BY <3>2, <3>3, <3>4, <3>5
  <2>2. ASSUME NEW h \in Goroutine, Dumping(go'[h]) PROVE go'[h].day \notin dumps
    <3>1. CASE go'[h] = go[h]
      BY <2>2, <3>1 DEF DumpingOK
    <3>2. CASE go'[h] # go[h]
      BY <1>11, <1>13, <2>2, <3>2 DEF Dumping
    <3> QED
      BY <3>1, <3>2
  <2>3. ASSUME NEW h \in Goroutine, go'[h].job = "backup"
        PROVE  go'[h].day \in 1 .. day' /\ (go'[h].day = day' => hour' >= 2)
    <3>1. CASE go'[h] = go[h]
      <4>1. go[h].day \in 1 .. day /\ (go[h].day = day => hour >= 2)
        BY <2>3, <3>1 DEF DumpingOK
      <4>2. hour \in 0 .. 23 /\ hour' \in Nat
        BY <1>1 DEF ClockOK, Slot
      <4> QED
        BY <1>1, <3>1, <4>1, <4>2
    <3>2. CASE go'[h] # go[h]
      BY <1>1, <1>11, <2>3, <3>2
    <3> QED
      BY <3>1, <3>2
  <2>4. day' \in dumps => hour' >= 2
    BY <1>1 DEF Slot
  <2> QED
    BY <1>2, <2>1, <2>2, <2>3, <2>4 DEF DumpingOK
<1>15. DumpsKept'
  <2> SUFFICES ASSUME NEW d \in dumps,
                      \/ day' - d < DailyKeep
                      \/ DayOfMonth(d) = 1 /\ day' - d < DaysPerYear
               PROVE  [day |-> d, full |-> TRUE] \in files
    BY <1>2 DEF DumpsKept, DayOfMonth, DaysPerYear
  <2>1. d \in Nat /\ DailyKeep \in Nat
    BY <1>1, JobsAssumption DEF JobsTypeOK
  <2>2. DaysPerMonth \in Nat /\ MonthsPerYear \in Nat
    BY CronAssumption
  <2>3. DaysPerYear \in Nat
    BY <2>2 DEF DaysPerYear
  <2>4. day \in Nat /\ day' \in Nat /\ day <= day'
    BY <1>1
  <2>5. /\ day' - d < DailyKeep => day - d < DailyKeep
        /\ day' - d < DaysPerYear => day - d < DaysPerYear
    BY <2>1, <2>3, <2>4, Nearer, Zenon
  <2> QED
    BY <2>5 DEF DumpsKept
<1> QED
  BY <1>8, <1>9, <1>10, <1>14, <1>15

LEMMA CrashJobs ==
    ASSUME JobsInv, ClockOK, Crash
    PROVE  JobsInv'
<1> USE DEF JobsInv
<1>1. /\ UNCHANGED <<clock, market, pages, quotes, rates, weights, listed, dumps, workload>>
      /\ go' = [g \in Goroutine |-> Off] /\ status' = [j \in JobName |-> "never"]
  BY DEF Crash
<1>2. day' = day /\ hour' = hour /\ day \in Nat \ {0}
  BY <1>1 DEF clock, ClockOK
<1>3. PICK half : /\ half \in SUBSET {go[g].day : g \in {h \in Goroutine :
                                go[h].job = "backup" /\ go[h].step = "dump"}}
                  /\ files' = {f \in files : f.day \notin half}
                               \cup {[day |-> d, full |-> FALSE] : d \in half}
  BY DEF Crash
<1>4. \A d \in half : d \in 1 .. day /\ d \notin dumps
  BY <1>3 DEF DumpingOK, Dumping
<1>5. Off \in Work /\ Off.job = "none"
  BY DEF Off, Work
<1>6. files' \subseteq [day : 1 .. day, full : BOOLEAN]
  <2>1. files \subseteq [day : 1 .. day, full : BOOLEAN]
    BY DEF JobsTypeOK
  <2>2. \A d \in half : [day |-> d, full |-> FALSE] \in [day : 1 .. day, full : BOOLEAN]
    BY <1>4
  <2> QED
    BY <1>3, <2>1, <2>2
<1>7. go' \in [Goroutine -> Work] /\ status' \in [JobName -> {"never", "running", "ok", "error"}]
  <2>1. "never" \in {"never", "running", "ok", "error"}
    OBVIOUS
  <2>2. go' \in [Goroutine -> Work]
    BY <1>1, <1>5
  <2>3. status' \in [JobName -> {"never", "running", "ok", "error"}]
    BY <1>1, <2>1
  <2> QED
    BY <2>2, <2>3
<1>8. JobsTypeOK'
  <2>1. JobsTypeOK
    OBVIOUS
  <2> QED
    BY <1>1, <1>2, <1>6, <1>7, <2>1 DEF JobsTypeOK
<1>9. \A g \in Goroutine : go'[g] = Off
  BY <1>1
<1>10. RunsOK'
  BY <1>1, Names DEF RunsOK
<1>11. FetchedOK'
  BY <1>5, <1>9 DEF FetchedOK, Fetched, Prices
<1>12. DumpingOK'
  BY <1>1, <1>2, <1>5, <1>9 DEF DumpingOK, Dumping
<1>13. DumpsKept'
  <2> SUFFICES ASSUME NEW d \in dumps,
                      \/ day - d < DailyKeep
                      \/ DayOfMonth(d) = 1 /\ day - d < DaysPerYear
               PROVE  [day |-> d, full |-> TRUE] \in files'
    BY <1>1, <1>2 DEF DumpsKept, DayOfMonth, DaysPerYear
  <2>1. PICK f : f = [day |-> d, full |-> TRUE]
    OBVIOUS
  <2>2. f \in files /\ f.day = d /\ d \notin half
    BY <1>4, <2>1 DEF DumpsKept
  <2> QED
    BY <1>3, <2>1, <2>2
<1> QED
  BY <1>8, <1>10, <1>11, <1>12, <1>13

LEMMA JobsInitial == Init => JobsInv /\ EvaluatingOK
<1> SUFFICES ASSUME Init PROVE JobsInv /\ EvaluatingOK
  OBVIOUS
<1>1. /\ status = [j \in JobName |-> "never"] /\ go = [g \in Goroutine |-> Off]
      /\ market = 1
      /\ pages = [e \in Etf |-> Constituent]
      /\ quotes = [s \in Symbol |-> 0] /\ rates = [c \in Currency |-> 0]
      /\ weights = [e \in Etf |-> 0]
      /\ listed = [e \in Etf |-> [c \in Constituent |-> 0]]
      /\ files = {} /\ dumps = {} /\ day = 1
  BY DEF Init, JobsInit
<1>2. Off \in Work /\ Off.job = "none"
  BY DEF Off, Work
<1>3. status \in [JobName -> {"never", "running", "ok", "error"}] /\ go \in [Goroutine -> Work]
  BY <1>1, <1>2
<1>4. JobsTypeOK
  <2>1. /\ pages \in [Etf -> SUBSET Constituent] /\ quotes \in [Symbol -> 0 .. market]
        /\ rates \in [Currency -> 0 .. day] /\ weights \in [Etf -> 0 .. market]
    BY <1>1
  <2>2. [c \in Constituent |-> 0] \in [Constituent -> 0 .. day]
    BY <1>1
  <2>3. listed \in [Etf -> [Constituent -> 0 .. day]]
    BY <1>1, <2>2
  <2>4. market \in Nat
    BY <1>1
  <2>5. files \subseteq [day : 1 .. day, full : BOOLEAN] /\ dumps \subseteq 1 .. day
    BY <1>1
  <2> QED
    BY <1>3, <2>1, <2>3, <2>4, <2>5 DEF JobsTypeOK
<1>5. \A g \in Goroutine : go[g] = Off
  BY <1>1
<1>6. RunsOK /\ EvaluatingOK
  BY <1>1, Names DEF RunsOK, EvaluatingOK
<1>7. FetchedOK /\ DumpingOK
  BY <1>1, <1>2, <1>5 DEF FetchedOK, Fetched, DumpingOK, Dumping, Prices
<1>8. DumpsKept
  BY <1>1 DEF DumpsKept
<1> QED
  BY <1>4, <1>6, <1>7, <1>8 DEF JobsInv

-----------------------------------------------------------------------------
(* The status of the alerts                                                *)

LEMMA StatusOfAlerts ==
    ASSUME JobsInv, NEW g \in Goroutine, GoroutineStep(g, workload.symbols, workload.path)
    PROVE  status'["alerts"] = status["alerts"]
<1>1. CASE UNCHANGED status
  BY <1>1
<1>2. ASSUME NEW j \in JobName \ {"alerts"}, NEW s \in {"running", "ok", "error"},
             SetJobStatus(j, s)
      PROVE  status'["alerts"] = status["alerts"]
  BY <1>2, Statuses, Names
<1>3. {"prices", "prices-live", "networth", "fx", "etf", "backup"} \subseteq JobName \ {"alerts"}
  BY DEF JobName
<1>4. CASE PricesStart(g)
  BY <1>1, <1>2, <1>3, <1>4 DEF PricesStart
<1>5. CASE PricesList(g, workload.symbols)
  BY <1>1, <1>2, <1>3, <1>5 DEF PricesList
<1>6. CASE PricesDone(g)
  BY <1>1, <1>2, <1>3, <1>6 DEF PricesDone
<1>7. CASE NetWorthRun(g)
  BY <1>1, <1>2, <1>3, <1>7 DEF NetWorthRun
<1>8. CASE FXStart(g) \/ FXFetch(g)
  BY <1>1, <1>2, <1>3, <1>8 DEF FXStart, FXFetch
<1>9. CASE EtfDone(g)
  BY <1>1, <1>2, <1>3, <1>9 DEF EtfDone
<1>10. CASE BackupStart(g, workload.path)
  BY <1>1, <1>2, <1>3, <1>10 DEF BackupStart
<1>11. CASE BackupDump(g)
  BY <1>1, <1>2, <1>3, <1>11 DEF BackupDump
<1>12. CASE EtfStart(g) \/ EtfPage(g) \/ EnforceBackupRetention(g)
  BY <1>12 DEF EtfStart, EtfPage, EnforceBackupRetention
<1>13. CASE \E s \in Symbol : PricesFetch(g, s) \/ UpsertMarketData(g, s)
  BY <1>13 DEF PricesFetch, UpsertMarketData
<1>14. CASE \E e \in Etf : EtfWeights(g, e)
  BY <1>14 DEF EtfWeights
<1> QED
  BY <1>4, <1>5, <1>6, <1>7, <1>8, <1>9, <1>10, <1>11, <1>12, <1>13, <1>14 DEF GoroutineStep

(* What the step of one worker leaves of it.                               *)
LEMMA WorkerKeeps ==
    ASSUME NoticesTypeOK, EvaluatingOK, NEW w \in Worker, NEW r, task' = [task EXCEPT ![w] = r],
           status'["alerts"] = "running" =>
              \/ r.job = "alerts" /\ r.step \in {"store", "send"}
              \/ /\ status["alerts"] = "running"
                 /\ task[w].job # "alerts" \/ task[w].step \notin {"store", "send"}
    PROVE  EvaluatingOK'
<1>1. task'[w] = r /\ \A v \in Worker \ {w} : task'[v] = task[v]
  BY DEF NoticesTypeOK
<1> QED
  BY <1>1 DEF EvaluatingOK

LEMMA NoticeStepEvaluating ==
    ASSUME NoticesInv, EvaluatingOK, NoticeStep
    PROVE  EvaluatingOK'
<1>1. status' = status /\ NoticesTypeOK /\ FreshOK
  BY DEF NoticeStep, jobVars, NoticesInv
<1>2. task \in [Worker -> Task] /\ "cron" \in Worker
  BY <1>1, Constants DEF NoticesTypeOK
<1>3. CASE CheckTaxCalendar \/ CheckTaxLossHarvesting(Security) \/ WeeklyDataHealth
           \/ SendWeeklyDigest \/ CheckDepositInsurance(workload.accounts)
  <2>1. task["cron"].job # "alerts"
    BY <1>3 DEF CheckTaxCalendar, CheckTaxLossHarvesting, WeeklyDataHealth, SendWeeklyDigest,
                CheckDepositInsurance, Begins, Finished
  <2>2. \E r : task' = [task EXCEPT !["cron"] = r]
    BY <1>3, Zenon DEF CheckTaxCalendar, CheckTaxLossHarvesting, WeeklyDataHealth, SendWeeklyDigest,
                CheckDepositInsurance, Compile, Assign
  <2>3. PICK r : task' = [task EXCEPT !["cron"] = r]
    BY <2>2
  <2> QED
    BY <1>1, <1>2, <2>1, <2>3, WorkerKeeps
<1>4. ASSUME NEW w \in Worker, InsertNotification(w) PROVE EvaluatingOK'
  <2>1. PICK id : ToSend(w, id)
    BY <1>4, Zenon DEF InsertNotification
  <2>2. PICK r : r = [job |-> task[w].job, step |-> "send", todo |-> task[w].todo,
                      blind |-> task[w].blind, row |-> id]
    OBVIOUS
  <2>3. task' = [task EXCEPT ![w] = r]
    BY <2>1, <2>2, Zenon DEF ToSend
  <2>4. r.job = task[w].job /\ r.step = "send"
    BY <2>2
  <2> QED
    BY <1>1, <2>3, <2>4, WorkerKeeps
<1>5. ASSUME NEW w \in Worker, DispatchMessage(w) PROVE EvaluatingOK'
  <2>1. PICK r : r = [job |-> task[w].job, step |-> "store", todo |-> Tail(task[w].todo),
                      blind |-> task[w].blind]
    OBVIOUS
  <2>2. task' = [task EXCEPT ![w] = r]
    BY <1>5, <2>1 DEF DispatchMessage, Assign
  <2>3. r.job = task[w].job /\ r.step = "store"
    BY <2>1
  <2> QED
    BY <1>1, <2>2, <2>3, WorkerKeeps
<1>6. ASSUME NEW w \in Worker, Finish(w), task[w].job # "alerts" PROVE EvaluatingOK'
  BY <1>1, <1>6, WorkerKeeps DEF Finish
<1> QED
  BY <1>3, <1>4, <1>5, <1>6 DEF NoticeStep

LEMMA AlertsRunEvaluating ==
    ASSUME NoticesInv, JobsInv, EvaluatingOK, NEW w \in Worker, AlertsRun(w)
    PROVE  EvaluatingOK'
<1>1. NoticesTypeOK
  BY DEF NoticesInv
<1>2. \A s \in {"running", "ok", "error"} : SetJobStatus("alerts", s) => status'["alerts"] = s
  BY Statuses, Names
<1>3. CASE EvaluateAlerts(w) /\ SetJobStatus("alerts", "running")
  <2>1. PICK todo : Assign(w, "alerts", todo, FALSE)
    BY <1>3, Zenon DEF EvaluateAlerts
  <2>2. PICK r : r = [job |-> "alerts", step |-> "store", todo |-> todo, blind |-> FALSE]
    OBVIOUS
  <2>3. task' = [task EXCEPT ![w] = r] /\ r.job = "alerts" /\ r.step = "store"
    BY <2>1, <2>2 DEF Assign
  <2> QED
    BY <1>1, <2>3, WorkerKeeps
<1>4. CASE SetJobStatus("alerts", "error") \/ SetJobStatus("alerts", "ok")
  BY <1>2, <1>4 DEF EvaluatingOK
<1> QED
  BY <1>3, <1>4 DEF AlertsRun

LEMMA UsersEvaluating ==
    ASSUME NoticesInv, EvaluatingOK, NoticeRequest \/ RunAlertCheck \/ RunUpdate
    PROVE  EvaluatingOK'
<1>1. status' = status
  BY DEF NoticeRequest, RunAlertCheck, RunUpdate, jobVars
<1>2. CASE NoticeRequest
  <2>1. task' = task
    BY <1>2 DEF NoticeRequest, HandleCreateAlert, HandleToggleAlert, HandleDeleteAlert,
                HandleMarkRead, HandleCreateChannel, HandleDeleteChannel
  <2> QED
    BY <1>1, <2>1 DEF EvaluatingOK
<1>3. CASE RunAlertCheck
  <2>1. NoticesTypeOK /\ "manual" \in Worker /\ task["manual"] = Idle
    BY <1>3, Constants DEF RunAlertCheck, NoticesInv
  <2>2. task["manual"].job # "alerts"
    BY <2>1 DEF Idle
  <2>3. PICK r : task' = [task EXCEPT !["manual"] = r]
    BY <1>3 DEF RunAlertCheck
  <2> QED
    BY <1>1, <2>1, <2>2, <2>3, WorkerKeeps
<1>4. CASE RunUpdate
  BY <1>1, <1>4 DEF RunUpdate, noticeVars, EvaluatingOK
<1> QED
  BY <1>2, <1>3, <1>4

LEMMA FireEvaluating ==
    ASSUME NoticesTypeOK, EvaluatingOK, Fire
    PROVE  EvaluatingOK'
<1>1. task["cron"] = Idle /\ "cron" \in Worker /\ status' = status
  BY Constants DEF Fire
<1>2. \E r : task' = [task EXCEPT !["cron"] = r]
  <2>1. task \in [Worker -> Task]
    BY DEF NoticesTypeOK
  <2>2. PICK told : task' = IF told = {} THEN task ELSE
               [task EXCEPT !["cron"] = [job |-> CHOOSE j \in told : TRUE, step |-> "start"]]
    BY DEF Fire
  <2>3. task = [task EXCEPT !["cron"] = task["cron"]]
    BY <2>1
  <2> QED
    BY <2>2, <2>3
<1>3. PICK r : task' = [task EXCEPT !["cron"] = r]
  BY <1>2
<1>4. task["cron"].job # "alerts"
  BY <1>1 DEF Idle
<1> QED
  BY <1>1, <1>3, <1>4, WorkerKeeps

-----------------------------------------------------------------------------
(* The inductive invariant                                                 *)

SchedulerInv == ClockOK /\ NoticesInv /\ JobsInv /\ EvaluatingOK

LEMMA ClockStays ==
    ASSUME ClockOK, UNCHANGED clock, faults' \in Nat, faults' <= faults,
           workload' = workload, up' \in BOOLEAN,
           crashes' \in Nat, requests' \in Nat, moves' \in Nat
    PROVE  ClockOK'
<1>1. workload.faults \in Nat
  BY Bounds
<1> QED
  BY <1>1 DEF ClockOK, clock

LEMMA JobStepKeeps ==
    ASSUME SchedulerInv, JobStep
    PROVE  SchedulerInv'
<1> USE DEF SchedulerInv
<1>1. UNCHANGED <<clock, up, crashes, requests, moves, workload>>
  BY DEF JobStep, others
<1>2. Still /\ Steady
  BY <1>1 DEF Still, Steady
<1>3. ASSUME faults' \in Nat, faults' <= faults PROVE ClockOK'
  <2>1. up' \in BOOLEAN /\ crashes' \in Nat /\ requests' \in Nat /\ moves' \in Nat
    BY <1>1 DEF ClockOK
  <2> QED
    BY <1>1, <1>3, <2>1, ClockStays
<1>4. faults' = faults => faults' \in Nat /\ faults' <= faults
  BY DEF ClockOK
<1>5. CASE NoticeStep
  <2>1. JobsInv'
    BY <1>2, <1>5, MessagesKeep DEF NoticeStep, jobVars
  <2>2. EvaluatingOK'
    BY <1>5, NoticeStepEvaluating
  <2>3. NoticesInv' /\ faults' \in Nat /\ faults' <= faults
    <3>1. CASE CheckTaxCalendar
      BY <1>2, <3>1, CalendarKeeps
    <3>2. CASE CheckDepositInsurance(workload.accounts)
      BY <1>2, <3>2, DepositKeeps
    <3>3. CASE CheckTaxLossHarvesting(Security)
      BY <1>2, <3>3, LossKeeps
    <3>4. CASE WeeklyDataHealth
      BY <1>2, <3>4, HealthKeeps
    <3>5. CASE SendWeeklyDigest
      BY <1>2, <1>4, <3>5, DigestKeeps
    <3>6. CASE \E w \in Worker : InsertNotification(w)
      BY <1>2, <3>6, InsertKeeps
    <3>7. CASE \E w \in Worker : DispatchMessage(w)
      BY <1>2, <3>7, DispatchKeeps
    <3>8. CASE \E w \in Worker : Finish(w)
      BY <1>2, <1>4, <3>8, FinishKeeps
    <3> QED
      BY <1>5, <3>1, <3>2, <3>3, <3>4, <3>5, <3>6, <3>7, <3>8 DEF NoticeStep
  <2> QED
    BY <1>3, <2>1, <2>2, <2>3
<1>6. ASSUME NEW w \in Worker, AlertsRun(w) PROVE SchedulerInv'
  <2>1. JobsInv'
    BY <1>2, <1>6, MessagesKeep DEF AlertsRun
  <2>2. EvaluatingOK'
    BY <1>6, AlertsRunEvaluating
  <2>3. NoticesInv' /\ faults' \in Nat /\ faults' <= faults
    <3>1. CASE EvaluateAlerts(w)
      BY <1>2, <1>4, <3>1, EvaluateKeeps
    <3>2. CASE AlertsFail(w)
      BY <1>2, <3>2, AlertsFailKeeps
    <3>3. CASE Finish(w)
      BY <1>2, <1>4, <3>3, FinishKeeps
    <3> QED
      BY <1>6, <3>1, <3>2, <3>3 DEF AlertsRun
  <2> QED
    BY <1>3, <2>1, <2>2, <2>3
<1>7. ASSUME NEW g \in Goroutine, GoroutineStep(g, workload.symbols, workload.path),
             UNCHANGED noticeVars
      PROVE  SchedulerInv'
  <2>1. JobsInv' /\ faults' \in Nat /\ faults' <= faults
    BY <1>2, <1>7, GoroutineKeeps
  <2>2. NoticesInv'
    BY <1>2, <1>7, <2>1, OthersKeep
  <2>3. status'["alerts"] = status["alerts"] /\ task' = task
    BY <1>7, StatusOfAlerts DEF noticeVars
  <2>4. EvaluatingOK'
    BY <2>3 DEF EvaluatingOK
  <2> QED
    BY <1>3, <2>1, <2>2, <2>4
<1> QED
  BY <1>5, <1>6, <1>7 DEF JobStep

LEMMA RequestKeeps ==
    ASSUME SchedulerInv, Request
    PROVE  SchedulerInv'
<1> USE DEF SchedulerInv
<1>1. /\ UNCHANGED <<clock, up, crashes, moves, workload>> /\ requests' = requests + 1
      /\ NoticeRequest \/ RunAlertCheck \/ RunUpdate
  BY DEF Request
<1>2. Still /\ Steady
  BY <1>1 DEF Still, Steady
<1>3. EvaluatingOK'
  BY <1>1, UsersEvaluating
<1>4. NoticesInv' /\ JobsInv' /\ faults' = faults
  <2>1. CASE NoticeRequest
    BY <1>2, <2>1, UsersKeep, MessagesKeep DEF NoticeRequest, jobVars
  <2>2. CASE RunAlertCheck
    BY <1>2, <2>2, AlertCheckKeeps, MessagesKeep DEF RunAlertCheck, jobVars
  <2>3. CASE RunUpdate
    <3>1. JobsInv' /\ faults' = faults
      BY <1>2, <2>3, UpdateKeeps
    <3>2. faults' \in Nat /\ faults' <= faults
      BY <3>1 DEF ClockOK
    <3>3. UNCHANGED noticeVars
      BY <2>3 DEF RunUpdate
    <3> QED
      BY <1>2, <3>1, <3>2, <3>3, OthersKeep
  <2> QED
    BY <1>1, <2>1, <2>2, <2>3
<1>5. ClockOK'
  <2>1. /\ up' \in BOOLEAN /\ crashes' \in Nat /\ requests' \in Nat /\ moves' \in Nat
        /\ faults' \in Nat /\ faults' <= faults
    BY <1>1, <1>4 DEF ClockOK
  <2> QED
    BY <1>1, <2>1, ClockStays
<1> QED
  BY <1>3, <1>4, <1>5

LEMMA Inductive == SchedulerInv /\ [Next]_vars => SchedulerInv'
<1> USE DEF SchedulerInv
<1> SUFFICES ASSUME SchedulerInv, [Next]_vars PROVE SchedulerInv'
  OBVIOUS
<1>1. CASE Fire
  BY <1>1, FireClock, FireKeeps, FireJobs, FireEvaluating DEF NoticesInv
<1>2. CASE JobStep
  BY <1>2, JobStepKeeps
<1>3. CASE Request
  BY <1>3, RequestKeeps
<1>4. CASE Crash
  <2>1. /\ UNCHANGED <<clock, faults, requests, moves, workload>>
        /\ up' = FALSE /\ crashes' = crashes + 1 /\ status' = [j \in JobName |-> "never"]
    BY <1>4 DEF Crash
  <2>2. ClockOK'
    <3>1. up' = FALSE /\ crashes' = crashes + 1 /\ requests' = requests /\ moves' = moves
      BY <2>1
    <3>2. crashes' \in Nat /\ requests' \in Nat /\ moves' \in Nat
      BY <3>1 DEF ClockOK
    <3>3. up' \in BOOLEAN /\ crashes' \in Nat /\ requests' \in Nat /\ moves' \in Nat
      BY <3>1, <3>2
    <3>4. faults' = faults
      BY <2>1
    <3>5. faults' \in Nat /\ faults' <= faults
      BY <3>4 DEF ClockOK
    <3> QED
      BY <2>1, <3>3, <3>5, ClockStays
  <2>3. EvaluatingOK'
    BY <2>1, Names DEF EvaluatingOK
  <2> QED
    BY <1>4, <2>2, <2>3, CrashKeeps, CrashJobs
<1>5. CASE Start
  <2>1. UNCHANGED <<clock, faults, noticeVars, status, crashes, requests, moves, workload>> /\ up' = TRUE
    BY <1>5 DEF Start
  <2>2. /\ up' \in BOOLEAN /\ crashes' \in Nat /\ requests' \in Nat /\ moves' \in Nat
        /\ faults' \in Nat /\ faults' <= faults
    BY <2>1 DEF ClockOK
  <2>3. ClockOK'
    BY <2>1, <2>2, ClockStays
  <2>4. NoticesInv'
    BY <2>1, <2>2, OthersKeep DEF Still
  <2>5. EvaluatingOK'
    BY <2>1 DEF noticeVars, EvaluatingOK
  <2> QED
    BY <1>5, <2>3, <2>4, <2>5, StartKeeps
<1>6. CASE Move
  <2>1. /\ UNCHANGED <<clock, noticeVars, faults, status, up, crashes, requests, workload>>
        /\ moves' = moves + 1
    BY <1>6 DEF Move, MarketMoves
  <2>2. /\ up' \in BOOLEAN /\ crashes' \in Nat /\ requests' \in Nat /\ moves' \in Nat
        /\ faults' \in Nat /\ faults' <= faults
    BY <2>1 DEF ClockOK
  <2>3. ClockOK'
    BY <2>1, <2>2, ClockStays
  <2>4. NoticesInv'
    BY <2>1, <2>2, OthersKeep DEF Still
  <2>5. EvaluatingOK'
    BY <2>1 DEF noticeVars, EvaluatingOK
  <2> QED
    BY <1>6, <2>3, <2>4, <2>5, MoveKeeps
<1>7. CASE UNCHANGED vars
  <2>1. UNCHANGED <<clock, faults, noticeVars, jobVars, up, crashes, requests, moves, workload>>
    BY <1>7 DEF vars
  <2>2. /\ up' \in BOOLEAN /\ crashes' \in Nat /\ requests' \in Nat /\ moves' \in Nat
        /\ faults' \in Nat /\ faults' <= faults
    BY <2>1 DEF ClockOK
  <2>3. ClockOK'
    BY <2>1, <2>2, ClockStays
  <2>4. NoticesInv'
    BY <2>1, <2>2, OthersKeep DEF Still
  <2>5. EvaluatingOK'
    BY <2>1 DEF noticeVars, jobVars, EvaluatingOK
  <2>6. JobsInv'
    BY <2>1, MessagesKeep DEF jobVars, Steady
  <2> QED
    BY <2>3, <2>4, <2>5, <2>6
<1> QED
  BY <1>1, <1>2, <1>3, <1>4, <1>5, <1>6, <1>7 DEF Next

LEMMA SchedulerInvariant == Spec => []SchedulerInv
<1>1. Init => SchedulerInv
  BY NoticesInitial, JobsInitial DEF SchedulerInv
<1> QED
  BY <1>1, Inductive, PTL DEF Spec

-----------------------------------------------------------------------------
(* The theorems                                                            *)

(* Every table, the list of each job and the table of statuses keep their  *)
(* types through failures, requests, crashes and starts                    *)
(* (scheduler/jobs.go).                                                    *)
THEOREM SchedulerTypeCorrect == Spec => []TypeOK
<1>1. SchedulerInv => TypeOK
  BY DEF SchedulerInv, ClockOK, NoticesInv, JobsInv, TypeOK
<1> QED
  BY <1>1, SchedulerInvariant, PTL

(* Whatever the lengths of the lists and the requests in between, a        *)
(* reminder comes twice in its month only when the list of notifications   *)
(* could not be read or had grown past the limit of the query since        *)
(* (jobs.go:1757-1777, 1820-1846 and 1940-1949).                           *)
THEOREM RepetitionsExplained == Spec => []RepeatsExplained
<1>1. SchedulerInv => RepeatsExplained
  BY DEF SchedulerInv, NoticesInv
<1> QED
  BY <1>1, SchedulerInvariant, PTL

(* When the calendar job has gone through a day, every event that is due   *)
(* has been told this month or failed to be stored today, whatever crashed *)
(* or failed before (jobs.go:1666-1788).                                   *)
THEOREM CalendarComplete == Spec => []DueStored
<1>1. SchedulerInv => DueStored
  BY DEF SchedulerInv, NoticesInv
<1> QED
  BY <1>1, SchedulerInvariant, PTL

(* A stored notification that no channel was handed is paid for by a crash *)
(* or by a failure, however many alerts the two workers evaluate           *)
(* (jobs.go:318-336 and dispatch.go).                                      *)
THEOREM SilencesExplained == Spec => []SilenceExplained
<1>1. ASSUME SchedulerInv PROVE SilenceExplained
  <2>1. PICK lost \in SUBSET Row :
            /\ IsFiniteSet(lost)
            /\ Cardinality(lost) <= 2 * crashes + (workload.faults - faults)
            /\ \A n \in Unsent : n \in lost \/ \E w \in Sending : task[w].row = n.serial
    BY <1>1 DEF SchedulerInv, NoticesInv, SilenceOK
  <2>2. IsFiniteSet(Worker) /\ Cardinality(Worker) = 2
    <3>1. IsFiniteSet({}) /\ Cardinality({}) = 0
      BY FS_EmptySet
    <3>2. IsFiniteSet({"cron"}) /\ Cardinality({"cron"}) = 1
      BY FS_Singleton
    <3>3. PICK one : one = {"cron"}
      OBVIOUS
    <3>4. IsFiniteSet(one) /\ Cardinality(one) = 1 /\ "manual" \notin one
      BY <3>2, <3>3
    <3>5. /\ IsFiniteSet(one \cup {"manual"})
          /\ Cardinality(one \cup {"manual"})
               = IF "manual" \in one THEN Cardinality(one) ELSE Cardinality(one) + 1
      BY <3>4, FS_AddElement
    <3>6. Worker = one \cup {"manual"}
      BY <3>3, Constants
    <3> QED
      BY <3>4, <3>5, <3>6
  <2>3. IsFiniteSet(Sending) /\ Cardinality(Sending) \in Nat
    <3>1. Sending \in SUBSET Worker
      BY DEF Sending
    <3> QED
      BY <2>2, <3>1, FS_Subset, FS_CardinalityType
  <2>4. PICK owned : owned = {n \in rows : \E w \in Sending : task[w].row = n.serial}
    OBVIOUS
  <2>5. PICK f : f = [n \in owned |-> CHOOSE w \in Sending : task[w].row = n.serial]
    OBVIOUS
  <2>6. f \in Injection(owned, Sending)
    <3>1. \A n \in owned : f[n] \in Sending /\ task[f[n]].row = n.serial
      BY <2>4, <2>5
    <3>2. \A n, m \in owned : n.serial = m.serial => n = m
      BY <1>1, <2>4 DEF SchedulerInv, NoticesInv, NoticesTypeOK
    <3>3. \A n, m \in owned : f[n] = f[m] => n = m
      BY <3>1, <3>2
    <3>4. f \in [owned -> Sending]
      BY <2>5, <3>1
    <3> QED
      BY <3>3, <3>4 DEF Injection, IsInjective
  <2>7. IsFiniteSet(owned) /\ Cardinality(owned) <= Cardinality(Sending)
    BY <2>3, <2>6, FS_Injection
  <2>8. /\ IsFiniteSet(lost \cup owned)
        /\ Cardinality(lost \cup owned)
             = Cardinality(lost) + Cardinality(owned) - Cardinality(lost \cap owned)
    BY <2>1, <2>7, FS_Union
  <2>9. IsFiniteSet(lost \cap owned)
    BY <2>1, FS_Intersection
  <2>10. /\ Cardinality(lost) \in Nat /\ Cardinality(owned) \in Nat
         /\ Cardinality(lost \cap owned) \in Nat
    BY <2>1, <2>7, <2>9, FS_CardinalityType
  <2>11. Unsent \in SUBSET (lost \cup owned)
    BY <2>1, <2>4 DEF Unsent
  <2>12. IsFiniteSet(Unsent) /\ Cardinality(Unsent) <= Cardinality(lost \cup owned)
    BY <2>8, <2>11, FS_Subset
  <2>13. Cardinality(Unsent) \in Nat
    BY <2>12, FS_CardinalityType
  <2>14. Cardinality(Unsent) <= Cardinality(lost) + Cardinality(Sending)
    BY <2>3, <2>7, <2>8, <2>10, <2>12, <2>13
  <2>15. crashes \in Nat /\ faults \in Nat /\ workload.faults \in Nat
    BY <1>1, Bounds DEF SchedulerInv, ClockOK
  <2>16. Cardinality(Unsent) <= crashes * 2 + (workload.faults - faults) + Cardinality(Sending)
    BY <2>1, <2>3, <2>10, <2>13, <2>14, <2>15
  <2> QED
    BY <2>2, <2>16 DEF SilenceExplained, Sending
<1> QED
  BY <1>1, SchedulerInvariant, PTL

(* The status page never says of a job that it runs when no goroutine does *)
(* it, except of a price update without a symbol: the status is written    *)
(* without a lock by overlapping updates, and a crash forgets it           *)
(* (jobs.go, the callers of setJobStatus).                                 *)
THEOREM StatusesTrue == Spec => []RunningRuns
<1>1. SchedulerInv => RunningRuns
  BY DEF SchedulerInv, JobsInv, RunsOK, EvaluatingOK, RunningRuns, Prices
<1> QED
  BY <1>1, SchedulerInvariant, PTL

(* Retention, failing dumps and crashes while a dump is written never cost *)
(* a complete dump of the last days or of the first of a month             *)
(* (backupDatabase and enforceBackupRetention).                            *)
THEOREM BackupsKept == Spec => []DumpsKept
<1>1. SchedulerInv => DumpsKept
  BY DEF SchedulerInv, JobsInv
<1> QED
  BY <1>1, SchedulerInvariant, PTL
==============================================================================
