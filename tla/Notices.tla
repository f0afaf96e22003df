-------------------------------- MODULE Notices --------------------------------
(***************************************************************************)
(* Notifications (scheduler/jobs.go, scheduler/dispatch.go,                *)
(* handler/alerts.go, the channels of handler/settings.go): price alerts,  *)
(* the tax calendar, deposit insurance, tax-loss hints, data health and    *)
(* the weekly digest.  A job reads the latest notifications to learn what  *)
(* it has told already, then stores and sends one message after the other. *)
(* Days, months and years are regular; what a job finds out about prices   *)
(* and balances is any subset of what it looks at.                         *)
(***************************************************************************)
EXTENDS Cron

CONSTANTS
    Event, DueOn,           \* calendar events and their day of the year, from 1
    Institution, Extends,   \* Extends[i]: the names that begin with the name i
    Security, Alert, Channel,
    AlertType,              \* the type an alert of this id is created with
    Ahead,                  \* 14 days before an event
    ListEvents,             \* 100 notifications read for the calendar,
    ListCash,               \* 50 for deposits and tax losses,
    ListHealth,             \* 20 for data health
    HealthGap               \* 6 days

VARIABLES
    rows,           \* notifications; serials are in the order of triggered_at
    serial,         \* number of notifications ever stored
    unread,         \* serials with is_read = false
    alerts,         \* price_alerts: "none", "active" or "paused"
    channels,       \* notification_channels
    task,           \* what each worker does
    sent,           \* messages handed to the senders; row is the serial of its
                    \* notification, 0 when that could not be stored
    checked,        \* parts of the calendar job done today
    untold          \* its messages of today that could not be stored

noticeVars == <<rows, serial, unread, alerts, channels, task, sent, checked, untold>>

ASSUME NoticesAssumption ==
    /\ \A S \in {Event, Institution, Security, Alert} : IsFiniteSet(S)
    /\ DueOn \in [Event -> Nat \ {0}]
    /\ Extends \in [Institution -> SUBSET Institution]
    /\ {Ahead, ListEvents, ListCash, ListHealth, HealthGap} \subseteq Nat
    /\ AlertType \in [Alert -> {"price_above", "price_below", "daily_change",
                                "portfolio_milestone"}]

Topic == [kind : {"event"}, of : Event] \cup [kind : {"cash"}, of : Institution]
           \cup [kind : {"loss"}, of : Security] \cup [kind : {"alert"}, of : Alert]
           \cup {[kind |-> "health"], [kind |-> "digest"]}

(* Two goroutines run these jobs: cron's (the table has one such job in a  *)
(* slot) and the one of RunAlertCheck.                                     *)
Worker == {"cron", "manual"}

Idle == [job |-> "none", step |-> "none"]

Task ==
    LET jobs == {"calendar", "cash", "loss", "health", "alerts", "digest"}
    IN  {Idle} \cup [job : jobs, step : {"start"}]
          \cup [job : jobs, step : {"store"}, todo : Seq(Topic), blind : BOOLEAN]
          \cup [job : jobs, step : {"send"}, todo : Seq(Topic), blind : BOOLEAN, row : Nat]

Row == [serial : Nat \ {0}, topic : Topic, day : Nat, blind : BOOLEAN]

ChannelRow == [id : Channel, enabled : BOOLEAN, for : {"all", "alerts", "digest"},
               freq : {"weekly", "monthly", "quarterly", "never"}]

NoticesTypeOK ==
    /\ rows \subseteq Row /\ \A n \in rows : n.serial <= serial
    /\ \A n, m \in rows : n.serial = m.serial => n = m
    /\ serial \in Nat /\ unread \subseteq 1 .. serial
    /\ alerts \in [Alert -> {"none", "active", "paused"}]
    /\ channels \subseteq ChannelRow
    /\ task \in [Worker -> Task]
    /\ \A w \in Worker : task[w].step = "send" => task[w].todo # <<>>
    /\ \A m \in sent : m.topic \in Topic /\ m.row \in Nat /\ m.to \subseteq Channel
    /\ checked \subseteq {"event", "cash"} /\ untold \subseteq Topic

-----------------------------------------------------------------------------
(* The calendar *)

(* int(ev.date.Sub(now).Hours() / 24) truncates towards zero, and the date  *)
(* is the one of the current year.                                         *)
HoursUntil(e, h) == 24 * (Year(day) * DaysPerYear + DueOn[e]) - (24 * day + h)

Due(e, h) ==
    LET left == HoursUntil(e, h)
    IN  IF left >= 0 THEN left \div 24 <= Ahead ELSE (-left) \div 24 <= 1

-----------------------------------------------------------------------------
(* The table of notifications *)

(* Mutant: the order of the list is turned round. *)
LatestOldest(n) == {r \in rows : Cardinality({s \in rows : s.serial < r.serial}) < n}

(* ListNotifications *)
Latest(n) == {r \in rows : Cardinality({s \in rows : s.serial > r.serial}) < n}

SameMonth(d) == Month(d) = Month(day) /\ Year(d) = Year(day)

(* strings.HasPrefix(n.Message, prefix): the name of one institution may   *)
(* begin with that of another.                                             *)
HasPrefix(topic, t) ==
    \/ topic = t
    \/ /\ topic.kind = "cash" /\ t.kind = "cash"
       /\ topic.of \in Extends[t.of]

(* Mutant: the month of a reminder is not looked at. *)
ToldEver(t, known) == \E n \in known : HasPrefix(n.topic, t)

(* The message t is among the notifications read and recent enough.  A     *)
(* tax-loss hint is looked for by an alert type that no notification has.  *)
Told(t, known) ==
    \E n \in known :
        \/ t.kind \in {"event", "cash"} /\ HasPrefix(n.topic, t) /\ SameMonth(n.day)
        \/ t.kind = "health" /\ n.topic.kind = "health" /\ day - n.day < HealthGap

Assign(w, job, todo, blind) ==
    task' = [task EXCEPT ![w] = [job |-> job, step |-> "store", todo |-> todo, blind |-> blind]]

(* The calendar lists its events in the order of the source; the instances  *)
(* have that of their dates.                                               *)
InOrder(todo) ==
    \A i, j \in DOMAIN todo :
        i < j /\ todo[i].kind = "event" => DueOn[todo[i].of] <= DueOn[todo[j].of]

(* A job compiles its messages.  When the list cannot be read ("existing, _ *)
(* :=") nothing counts as told.                                            *)
Compile(job, limit, candidates) ==
    /\ \E f \in 0 .. 1 :
           /\ Failing(f)
           /\ LET known == IF f = 1 THEN {} ELSE Latest(limit)
              IN  \E todo \in SetToSeqs({t \in candidates : ~Told(t, known)}) :
                     InOrder(todo) /\ Assign("cron", job, todo, f = 1)
    /\ UNCHANGED <<rows, serial, unread, alerts, channels, sent, untold>>

(* The message whose notification is stored, or is not, is to be sent.     *)
ToSend(w, row) ==
    task' = [task EXCEPT ![w] = [job |-> @.job, step |-> "send", todo |-> @.todo,
                                 blind |-> @.blind, row |-> row]]

Finished(w, job) ==
    task[w].job = job /\ task[w].step = "store" /\ task[w].todo = <<>>

-----------------------------------------------------------------------------
(* The jobs *)

Begins(w, job) == task[w] = [job |-> job, step |-> "start"]

Topics(kind, ids) == {[kind |-> kind, of |-> id] : id \in ids}

CheckTaxCalendar ==
    /\ Begins("cron", "calendar")
    /\ Compile("calendar", ListEvents, Topics("event", {e \in Event : Due(e, hour)}))
    /\ UNCHANGED checked

(* instCash is a map: the institutions above the threshold come in any     *)
(* order.                                                                  *)
CheckDepositInsurance(accounts) ==
    /\ Finished("cron", "calendar")
    /\ checked' = checked \cup {"event"}
    /\ \E over \in SUBSET accounts : Compile("cash", ListCash, Topics("cash", over))

CheckTaxLossHarvesting(holdings) ==
    /\ Begins("cron", "loss")
    /\ \E down \in SUBSET holdings : Compile("loss", ListCash, Topics("loss", down))
    /\ UNCHANGED checked

WeeklyDataHealth ==
    /\ Begins("cron", "health")
    /\ \E issues \in SUBSET {[kind |-> "health"]} : Compile("health", ListHealth, issues)
    /\ UNCHANGED checked

(* Alerts of type daily_change are created and listed, and never fire.     *)
EvaluateAlerts(w) ==
    /\ Begins(w, "alerts")
    /\ \E hit \in SUBSET {a \in Alert : alerts[a] = "active" /\ AlertType[a] # "daily_change"} :
       \E todo \in SetToSeqs(Topics("alert", hit)) : Assign(w, "alerts", todo, FALSE)
    /\ UNCHANGED <<rows, serial, unread, alerts, channels, sent, checked, untold, faults>>

(* The list of alerts cannot be read.                                      *)
AlertsFail(w) ==
    /\ Begins(w, "alerts") /\ Failing(1)
    /\ task' = [task EXCEPT ![w] = Idle]
    /\ UNCHANGED <<rows, serial, unread, alerts, channels, sent, checked, untold>>

Finish(w) ==
    /\ \E job \in {"cash", "loss", "health", "alerts"} : Finished(w, job)
    /\ task' = [task EXCEPT ![w] = Idle]
    /\ checked' = IF task[w].job = "cash" THEN checked \cup {"cash"} ELSE checked
    /\ UNCHANGED <<rows, serial, unread, alerts, channels, sent, untold, faults>>

-----------------------------------------------------------------------------
(* notifyAndDispatch: the row, then the channels *)

(* Mutant: a job stores all its messages before it sends the last one. *)
InsertAll(w) ==
    /\ task[w].step = "store" /\ task[w].todo # <<>>
    /\ rows' = rows \cup {[serial |-> serial + 1, topic |-> Head(task[w].todo),
                         day |-> day, blind |-> task[w].blind]}
    /\ serial' = serial + 1 /\ unread' = unread \cup {serial + 1}
    /\ IF Len(task[w].todo) = 1 THEN ToSend(w, serial + 1)
       ELSE task' = [task EXCEPT ![w].todo = Tail(@)]
    /\ UNCHANGED <<alerts, channels, sent, checked, untold, faults>>

(* The row cannot be stored when its alert has been deleted since the jobs *)
(* read the list.                                                          *)
Storable(t) == t.kind = "alert" => alerts[t.of] # "none"

InsertNotification(w) ==
    /\ task[w].step = "store" /\ task[w].todo # <<>>
    /\ LET t == Head(task[w].todo)
       IN  \E f \in 0 .. 1 :
           /\ Failing(f)
           /\ IF f = 0 /\ Storable(t)
              THEN /\ rows' = rows \cup {[serial |-> serial + 1, topic |-> t,
                                        day |-> day, blind |-> task[w].blind]}
                   /\ serial' = serial + 1 /\ unread' = unread \cup {serial + 1}
                   /\ ToSend(w, serial + 1)
                   /\ UNCHANGED untold
              ELSE /\ untold' = IF t.kind = "alert" THEN untold ELSE untold \cup {t}
                   /\ ToSend(w, 0)
                   /\ UNCHANGED <<rows, serial, unread>>
    /\ UNCHANGED <<alerts, channels, sent, checked>>

(* Channels that dispatchMessage chooses; a failing list chooses none.     *)
Receivers(category, freq) ==
    {c.id : c \in {d \in channels :
        /\ d.enabled
        /\ d.for \in {"all", category}
        /\ category = "digest" => d.freq = freq}}

(* The senders are goroutines that report nothing back.                    *)
DispatchMessage(w) ==
    /\ task[w].step = "send"
    /\ \E f \in 0 .. 1 :
           /\ Failing(f)
           /\ sent' = IF f = 1 THEN sent ELSE sent \cup
                  {[topic |-> Head(task[w].todo), row |-> task[w].row,
                    to |-> Receivers("alerts", "")]}
    /\ Assign(w, task[w].job, Tail(task[w].todo), task[w].blind)
    /\ UNCHANGED <<rows, serial, unread, alerts, channels, checked, untold>>

(* Without a snapshot there is nothing to report.                          *)
SendWeeklyDigest ==
    /\ Begins("cron", "digest")
    /\ task' = [task EXCEPT !["cron"] = Idle]
    /\ \/ UNCHANGED sent
       \/ sent' = sent \cup {[topic |-> [kind |-> "digest"], row |-> 0,
                              to |-> Receivers("digest", "weekly")]}
    /\ UNCHANGED <<rows, serial, unread, alerts, channels, checked, untold, faults>>

-----------------------------------------------------------------------------
(* Requests *)

HandleCreateAlert(a) ==
    /\ alerts[a] = "none"
    /\ alerts' = [alerts EXCEPT ![a] = "active"]
    /\ UNCHANGED <<rows, serial, unread, channels, task, sent, checked, untold, faults>>

HandleToggleAlert(a) ==
    /\ alerts[a] # "none"
    /\ alerts' = [alerts EXCEPT ![a] = IF @ = "active" THEN "paused" ELSE "active"]
    /\ UNCHANGED <<rows, serial, unread, channels, task, sent, checked, untold, faults>>

(* ON DELETE CASCADE takes the notifications of the alert with it.         *)
HandleDeleteAlert(a) ==
    /\ alerts[a] # "none"
    /\ alerts' = [alerts EXCEPT ![a] = "none"]
    /\ rows' = {n \in rows : n.topic # [kind |-> "alert", of |-> a]}
    /\ unread' = unread \ {n.serial : n \in rows \ rows'}
    /\ UNCHANGED <<serial, channels, task, sent, checked, untold, faults>>

HandleMarkRead ==
    /\ unread # {} /\ unread' = {}
    /\ UNCHANGED <<rows, serial, alerts, channels, task, sent, checked, untold, faults>>

(* Without a frequency a channel gets monthly digests, without a purpose   *)
(* it is for all messages.                                                 *)
HandleCreateChannel(c, enabled, for, freq) ==
    /\ \A d \in channels : d.id # c
    /\ channels' = channels \cup {[id |-> c, enabled |-> enabled,
            for |-> IF for = "" THEN "all" ELSE for,
            freq |-> IF freq = "" THEN "monthly" ELSE freq]}
    /\ UNCHANGED <<rows, serial, unread, alerts, task, sent, checked, untold, faults>>

HandleDeleteChannel(c) ==
    /\ \E d \in channels : d.id = c
    /\ channels' = {d \in channels : d.id # c}
    /\ UNCHANGED <<rows, serial, unread, alerts, task, sent, checked, untold, faults>>

NoticesInit(initial) ==
    /\ rows = {} /\ serial = 0 /\ unread = {}
    /\ alerts = [a \in Alert |-> "none"]
    /\ channels = initial
    /\ task = [w \in Worker |-> Idle]
    /\ sent = {} /\ checked = {} /\ untold = {}
=============================================================================
