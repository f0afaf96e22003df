-------------------------------- MODULE Quota ---------------------------------
(***************************************************************************)
(* What the two limiters promise (internal/auth/ratelimit.go,              *)
(* internal/handler/ratelimit.go), without their data structures: windows  *)
(* close, and failures are forgotten, the moment their time has come.      *)
(* Limits implements this, though it does both only when it is asked.      *)
(***************************************************************************)
EXTENDS Integers, FiniteSets

CONSTANTS Client, Limiter, Rate, Window, MaxFails, LoginWindow, LastTime

VARIABLES
    now,
    windows,    \* per limiter and client: closed, or when opened and how often used
    failures,   \* per client the failed sign-ins that still count
    recorded,   \* how many failures there were
    answer      \* the last answer given

vars == <<now, windows, failures, recorded, answer>>

Closed == [opened |-> 0, used |-> 0]

Init ==
    /\ now = 0
    /\ windows = [l \in Limiter |-> [c \in Client |-> Closed]]
    /\ failures = [c \in Client |-> {}]
    /\ recorded = 0
    /\ answer = TRUE

(* Time passes: the windows that are over close, old failures drop out.    *)
Tick ==
    /\ now' = now + 1
    /\ windows' = [l \in Limiter |-> [c \in Client |->
                     IF now' - windows[l][c].opened >= Window[l]
                     THEN Closed ELSE windows[l][c]]]
    /\ failures' = [c \in Client |->
                      {f \in failures[c] : f.at > now' - LoginWindow}]
    /\ UNCHANGED <<recorded, answer>>

(* At most Rate requests are admitted in a window ...                      *)
Admit(l, c) ==
    /\ \/ /\ windows[l][c] = Closed
          /\ windows' = [windows EXCEPT ![l][c] = [opened |-> now, used |-> 1]]
       \/ /\ windows[l][c].used \in 1 .. Rate[l] - 1
          /\ windows' = [windows EXCEPT ![l][c].used = @ + 1]
    /\ answer' = TRUE
    /\ UNCHANGED <<now, failures, recorded>>

(* ... and none is refused before. *)
Refuse(l, c) ==
    /\ windows[l][c].used = Rate[l]
    /\ answer' = FALSE
    /\ UNCHANGED <<now, windows, failures, recorded>>

(* A sign-in is admitted iff few enough failures count. *)
Try(c) ==
    /\ answer' = (Cardinality(failures[c]) < MaxFails)
    /\ UNCHANGED <<now, windows, failures, recorded>>

Fail(c) ==
    /\ recorded' = recorded + 1
    /\ failures' = [failures EXCEPT ![c] = @ \cup {[at |-> now, n |-> recorded']}]
    /\ UNCHANGED <<now, windows, answer>>

Forget(c) ==
    /\ failures' = [failures EXCEPT ![c] = {}]
    /\ UNCHANGED <<now, windows, recorded, answer>>

(* The process is started again. *)
Restart ==
    /\ windows' = [l \in Limiter |-> [c \in Client |-> Closed]]
    /\ failures' = [c \in Client |-> {}]
    /\ UNCHANGED <<now, recorded, answer>>

Next ==
    \/ Tick \/ Restart
    \/ \E c \in Client :
          \/ Try(c) \/ Fail(c) \/ Forget(c)
          \/ \E l \in Limiter : Admit(l, c) \/ Refuse(l, c)

Spec == Init /\ [][Next]_vars
=============================================================================
