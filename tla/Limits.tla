-------------------------------- MODULE Limits --------------------------------
(***************************************************************************)
(* The limiters as they are kept in memory.                                *)
(*                                                                         *)
(* RateLimiter (handler/ratelimit.go): per client address a bucket that is *)
(* filled by the first request after its window, and thrown away by a      *)
(* goroutine two windows later.  LoginLimiter (auth/ratelimit.go): per     *)
(* address the failed sign-ins, pruned when the next one asks.  A failure  *)
(* is recorded after the password was compared, long after Allow.          *)
(***************************************************************************)
EXTENDS Integers, FiniteSets

CONSTANTS
    Client,         \* client addresses
    Limiter,        \* api, upload, report
    Rate,           \* requests a limiter admits in a window
    Window,         \* the length of its window
    MaxFails,       \* 5
    LoginWindow,    \* 15 minutes
    LastTime        \* bound: the last moment

ASSUME LimitsAssumption ==
    /\ Rate \in [Limiter -> Nat \ {0}]
    /\ Window \in [Limiter -> Nat \ {0}]
    /\ MaxFails \in Nat \ {0}
    /\ LoginWindow \in Nat \ {0}
    /\ LastTime \in Nat

VARIABLES
    now,        \* time.Now()
    buckets,    \* rl.buckets, per limiter and address
    attempts,   \* l.attempts: when sign-ins failed
    recorded,   \* ghost: number of failures, their identity
    answer      \* the last answer of a limiter

limitVars == <<now, buckets, attempts, recorded, answer>>

NoBucket == [tokens |-> -1, lastReset |-> 0]

Bucket == [tokens : Nat, lastReset : Nat] \cup {NoBucket}

Failure == [at : Nat, n : Nat]

LimitsTypeOK ==
    /\ now \in Nat
    /\ buckets \in [Limiter -> [Client -> Bucket]]
    /\ attempts \in [Client -> SUBSET Failure]
    /\ recorded \in Nat
    /\ answer \in BOOLEAN

LimitsInit ==
    /\ now = 0
    /\ buckets = [l \in Limiter |-> [c \in Client |-> NoBucket]]
    /\ attempts = [c \in Client |-> {}]
    /\ recorded = 0
    /\ answer = TRUE

Tick ==
    /\ now < LastTime
    /\ now' = now + 1
    /\ UNCHANGED <<buckets, attempts, recorded, answer>>

-----------------------------------------------------------------------------
(* RateLimiter *)

Age(l, c) == now - buckets[l][c].lastReset

(* No bucket, or one whose window has passed. *)
Fresh(l, c) == buckets[l][c] = NoBucket \/ Age(l, c) >= Window[l]

Admits(l, c) == Fresh(l, c) \/ buckets[l][c].tokens > 0

BucketAfter(l, c) ==
    IF Fresh(l, c) THEN [tokens |-> Rate[l] - 1, lastReset |-> now]
    ELSE [buckets[l][c] EXCEPT !.tokens = @ - 1]

RateAllow(l, c) ==
    /\ Admits(l, c)
    /\ buckets' = [buckets EXCEPT ![l][c] = BucketAfter(l, c)]
    /\ answer' = TRUE
    /\ UNCHANGED <<now, attempts, recorded>>

RateRefuse(l, c) ==
    /\ ~Admits(l, c)
    /\ answer' = FALSE
    /\ UNCHANGED <<now, buckets, attempts, recorded>>

(* Mutant: buckets are cleaned up before their window is over. *)
StaleEarly(l, c) == Age(l, c) >= Window[l] \div 2

(* cleanTTL is two windows. *)
Stale(l, c) == Age(l, c) > 2 * Window[l]

Cleanup(l) ==
    /\ buckets' = [buckets EXCEPT ![l] =
                     [c \in Client |-> IF Stale(l, c) THEN NoBucket ELSE buckets[l][c]]]
    /\ UNCHANGED <<now, attempts, recorded, answer>>

-----------------------------------------------------------------------------
(* LoginLimiter *)

Recent(c) == {f \in attempts[c] : f.at > now - LoginWindow}

(* Mutant: one failure too many. *)
LoginAllowOneMore(c, ok) ==
    /\ ok = (Cardinality(Recent(c)) <= MaxFails)
    /\ attempts' = [attempts EXCEPT ![c] = Recent(c)]
    /\ answer' = ok
    /\ UNCHANGED <<now, buckets, recorded>>

(* Allow prunes, whatever it answers. *)
LoginAllow(c, ok) ==
    /\ ok = (Cardinality(Recent(c)) < MaxFails)
    /\ attempts' = [attempts EXCEPT ![c] = Recent(c)]
    /\ answer' = ok
    /\ UNCHANGED <<now, buckets, recorded>>

RecordFailure(c) ==
    /\ recorded' = recorded + 1
    /\ attempts' = [attempts EXCEPT ![c] = @ \cup {[at |-> now, n |-> recorded']}]
    /\ UNCHANGED <<now, buckets, answer>>

Reset(c) ==
    /\ attempts' = [attempts EXCEPT ![c] = {}]
    /\ UNCHANGED <<now, buckets, recorded, answer>>

(* Both limiters live in memory. *)
LimitsRestart ==
    /\ buckets' = [l \in Limiter |-> [c \in Client |-> NoBucket]]
    /\ attempts' = [c \in Client |-> {}]
    /\ UNCHANGED <<now, recorded, answer>>

-----------------------------------------------------------------------------
LimitsNext ==
    \/ Tick \/ LimitsRestart
    \/ \E l \in Limiter : Cleanup(l)
    \/ \E c \in Client :
          \/ \E ok \in BOOLEAN : LoginAllow(c, ok)
          \/ RecordFailure(c) \/ Reset(c)
          \/ \E l \in Limiter : RateAllow(l, c) \/ RateRefuse(l, c)

LimitsSpec == LimitsInit /\ [][LimitsNext]_limitVars

-----------------------------------------------------------------------------
(* What a bucket amounts to now: a window closes by itself, whether or not *)
(* a request or the goroutine has noticed.                                 *)
WindowOf(l, c) ==
    IF Fresh(l, c) THEN [opened |-> 0, used |-> 0]
    ELSE [opened |-> buckets[l][c].lastReset,
          used   |-> Rate[l] - buckets[l][c].tokens]

Promise == INSTANCE Quota WITH
    windows  <- [l \in Limiter |-> [c \in Client |-> WindowOf(l, c)]],
    failures <- [c \in Client |-> Recent(c)]

(* Lazy refilling, lazy pruning and the clean-up goroutine cannot be told  *)
(* from windows that close on time (ratelimit.go:61-73): no request is     *)
(* refused while the quota lasts, and none admitted after.                 *)
QuotaKept == Promise!Spec
=============================================================================
