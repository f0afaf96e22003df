----------------------------- MODULE AccessProofs ------------------------------
(***************************************************************************)
(* Requests, users and passkeys keep their types and their promises, for   *)
(* every number of clients, users, concurrent requests and ceremonies, and *)
(* for every workload.                                                     *)
(***************************************************************************)
EXTENDS Access, FiniteSetTheorems, WellFoundedInduction, TLAPS

-----------------------------------------------------------------------------
(* The limiters                                                            *)

(* A bucket in use holds fewer tokens than the rate, and was filled in the *)
(* past.  The refinement needs both: "used" is what is missing.            *)
BucketOK(b, l) ==
    \/ b = NoBucket
    \/ /\ b \in [tokens : Nat, lastReset : Nat]
       /\ b.tokens < Rate[l]
       /\ b.lastReset <= now

LimitsInv ==
    /\ now \in Nat
    /\ recorded \in Nat
    /\ answer \in BOOLEAN
    /\ buckets \in [Limiter -> [Client -> Bucket]]
    /\ attempts \in [Client -> SUBSET Failure]
    /\ \A l \in Limiter, c \in Client : BucketOK(buckets[l][c], l)

(* What Fresh and BucketAfter say of one bucket. *)
LEMMA BucketCases ==
    ASSUME LimitsInv, NEW l \in Limiter, NEW c \in Client
    PROVE  /\ now \in Nat /\ Rate[l] \in Nat \ {0} /\ Window[l] \in Nat \ {0}
           /\ Fresh(l, c) \in BOOLEAN
           /\ ~Fresh(l, c) =>
                /\ buckets[l][c] \in [tokens : Nat, lastReset : Nat]
                /\ buckets[l][c].tokens \in Nat /\ buckets[l][c].lastReset \in Nat
                /\ buckets[l][c].tokens < Rate[l]
                /\ buckets[l][c].lastReset <= now
                /\ now - buckets[l][c].lastReset < Window[l]
<1>1. BucketOK(buckets[l][c], l)
  BY DEF LimitsInv
<1>2. now \in Nat /\ Rate[l] \in Nat \ {0} /\ Window[l] \in Nat \ {0}
  BY LimitsAssumption DEF LimitsInv
<1>3. CASE Fresh(l, c)
  BY <1>2, <1>3
<1>4. CASE ~Fresh(l, c)
  <2>1. buckets[l][c] # NoBucket /\ ~(now - buckets[l][c].lastReset >= Window[l])
    BY <1>4 DEF Fresh, Age
  <2>2. buckets[l][c] \in [tokens : Nat, lastReset : Nat]
    BY <1>1, <2>1 DEF BucketOK
  <2>3. /\ buckets[l][c].tokens \in Nat /\ buckets[l][c].lastReset \in Nat
        /\ buckets[l][c].tokens < Rate[l] /\ buckets[l][c].lastReset <= now
    BY <1>1, <2>1, <2>2 DEF BucketOK
  <2>4. now - buckets[l][c].lastReset < Window[l]
    BY <1>2, <2>1, <2>3
  <2> QED
    BY <1>2, <1>4, <2>2, <2>3, <2>4 DEF Fresh
<1> QED
  BY <1>3, <1>4 DEF Fresh

LEMMA LimitsInitial == LimitsInit => LimitsInv
<1> SUFFICES ASSUME LimitsInit PROVE LimitsInv
  OBVIOUS
<1>1. \A l \in Limiter, c \in Client : buckets[l][c] = NoBucket
  BY DEF LimitsInit
<1>2. buckets \in [Limiter -> [Client -> Bucket]]
  BY DEF LimitsInit, Bucket
<1>3. attempts \in [Client -> SUBSET Failure]
  BY DEF LimitsInit
<1> QED
  BY <1>1, <1>2, <1>3 DEF LimitsInit, LimitsInv, BucketOK

(* A step that leaves the buckets alone and does not turn back the clock.  *)
LEMMA BucketsStay ==
    ASSUME LimitsInv, UNCHANGED buckets, now' \in Nat, now <= now'
    PROVE  \A l \in Limiter, c \in Client : BucketOK(buckets[l][c], l)'
<1> SUFFICES ASSUME NEW l \in Limiter, NEW c \in Client
             PROVE  BucketOK(buckets[l][c], l)'
  OBVIOUS
<1>1. BucketOK(buckets[l][c], l) /\ now \in Nat
  BY DEF LimitsInv
<1>2. CASE buckets[l][c] = NoBucket
  BY <1>2 DEF BucketOK, NoBucket
<1>3. CASE buckets[l][c] # NoBucket
  BY <1>1, <1>3 DEF BucketOK
<1> QED
  BY <1>2, <1>3

LEMMA RecentTyped ==
    ASSUME LimitsInv, NEW c \in Client
    PROVE  Recent(c) \in SUBSET Failure
BY DEF Recent, LimitsInv

LEMMA LimitsInductive == LimitsInv /\ [LimitsNext]_limitVars => LimitsInv'
<1> SUFFICES ASSUME LimitsInv, [LimitsNext]_limitVars PROVE LimitsInv'
  OBVIOUS
<1> USE DEF LimitsInv
<1>1. CASE Tick
  <2>1. now' = now + 1 /\ now' \in Nat /\ now <= now'
    BY <1>1 DEF Tick
  <2>2. UNCHANGED <<buckets, attempts, recorded, answer>>
    BY <1>1 DEF Tick
  <2> QED
    BY <2>1, <2>2, BucketsStay
<1>2. CASE LimitsRestart
  <2>1. now' = now /\ recorded' = recorded /\ answer' = answer
    BY <1>2 DEF LimitsRestart
  <2>2. attempts' \in [Client -> SUBSET Failure]
    BY <1>2 DEF LimitsRestart
  <2>3. buckets' \in [Limiter -> [Client -> Bucket]]
    BY <1>2 DEF LimitsRestart, Bucket
  <2>4. \A l \in Limiter, c \in Client : buckets'[l][c] = NoBucket
    BY <1>2 DEF LimitsRestart
  <2>5. \A l \in Limiter, c \in Client : BucketOK(buckets[l][c], l)'
    BY <2>4 DEF BucketOK
  <2> QED
    BY <2>1, <2>2, <2>3, <2>5
<1>3. ASSUME NEW l \in Limiter, Cleanup(l) PROVE LimitsInv'
  <2>1. UNCHANGED <<now, attempts, recorded, answer>>
    BY <1>3 DEF Cleanup
  <2>2. \A k \in Limiter, c \in Client : buckets'[k][c] \in {buckets[k][c], NoBucket}
    BY <1>3 DEF Cleanup
  <2>3. buckets' \in [Limiter -> [Client -> Bucket]]
    BY <1>3 DEF Cleanup, Bucket
  <2>4. ASSUME NEW k \in Limiter, NEW c \in Client PROVE BucketOK(buckets[k][c], k)'
    <3>1. buckets'[k][c] \in {buckets[k][c], NoBucket}
      BY <2>2
    <3>2. BucketOK(buckets[k][c], k)
      OBVIOUS
    <3> QED
      BY <2>1, <3>1, <3>2 DEF BucketOK
  <2> QED
    BY <2>1, <2>3, <2>4
<1>4. ASSUME NEW c \in Client, NEW ok \in BOOLEAN, LoginAllow(c, ok)
      PROVE  LimitsInv'
  <2>1. Recent(c) \in SUBSET Failure
    BY RecentTyped
  <2>2. attempts' \in [Client -> SUBSET Failure]
    BY <1>4, <2>1 DEF LoginAllow
  <2>3. UNCHANGED <<now, buckets, recorded>> /\ answer' \in BOOLEAN
    BY <1>4 DEF LoginAllow
  <2> QED
    BY <2>2, <2>3, BucketsStay
<1>5. ASSUME NEW c \in Client, RecordFailure(c) PROVE LimitsInv'
  <2>1. UNCHANGED <<now, buckets, answer>> /\ recorded' \in Nat
    BY <1>5 DEF RecordFailure
  <2>2. [at |-> now, n |-> recorded'] \in Failure
    BY <2>1 DEF Failure
  <2>3. attempts' \in [Client -> SUBSET Failure]
    BY <1>5, <2>2 DEF RecordFailure
  <2> QED
    BY <2>1, <2>3, BucketsStay
<1>6. ASSUME NEW c \in Client, Reset(c) PROVE LimitsInv'
  <2>1. UNCHANGED <<now, buckets, recorded, answer>>
    BY <1>6 DEF Reset
  <2>2. attempts' \in [Client -> SUBSET Failure]
    BY <1>6 DEF Reset
  <2> QED
    BY <2>1, <2>2, BucketsStay
<1>7. ASSUME NEW c \in Client, NEW l \in Limiter, RateAllow(l, c)
      PROVE  LimitsInv'
  <2>1. UNCHANGED <<now, attempts, recorded>> /\ answer' \in BOOLEAN
    BY <1>7 DEF RateAllow
  <2>2. BucketOK(BucketAfter(l, c), l) /\ BucketAfter(l, c) \in Bucket
    <3>1. CASE Fresh(l, c)
      <4>1. BucketAfter(l, c) = [tokens |-> Rate[l] - 1, lastReset |-> now]
        BY <3>1 DEF BucketAfter
      <4>2. Rate[l] - 1 \in Nat /\ Rate[l] - 1 < Rate[l] /\ now \in Nat
        <5>1. Rate[l] \in Nat \ {0} /\ now \in Nat
          BY LimitsAssumption DEF LimitsInv
        <5> QED
          BY <5>1
      <4> QED
        BY <4>1, <4>2 DEF BucketOK, Bucket
    <3>2. CASE ~Fresh(l, c)
      <4>1. buckets[l][c].tokens > 0
        BY <1>7, <3>2 DEF RateAllow, Admits
      <4>2. /\ BucketAfter(l, c).tokens = buckets[l][c].tokens - 1
            /\ BucketAfter(l, c).lastReset = buckets[l][c].lastReset
            /\ BucketAfter(l, c) \in [tokens : Nat, lastReset : Nat]
        BY <3>2, <4>1, BucketCases DEF BucketAfter
      <4> QED
        BY <3>2, <4>1, <4>2, BucketCases DEF BucketOK, Bucket
    <3> QED
      BY <3>1, <3>2
  <2>3. buckets' = [buckets EXCEPT ![l][c] = BucketAfter(l, c)]
    BY <1>7 DEF RateAllow
  <2>4. buckets' \in [Limiter -> [Client -> Bucket]]
    BY <2>2, <2>3
  <2>5. ASSUME NEW k \in Limiter, NEW d \in Client PROVE BucketOK(buckets[k][d], k)'
    <3>1. CASE k = l /\ d = c
      BY <2>1, <2>2, <2>3, <3>1 DEF BucketOK
    <3>2. CASE ~(k = l /\ d = c)
      <4>1. buckets'[k][d] = buckets[k][d] /\ BucketOK(buckets[k][d], k)
        BY <2>3, <3>2
      <4> QED
        BY <2>1, <4>1 DEF BucketOK
    <3> QED
      BY <3>1, <3>2
  <2> QED
    BY <2>1, <2>4, <2>5
<1>8. ASSUME NEW c \in Client, NEW l \in Limiter, RateRefuse(l, c)
      PROVE  LimitsInv'
  <2>1. UNCHANGED <<now, buckets, attempts, recorded>> /\ answer' \in BOOLEAN
    BY <1>8 DEF RateRefuse
  <2> QED
    BY <2>1, BucketsStay
<1>9. CASE UNCHANGED limitVars
  BY <1>9, BucketsStay DEF limitVars
<1> QED
  BY <1>1, <1>2, <1>3, <1>4, <1>5, <1>6, <1>7, <1>8, <1>9 DEF LimitsNext

LEMMA LimitsInvariant == LimitsSpec => []LimitsInv
BY LimitsInitial, LimitsInductive, PTL DEF LimitsSpec

(* The types of handler/ratelimit.go:11-22 and auth/ratelimit.go:9-14: no  *)
(* bucket ever owes a token.                                               *)
THEOREM LimitsTypes == LimitsSpec => []LimitsTypeOK
<1>1. LimitsInv => LimitsTypeOK
  BY DEF LimitsInv, LimitsTypeOK
<1> QED
  BY <1>1, LimitsInvariant, PTL

-----------------------------------------------------------------------------
(* Refinement.  The abstract windows and failures, written out.            *)

Windows == [l \in Limiter |-> [c \in Client |-> WindowOf(l, c)]]
Failures == [c \in Client |-> Recent(c)]

(* An abstract window is closed exactly when the bucket is to be filled.   *)
LEMMA WindowCases ==
    ASSUME LimitsInv, NEW l \in Limiter, NEW c \in Client
    PROVE  /\ Fresh(l, c) => WindowOf(l, c) = Promise!Closed
           /\ ~Fresh(l, c) =>
                /\ WindowOf(l, c).opened = buckets[l][c].lastReset
                /\ WindowOf(l, c).used = Rate[l] - buckets[l][c].tokens
                /\ WindowOf(l, c) = [opened |-> buckets[l][c].lastReset,
                                     used |-> Rate[l] - buckets[l][c].tokens]
BY DEF WindowOf, Promise!Closed

LEMMA InitRefines == LimitsInit => Promise!Init
<1> SUFFICES ASSUME LimitsInit PROVE Promise!Init
  OBVIOUS
<1>1. LimitsInv
  BY LimitsInitial
<1>2. ASSUME NEW l \in Limiter, NEW c \in Client
      PROVE  WindowOf(l, c) = Promise!Closed
  <2>1. Fresh(l, c)
    BY DEF LimitsInit, Fresh
  <2> QED
    BY <1>1, <2>1, WindowCases
<1>3. ASSUME NEW c \in Client PROVE Recent(c) = {}
  BY DEF LimitsInit, Recent
<1> QED
  BY <1>2, <1>3 DEF LimitsInit, Promise!Init

(* Time passing closes the windows whose buckets become old.               *)
LEMMA TickRefines == LimitsInv /\ LimitsInv' /\ Tick => Promise!Tick
<1> SUFFICES ASSUME LimitsInv, LimitsInv', Tick PROVE Promise!Tick
  OBVIOUS
<1>1. now \in Nat /\ now' = now + 1 /\ UNCHANGED <<buckets, attempts, recorded, answer>>
  BY DEF Tick, LimitsInv
<1>2. ASSUME NEW l \in Limiter, NEW c \in Client
      PROVE  WindowOf(l, c)' = IF now' - WindowOf(l, c).opened >= Window[l]
                               THEN Promise!Closed ELSE WindowOf(l, c)
  <2>1. CASE Fresh(l, c)
    <3>1. WindowOf(l, c) = Promise!Closed
      BY <2>1, WindowCases
    <3>2. Fresh(l, c)'
      <4>1. CASE buckets[l][c] = NoBucket
        BY <1>1, <4>1 DEF Fresh, NoBucket
      <4>2. CASE buckets[l][c] # NoBucket
        <5>1. now - buckets[l][c].lastReset >= Window[l]
          BY <2>1, <4>2 DEF Fresh, Age
        <5>2. buckets[l][c].lastReset \in Nat /\ Window[l] \in Nat
          BY <4>2, LimitsAssumption DEF LimitsInv, BucketOK
        <5>3. now' - buckets'[l][c].lastReset >= Window[l]
          BY <1>1, <5>1, <5>2
        <5> QED
          BY <5>3 DEF Fresh, Age
      <4> QED
        BY <4>1, <4>2
    <3>3. WindowOf(l, c)' = Promise!Closed
      BY <3>2 DEF WindowOf, Promise!Closed
    <3> QED
      BY <3>1, <3>3
  <2>2. CASE ~Fresh(l, c)
    <3>1. WindowOf(l, c).opened = buckets[l][c].lastReset
      BY <2>2, WindowCases
    <3>2. buckets[l][c] # NoBucket
      BY <2>2 DEF Fresh
    <3>3. Fresh(l, c)' = (now' - buckets[l][c].lastReset >= Window[l])
      BY <1>1, <3>2 DEF Fresh, Age, NoBucket
    <3>4. CASE now' - buckets[l][c].lastReset >= Window[l]
      BY <3>1, <3>3, <3>4 DEF WindowOf, Promise!Closed
    <3>5. CASE ~(now' - buckets[l][c].lastReset >= Window[l])
      BY <1>1, <2>2, <3>1, <3>3, <3>5 DEF WindowOf
    <3> QED
      BY <3>4, <3>5
  <2> QED
    BY <2>1, <2>2
<1>3. ASSUME NEW c \in Client
      PROVE  Recent(c)' = {f \in Recent(c) : f.at > now' - LoginWindow}
  <2>1. \A f \in attempts[c] : f.at \in Nat
    BY DEF LimitsInv, Failure
  <2>2. LoginWindow \in Nat
    BY LimitsAssumption
  <2>3. \A f \in attempts[c] :
          f.at > now' - LoginWindow => f.at > now - LoginWindow
    BY <1>1, <2>1, <2>2
  <2> QED
    BY <1>1, <2>3 DEF Recent
<1>4. Windows' = [l \in Limiter |-> [c \in Client |->
                    IF now' - Windows[l][c].opened >= Window[l]
                    THEN Promise!Closed ELSE Windows[l][c]]]
  BY <1>2 DEF Windows
<1>5. Failures' = [c \in Client |->
                     {f \in Failures[c] : f.at > now' - LoginWindow}]
  BY <1>3 DEF Failures
<1> QED
  BY <1>1, <1>4, <1>5 DEF Promise!Tick, Windows, Failures
(* A step that changes neither time nor the buckets or failures keeps what *)
(* is abstracted from them.                                                *)
LEMMA WindowsStay ==
    ASSUME UNCHANGED <<now, buckets>> PROVE UNCHANGED Windows
BY DEF Windows, WindowOf, Fresh, Age

LEMMA FailuresStay ==
    ASSUME UNCHANGED <<now, attempts>> PROVE UNCHANGED Failures
BY DEF Failures, Recent

(* The goroutine deletes buckets that are closed already.                  *)
LEMMA CleanupRefines ==
    ASSUME LimitsInv, NEW l \in Limiter, Cleanup(l)
    PROVE  UNCHANGED <<now, Windows, Failures, recorded, answer>>
<1>1. UNCHANGED <<now, attempts, recorded, answer>>
  BY DEF Cleanup
<1>2. ASSUME NEW k \in Limiter, NEW c \in Client
      PROVE  WindowOf(k, c)' = WindowOf(k, c)
  <2>1. CASE k = l /\ Stale(l, c) /\ buckets[l][c] # NoBucket
    <3>1. buckets'[k][c] = NoBucket
      BY <2>1 DEF Cleanup, LimitsInv
    <3>2. Fresh(k, c)
      <4>1. Age(l, c) > 2 * Window[l] /\ Window[l] \in Nat
        BY <2>1, LimitsAssumption DEF Stale
      <4>2. Age(l, c) \in Int
        BY <2>1 DEF Age, LimitsInv, BucketOK
      <4>3. Age(l, c) >= Window[l]
        BY <4>1, <4>2
      <4> QED
        BY <2>1, <4>3 DEF Fresh
    <3> QED
      BY <3>1, <3>2 DEF WindowOf, Fresh
  <2>2. CASE ~(k = l /\ Stale(l, c) /\ buckets[l][c] # NoBucket)
    <3>1. buckets'[k][c] = buckets[k][c]
      BY <2>2 DEF Cleanup, LimitsInv
    <3> QED
      BY <1>1, <3>1 DEF WindowOf, Fresh, Age
  <2> QED
    BY <2>1, <2>2
<1>3. UNCHANGED Windows
  BY <1>2 DEF Windows
<1> QED
  BY <1>1, <1>3, FailuresStay

LEMMA AdmitRefines ==
    ASSUME LimitsInv, NEW l \in Limiter, NEW c \in Client, RateAllow(l, c)
    PROVE  Promise!Admit(l, c)
<1>1. UNCHANGED <<now, attempts, recorded>> /\ answer' = TRUE
  BY DEF RateAllow
<1>2. buckets' = [buckets EXCEPT ![l][c] = BucketAfter(l, c)]
  BY DEF RateAllow
<1>3. buckets'[l][c] = BucketAfter(l, c)
  BY <1>2 DEF LimitsInv
<1>4. ASSUME NEW k \in Limiter, NEW d \in Client, ~(k = l /\ d = c)
      PROVE  WindowOf(k, d)' = WindowOf(k, d)
  <2>1. buckets'[k][d] = buckets[k][d]
    BY <1>2, <1>4 DEF LimitsInv
  <2> QED
    BY <1>1, <2>1 DEF WindowOf, Fresh, Age
<1>5. /\ Window[l] \in Nat \ {0} /\ Rate[l] \in Nat \ {0} /\ now \in Nat
      /\ ~Fresh(l, c) => /\ buckets[l][c].tokens \in Nat
                         /\ buckets[l][c].lastReset \in Nat
                         /\ buckets[l][c].tokens < Rate[l]
                         /\ now - buckets[l][c].lastReset < Window[l]
                         /\ buckets[l][c] \in [tokens : Nat, lastReset : Nat]
  BY BucketCases
<1>6. CASE Fresh(l, c)
  <2>1. buckets'[l][c] = [tokens |-> Rate[l] - 1, lastReset |-> now]
    BY <1>3, <1>6 DEF BucketAfter
  <2>2. buckets'[l][c].tokens = Rate[l] - 1 /\ buckets'[l][c].lastReset = now
    BY <2>1
  <2>3. buckets'[l][c] # NoBucket
    BY <1>5, <2>2 DEF NoBucket
  <2>4. ~(now' - buckets'[l][c].lastReset >= Window[l])
    BY <1>1, <1>5, <2>2
  <2>5. ~Fresh(l, c)'
    BY <2>3, <2>4 DEF Fresh, Age, NoBucket
  <2>6. Rate[l] - (Rate[l] - 1) = 1
    BY <1>5
  <2>7. WindowOf(l, c)' = [opened |-> now, used |-> 1]
    BY <2>2, <2>5, <2>6 DEF WindowOf
  <2>8. WindowOf(l, c) = Promise!Closed
    BY <1>6, WindowCases
  <2>9. Windows' = [Windows EXCEPT ![l][c] = [opened |-> now, used |-> 1]]
    BY <1>4, <2>7 DEF Windows
  <2> QED
    BY <1>1, <2>8, <2>9, FailuresStay DEF Promise!Admit, Windows, Failures
<1>7. CASE ~Fresh(l, c)
  <2>1. buckets[l][c].tokens > 0
    BY <1>7 DEF RateAllow, Admits
  <2>2. /\ buckets'[l][c].tokens = buckets[l][c].tokens - 1
        /\ buckets'[l][c].lastReset = buckets[l][c].lastReset
    BY <1>3, <1>5, <1>7 DEF BucketAfter
  <2>3. buckets'[l][c] # NoBucket
    BY <1>5, <1>7, <2>1, <2>2 DEF NoBucket
  <2>4. ~Fresh(l, c)'
    BY <1>1, <1>5, <1>7, <2>2, <2>3 DEF Fresh, Age, NoBucket
  <2>5. /\ WindowOf(l, c).used = Rate[l] - buckets[l][c].tokens
        /\ WindowOf(l, c) = [opened |-> buckets[l][c].lastReset,
                             used |-> Rate[l] - buckets[l][c].tokens]
    BY <1>7, WindowCases
  <2>6. WindowOf(l, c).used \in 1 .. Rate[l] - 1
    BY <1>5, <1>7, <2>1, <2>5
  <2>7. WindowOf(l, c)' = [opened |-> buckets[l][c].lastReset,
                           used |-> Rate[l] - (buckets[l][c].tokens - 1)]
    BY <2>2, <2>4 DEF WindowOf
  <2>8. Rate[l] - (buckets[l][c].tokens - 1) = WindowOf(l, c).used + 1
    BY <1>5, <1>7, <2>5
  <2>9. WindowOf(l, c)' = [WindowOf(l, c) EXCEPT !.used = @ + 1]
    BY <2>5, <2>7, <2>8
  <2>10. Windows' = [Windows EXCEPT ![l][c] = WindowOf(l, c)']
    BY <1>4 DEF Windows
  <2>11. Windows[l][c] = WindowOf(l, c)
    BY DEF Windows
  <2>12. Windows' = [Windows EXCEPT ![l][c].used = @ + 1]
    BY <2>9, <2>10, <2>11 DEF Windows
  <2> QED
    BY <1>1, <2>6, <2>11, <2>12, FailuresStay DEF Promise!Admit, Windows, Failures
<1> QED
  BY <1>6, <1>7

LEMMA RefuseRefines ==
    ASSUME LimitsInv, NEW l \in Limiter, NEW c \in Client, RateRefuse(l, c)
    PROVE  Promise!Refuse(l, c)
<1>1. UNCHANGED <<now, buckets, attempts, recorded>> /\ answer' = FALSE
  BY DEF RateRefuse
<1>2. ~Fresh(l, c) /\ ~(buckets[l][c].tokens > 0)
  BY DEF RateRefuse, Admits
<1>3. buckets[l][c].tokens = 0 /\ Rate[l] \in Nat
  BY <1>2, BucketCases
<1>4. WindowOf(l, c).used = Rate[l] - buckets[l][c].tokens
  BY <1>2, WindowCases
<1>5. Windows[l][c].used = Rate[l]
  BY <1>3, <1>4 DEF Windows
<1> QED
  BY <1>1, <1>5, WindowsStay, FailuresStay DEF Promise!Refuse, Windows, Failures

LEMMA LoginRefines ==
    ASSUME LimitsInv, NEW c \in Client
    PROVE  /\ \A ok \in BOOLEAN : LoginAllow(c, ok) => Promise!Try(c)
           /\ RecordFailure(c) => Promise!Fail(c)
           /\ Reset(c) => Promise!Forget(c)
<1>1. ASSUME NEW ok \in BOOLEAN, LoginAllow(c, ok) PROVE Promise!Try(c)
  <2>1. UNCHANGED <<now, buckets, recorded>>
        /\ answer' = (Cardinality(Recent(c)) < MaxFails)
    BY <1>1 DEF LoginAllow
  <2>2. attempts' = [attempts EXCEPT ![c] = Recent(c)]
    BY <1>1 DEF LoginAllow
  <2>3. ASSUME NEW d \in Client PROVE Recent(d)' = Recent(d)
    BY <2>1, <2>2 DEF Recent, LimitsInv
  <2>4. UNCHANGED Failures
    BY <2>3 DEF Failures
  <2>5. Failures[c] = Recent(c)
    BY DEF Failures
  <2>6. Cardinality(Recent(c)) = Promise!Cardinality(Recent(c))
    BY Zenon DEF Cardinality, Promise!Cardinality
  <2>7. UNCHANGED Windows
    BY <2>1, WindowsStay
  <2> QED
    BY <2>1, <2>4, <2>5, <2>6, <2>7 DEF Promise!Try, Windows, Failures
<1>2. ASSUME RecordFailure(c) PROVE Promise!Fail(c)
  <2>1. UNCHANGED <<now, buckets, answer>> /\ recorded' = recorded + 1
    BY <1>2 DEF RecordFailure
  <2> DEFINE new == [at |-> now, n |-> recorded']
  <2>2. attempts' = [attempts EXCEPT ![c] = @ \cup {new}]
    BY <1>2 DEF RecordFailure
  <2>3. now > now - LoginWindow
    BY LimitsAssumption DEF LimitsInv
  <2>4. Recent(c)' = Recent(c) \cup {new}
    BY <2>1, <2>2, <2>3 DEF Recent, LimitsInv
  <2>5. ASSUME NEW d \in Client \ {c} PROVE Recent(d)' = Recent(d)
    BY <2>1, <2>2 DEF Recent, LimitsInv
  <2>6. Failures' = [Failures EXCEPT ![c] = @ \cup {new}]
    BY <2>4, <2>5 DEF Failures
  <2> QED
    BY <2>1, <2>6, WindowsStay DEF Promise!Fail, Windows, Failures
<1>3. ASSUME Reset(c) PROVE Promise!Forget(c)
  <2>1. UNCHANGED <<now, buckets, recorded, answer>>
        /\ attempts' = [attempts EXCEPT ![c] = {}]
    BY <1>3 DEF Reset
  <2>2. ASSUME NEW d \in Client
        PROVE  Recent(d)' = IF d = c THEN {} ELSE Recent(d)
    BY <2>1 DEF Recent, LimitsInv
  <2>3. Failures' = [Failures EXCEPT ![c] = {}]
    BY <2>2 DEF Failures
  <2> QED
    BY <2>1, <2>3, WindowsStay DEF Promise!Forget, Windows, Failures
<1> QED
  BY <1>1, <1>2, <1>3

LEMMA RestartRefines == LimitsInv /\ LimitsRestart => Promise!Restart
<1> SUFFICES ASSUME LimitsInv, LimitsRestart PROVE Promise!Restart
  OBVIOUS
<1>1. UNCHANGED <<now, recorded, answer>>
  BY DEF LimitsRestart
<1>2. ASSUME NEW l \in Limiter, NEW c \in Client
      PROVE  WindowOf(l, c)' = Promise!Closed
  BY DEF LimitsRestart, WindowOf, Fresh, Promise!Closed
<1>3. ASSUME NEW c \in Client PROVE Recent(c)' = {}
  BY DEF LimitsRestart, Recent
<1> QED
  BY <1>1, <1>2, <1>3 DEF Promise!Restart

LEMMA StepRefines ==
    LimitsInv /\ LimitsInv' /\ [LimitsNext]_limitVars => [Promise!Next]_(Promise!vars)
<1> SUFFICES ASSUME LimitsInv, LimitsInv', [LimitsNext]_limitVars
             PROVE  Promise!Next \/ UNCHANGED Promise!vars
  OBVIOUS
<1>1. CASE Tick
  BY <1>1, TickRefines DEF Promise!Next
<1>2. CASE LimitsRestart
  BY <1>2, RestartRefines DEF Promise!Next
<1>3. ASSUME NEW l \in Limiter, Cleanup(l) PROVE UNCHANGED Promise!vars
  BY <1>3, CleanupRefines DEF Promise!vars, Windows, Failures
<1>4. ASSUME NEW c \in Client, NEW ok \in BOOLEAN, LoginAllow(c, ok)
      PROVE  Promise!Next
  BY <1>4, LoginRefines DEF Promise!Next
<1>5. ASSUME NEW c \in Client, RecordFailure(c) \/ Reset(c) PROVE Promise!Next
  BY <1>5, LoginRefines DEF Promise!Next
<1>6. ASSUME NEW c \in Client, NEW l \in Limiter, RateAllow(l, c) \/ RateRefuse(l, c)
      PROVE  Promise!Next
  BY <1>6, AdmitRefines, RefuseRefines DEF Promise!Next
<1>7. CASE UNCHANGED limitVars
  BY <1>7, WindowsStay, FailuresStay DEF limitVars, Promise!vars, Windows, Failures
<1> QED
  BY <1>1, <1>2, <1>3, <1>4, <1>5, <1>6, <1>7 DEF LimitsNext

(* ratelimit.go:61-73 and auth/ratelimit.go:27-58 keep the quota: filling  *)
(* a bucket late, pruning late and the clean-up goroutine cannot be told   *)
(* from windows that close on time.                                        *)
THEOREM LimitersKeepQuota == LimitsSpec => QuotaKept
<1>1. LimitsInit => Promise!Init
  BY InitRefines
<1>2. LimitsInv /\ LimitsInv' /\ [LimitsNext]_limitVars => [Promise!Next]_(Promise!vars)
  BY StepRefines
<1> QED
  BY <1>1, <1>2, LimitsInvariant, PTL DEF LimitsSpec, QuotaKept, Promise!Spec

-----------------------------------------------------------------------------
(* Requests by their phase.                                                *)

RequestsOK == req \in [Req -> Request]

LEMMA RequestCases ==
    ASSUME NEW r \in Request
    PROVE  /\ r.phase \in {"api", "upload", "report", "handler"} =>
                /\ r \in [phase : {"api", "upload", "report", "handler"},
                          kind : Kind, who : Owner, client : Client]
                /\ r.kind \in Kind /\ r.who \in Owner /\ r.client \in Client
           /\ r.phase = "toggle" => r.user \in User /\ r.active \in BOOLEAN
           /\ r.phase \in {"enable", "cookie"} => r.user \in User
           /\ r.phase = "update" =>
                r.account \in AccountId /\ r.cols \in [Column -> 0 .. 1]
           /\ r.phase = "check" => r.ceremony \in Ceremony
           /\ r.phase = "forget" => r.user \in User /\ r.challenge \in Challenge
           /\ r.phase = "refused" => r.challenge \in Challenge /\ r.cred \in Credential
           /\ r.phase \in {"lookup", "legacy", "failed"} => r.client \in Client
           /\ r.phase = "granted" => r.client \in Client /\ r.user \in Owner
BY DEF Request, Idle

LEMMA IdleTyped == Idle \in Request /\ Idle.phase = "idle"
BY DEF Request, Idle

(* The request p is in one of the phases, and the others are where they    *)
(* were.                                                                   *)
Moves(p, phases) ==
    /\ req'[p].phase \in phases
    /\ \A q \in Req \ {p} : req'[q] = req[q]

(* A request goes on to a next stage, the others stay where they are.      *)
LEMMA Goes ==
    ASSUME RequestsOK, NEW p \in Req, NEW r, req' = [req EXCEPT ![p] = r]
    PROVE  /\ r \in Request => RequestsOK'
           /\ req'[p] = r
           /\ \A q \in Req \ {p} : req'[q] = req[q]
           /\ Moves(p, {r.phase})
BY DEF RequestsOK, Moves

LEMMA Answered ==
    ASSUME RequestsOK, NEW p \in Req, Done(p)
    PROVE  /\ RequestsOK'
           /\ req'[p] = Idle /\ req'[p].phase = "idle"
           /\ \A q \in Req \ {p} : req'[q] = req[q]
BY Goes, IdleTyped DEF Done

-----------------------------------------------------------------------------
(* Users.                                                                  *)

LEMMA RowCases ==
    ASSUME UsersTypeOK, NEW u \in User
    PROVE  /\ users[u].live \in BOOLEAN
           /\ users[u].live => users[u] \in UserRow
           /\ ~users[u].live => users[u] = NoUser
           /\ u \in Live <=> users[u].live
<1>1. users[u] \in UserRow \cup {NoUser}
  BY DEF UsersTypeOK
<1>2. NoUser.live = FALSE
  BY DEF NoUser
<1>3. ASSUME users[u] \in UserRow PROVE users[u].live = TRUE
  BY <1>3 DEF UserRow
<1>4. users[u].live = TRUE \/ users[u].live = FALSE
  BY <1>1, <1>2, <1>3
<1>5. u \in Live <=> users[u].live
  BY DEF Live
<1> QED
  BY <1>1, <1>2, <1>3, <1>4, <1>5

LEMMA RowFields ==
    ASSUME NEW r \in UserRow
    PROVE  /\ r.live = TRUE /\ r.totp \in BOOLEAN /\ r.active \in BOOLEAN
           /\ r.secret \in Secret \cup {NoSecret}
BY DEF UserRow

LEMMA RowActive ==
    ASSUME NEW r \in UserRow, NEW b \in BOOLEAN, NEW x, x = [r EXCEPT !.active = b]
    PROVE  x \in UserRow /\ x.totp = r.totp /\ x.secret = r.secret
BY DEF UserRow

LEMMA RowSecret ==
    ASSUME NEW r \in UserRow, NEW s \in Secret \cup {NoSecret},
           NEW x, x = [r EXCEPT !.secret = s]
    PROVE  x \in UserRow /\ x.totp = r.totp /\ x.secret = s
BY DEF UserRow

LEMMA RowEnabled ==
    ASSUME NEW r \in UserRow, NEW x, x = [r EXCEPT !.totp = TRUE]
    PROVE  x \in UserRow /\ x.secret = r.secret
BY DEF UserRow

LEMMA RowDisabled ==
    ASSUME NEW r \in UserRow,
           NEW x, x = [r EXCEPT !.totp = FALSE, !.secret = NoSecret]
    PROVE  x \in UserRow /\ x.totp = FALSE
BY DEF UserRow

(* An UPDATE leaves the other rows alone, and the row of a user who is     *)
(* gone.                                                                   *)
LEMMA Updates ==
    ASSUME UsersTypeOK, NEW u \in User, NEW row, UpdateUser(u, row),
           users[u].live => row \in UserRow
    PROVE  /\ users' \in [User -> UserRow \cup {NoUser}]
           /\ users[u].live => users'[u] = row
           /\ ~users[u].live => users'[u] = users[u]
           /\ \A v \in User \ {u} : users'[v] = users[v]
           /\ Live' = Live
<1>1. users \in [User -> UserRow \cup {NoUser}]
  BY DEF UsersTypeOK
<1>2. CASE users[u].live
  <2>1. users' = [users EXCEPT ![u] = row] /\ row \in UserRow
    BY <1>2 DEF UpdateUser
  <2>2. row.live = TRUE
    BY <2>1 DEF UserRow
  <2>3. \A v \in User \ {u} : users'[v] = users[v]
    BY <1>1, <2>1
  <2>4. users'[u] = row
    BY <1>1, <2>1
  <2>5. Live' = Live
    BY <1>2, <2>2, <2>3, <2>4 DEF Live
  <2> QED
    BY <1>1, <1>2, <2>1, <2>3, <2>4, <2>5
<1>3. CASE ~users[u].live
  <2>1. users' = users
    BY <1>3 DEF UpdateUser
  <2> QED
    BY <1>1, <1>3, <2>1 DEF Live
<1> QED
  BY <1>2, <1>3

(* Users are numbered in the order of their creation, and what a request   *)
(* is about to enable was verified, unless it was disturbed.               *)
SecretsInv ==
    /\ \A u \in Live : u <= created
    /\ \A q \in Req : req[q].phase = "enable" => req[q].user <= created
    /\ \A u \in Live : users[u].totp /\ u \notin disturbed
                         => users[u].secret \in confirmed
    /\ \A q \in Req :
          req[q].phase = "enable" /\ req[q].user \in Live \ disturbed
            => users[req[q].user].secret \in confirmed

UsersInv == UsersTypeOK /\ RequestsOK /\ SecretsInv

(* A step of a request that neither touches users nor is about to enable   *)
(* a second factor.                                                        *)
LEMMA SecretsStay ==
    ASSUME SecretsInv, UNCHANGED <<users, created, confirmed, disturbed>>,
           \A q \in Req : req'[q].phase = "enable" => req'[q] = req[q]
    PROVE  SecretsInv'
<1>1. Live' = Live
  BY DEF Live
<1> QED
  BY <1>1 DEF SecretsInv

LEMMA MovesSecrets ==
    ASSUME UsersInv, NEW p \in Req,
           NEW phases, Moves(p, phases), "enable" \notin phases,
           UNCHANGED <<users, created, confirmed, disturbed>>
    PROVE  SecretsInv'
<1>1. \A q \in Req : req'[q].phase = "enable" => req'[q] = req[q]
  BY DEF Moves
<1> QED
  BY <1>1, SecretsStay DEF UsersInv

LEMMA RefuseKeeps ==
    ASSUME UsersInv, NEW p \in Req, NEW kind, Refuse(p, kind)
    PROVE  UsersInv' /\ Moves(p, {"idle"})
<1>1. RequestsOK' /\ Moves(p, {"idle"})
  BY Answered DEF Refuse, UsersInv, Moves
<1>2. UNCHANGED userVars
  BY DEF Refuse
<1>3. SecretsInv'
  BY <1>1, <1>2, MovesSecrets DEF userVars, Moves
<1>4. UsersTypeOK'
  BY <1>2 DEF userVars, UsersTypeOK, UsersInv
<1> QED
  BY <1>1, <1>3, <1>4 DEF UsersInv

LEMMA CreateUserKeeps ==
    ASSUME UsersInv,
           NEW name \in Name, NEW role \in {"admin", "member"},
           NEW password \in {"own", "master"},
           CreateUser(name, role, password),
           UNCHANGED <<confirmed, disturbed>>,
           \A q \in Req : req'[q].phase = "enable" => req'[q] = req[q]
    PROVE  /\ SecretsInv'
           /\ users' \in [User -> UserRow \cup {NoUser}]
           /\ created' \in User /\ created' \in 0 .. MaxUsers
<1>1. /\ users \in [User -> UserRow \cup {NoUser}] /\ created \in 0 .. MaxUsers
      /\ MaxUsers \in Nat
  BY UsersAssumption DEF UsersInv, UsersTypeOK
<1>2. created < MaxUsers /\ created' = created + 1
  BY DEF CreateUser
<1>3. created' \in User /\ created' \in 0 .. MaxUsers /\ created < created'
  BY <1>1, <1>2 DEF User
<1>4. PICK row : row = [live |-> TRUE, name |-> name, role |-> role, active |-> TRUE,
                        password |-> password, secret |-> NoSecret, totp |-> FALSE]
  OBVIOUS
<1>5. users' = [users EXCEPT ![created'] = row]
  BY <1>4 DEF CreateUser
<1>6. row \in UserRow /\ row.live = TRUE /\ row.totp = FALSE
  BY <1>4 DEF UserRow
<1>7. users'[created'] = row /\ \A v \in User \ {created'} : users'[v] = users[v]
  BY <1>1, <1>3, <1>5
<1>8. Live' = Live \cup {created'}
  BY <1>3, <1>6, <1>7 DEF Live
<1>9. \A u \in User : u \in Int
  BY <1>1 DEF User
<1>10. \A u \in Live : u # created' /\ u \in User /\ u <= created'
  BY <1>1, <1>2, <1>9 DEF UsersInv, SecretsInv, Live
<1>11. \A q \in Req : req'[q].phase = "enable" =>
          req'[q] = req[q] /\ req[q].user <= created
  BY DEF UsersInv, SecretsInv
<1> QED
  <2>1. \A u \in Live' : u <= created'
    BY <1>3, <1>8, <1>9, <1>10
  <2>2. ASSUME NEW q \in Req, req'[q].phase = "enable"
        PROVE  /\ req'[q].user <= created'
               /\ req'[q].user \in Live' \ disturbed' =>
                    users'[req'[q].user].secret \in confirmed'
    <3>1. req'[q] = req[q] /\ req[q].user <= created /\ req[q].phase = "enable"
      BY <1>11, <2>2
    <3>2. req[q].user \in User
      BY <3>1, RequestCases DEF UsersInv, RequestsOK
    <3>3. req[q].user # created' /\ req[q].user <= created'
      BY <1>1, <1>2, <1>9, <3>1, <3>2
    <3> QED
      BY <1>7, <1>8, <3>1, <3>2, <3>3 DEF UsersInv, SecretsInv
  <2>3. \A u \in Live' : users'[u].totp /\ u \notin disturbed'
                           => users'[u].secret \in confirmed'
    BY <1>6, <1>7, <1>8, <1>10 DEF UsersInv, SecretsInv
  <2>4. SecretsInv'
    BY <2>1, <2>2, <2>3 DEF SecretsInv
  <2> QED
    BY <1>1, <1>3, <1>5, <1>6, <2>4

(* Administration *)

LEMMA HandleCreateUserKeeps ==
    ASSUME UsersInv, NEW p \in Req, HandleCreateUser(p)
    PROVE  UsersInv' /\ Moves(p, {"idle"})
<1>1. RequestsOK' /\ Moves(p, {"idle"})
  BY Answered DEF HandleCreateUser, UsersInv, Moves
<1>2. PICK name \in Name, role \in {"admin", "member"} : CreateUser(name, role, "own")
  BY DEF HandleCreateUser
<1>3. /\ SecretsInv'
      /\ users' \in [User -> UserRow \cup {NoUser}]
      /\ created' \in 0 .. MaxUsers
  BY <1>1, <1>2, CreateUserKeeps DEF HandleCreateUser, Moves
<1>4. UsersTypeOK'
  BY <1>3 DEF HandleCreateUser, UsersInv, UsersTypeOK, tables
<1> QED
  BY <1>1, <1>3, <1>4 DEF UsersInv

LEMMA DeletesUser ==
    ASSUME UsersTypeOK, NEW u \in Live, DeleteUserRow(u)
    PROVE  /\ users' \in [User -> UserRow \cup {NoUser}]
           /\ Live' = Live \ {u}
           /\ \A v \in User \ {u} : users'[v] = users[v]
<1>1. /\ users \in [User -> UserRow \cup {NoUser}] /\ u \in User
      /\ users' = [users EXCEPT ![u] = NoUser]
  BY DEF UsersTypeOK, DeleteUserRow, Live
<1>2. NoUser.live = FALSE
  BY DEF NoUser
<1>3. users'[u] = NoUser /\ \A v \in User \ {u} : users'[v] = users[v]
  BY <1>1
<1>4. Live' = Live \ {u}
  BY <1>1, <1>2, <1>3 DEF Live
<1> QED
  BY <1>1, <1>3, <1>4

LEMMA HandleDeleteUserKeeps ==
    ASSUME UsersInv, NEW p \in Req, HandleDeleteUser(p)
    PROVE  UsersInv' /\ Moves(p, {"idle"})
<1>1. RequestsOK' /\ Moves(p, {"idle"})
  BY Answered DEF HandleDeleteUser, UsersInv, Moves
<1>2. PICK u \in Live : DeleteUserRow(u)
  BY DEF HandleDeleteUser
<1>3. /\ users' \in [User -> UserRow \cup {NoUser}]
      /\ Live' = Live \ {u}
      /\ \A v \in User \ {u} : users'[v] = users[v]
  BY <1>2, DeletesUser DEF UsersInv
<1>4. UsersTypeOK'
  BY <1>3 DEF HandleDeleteUser, UsersInv, UsersTypeOK, tables
<1>5. UNCHANGED <<created, confirmed, disturbed>>
  BY DEF HandleDeleteUser
<1>6. \A q \in Req : req'[q].phase = "enable" => req'[q] = req[q]
  BY <1>1 DEF Moves
<1>7. Live \subseteq User
  BY DEF Live
<1>8. SecretsInv'
  BY <1>3, <1>5, <1>6, <1>7 DEF SecretsInv, UsersInv
<1> QED
  BY <1>1, <1>4, <1>8 DEF UsersInv

LEMMA ToggleReadKeeps ==
    ASSUME UsersInv, NEW p \in Req, ToggleRead(p)
    PROVE  UsersInv' /\ Moves(p, {"toggle"})
<1>1. PICK u \in Live : req' = [req EXCEPT ![p] =
                          [phase |-> "toggle", user |-> u, active |-> users[u].active]]
  BY DEF ToggleRead
<1>2. u \in User /\ users[u].active \in BOOLEAN
  BY RowCases, RowFields DEF UsersInv, Live
<1>3. PICK r : r = [phase |-> "toggle", user |-> u, active |-> users[u].active]
  OBVIOUS
<1>4. RequestsOK' /\ Moves(p, {"toggle"})
  <2>1. r \in Request /\ r.phase = "toggle"
    BY <1>2, <1>3 DEF Request
  <2>2. RequestsOK /\ req' = [req EXCEPT ![p] = r]
    BY <1>1, <1>3 DEF UsersInv
  <2> QED
    BY <2>1, <2>2, Goes
<1>5. UNCHANGED userVars
  BY DEF ToggleRead
<1>6. SecretsInv'
  BY <1>4, <1>5, MovesSecrets DEF userVars
<1>7. UsersTypeOK'
  BY <1>5 DEF userVars, UsersTypeOK, UsersInv
<1> QED
  BY <1>4, <1>6, <1>7 DEF UsersInv

(* An update of a user's row that neither asks for a code nor changes the  *)
(* secret.                                                                 *)
LEMMA ToggleWriteKeeps ==
    ASSUME UsersInv, NEW p \in Req, ToggleWrite(p)
    PROVE  UsersInv' /\ Moves(p, {"idle"})
<1>1. RequestsOK' /\ Moves(p, {"idle"})
  BY Answered DEF ToggleWrite, UsersInv, Moves
<1>2. PICK u \in User, b \in BOOLEAN : u = req[p].user /\ b = ~req[p].active
  BY RequestCases DEF ToggleWrite, UsersInv, RequestsOK
<1>3. PICK row : row = [users[u] EXCEPT !.active = b]
  OBVIOUS
<1>4. UpdateUser(u, row)
  BY <1>2, <1>3, Zenon DEF ToggleWrite, UpdateUserActive
<1>5. users[u].live => /\ row \in UserRow /\ row.totp = users[u].totp
                       /\ row.secret = users[u].secret
  <2>1. SUFFICES ASSUME users[u].live
                 PROVE  /\ row \in UserRow /\ row.totp = users[u].totp
                        /\ row.secret = users[u].secret
    OBVIOUS
  <2>2. PICK r \in UserRow : r = users[u]
    BY <2>1, RowCases DEF UsersInv
  <2> QED
    BY <1>3, <2>2, RowActive
<1>6. /\ users' \in [User -> UserRow \cup {NoUser}]
      /\ users[u].live => users'[u] = row
      /\ \A v \in User \ {u} : users'[v] = users[v]
      /\ Live' = Live
  BY <1>4, <1>5, Updates DEF UsersInv
<1>7. UsersTypeOK'
  BY <1>6 DEF ToggleWrite, UsersInv, UsersTypeOK, tables
<1>8. \A v \in Live : /\ v \in User /\ users'[v].totp = users[v].totp
                      /\ users'[v].secret = users[v].secret
  BY <1>5, <1>6 DEF Live
<1>9. \A q \in Req : req'[q].phase = "enable" => req'[q] = req[q]
  BY <1>1 DEF Moves
<1>10. UNCHANGED <<created, confirmed, disturbed>>
  BY DEF ToggleWrite
<1>11. SecretsInv'
  BY <1>6, <1>8, <1>9, <1>10 DEF SecretsInv, UsersInv
<1> QED
  BY <1>1, <1>7, <1>11 DEF UsersInv

-----------------------------------------------------------------------------
(* The second factor *)

LEMMA HandleSetupTOTPKeeps ==
    ASSUME UsersInv, NEW p \in Req, HandleSetupTOTP(p)
    PROVE  UsersInv' /\ Moves(p, {"idle"})
<1>1. RequestsOK' /\ Moves(p, {"idle"})
  BY Answered DEF HandleSetupTOTP, UsersInv, Moves
<1>2. PICK u \in Live :
         /\ secrets' = secrets + 1
         /\ SetUserTOTPSecret(u, secrets')
         /\ disturbed' = IF users[u].totp \/ Verifying(u)
                         THEN disturbed \cup {u} ELSE disturbed
  BY DEF HandleSetupTOTP
<1>3. u \in User /\ users[u].live /\ users[u] \in UserRow
  BY RowCases DEF Live, UsersInv
<1>4. secrets \in 0 .. MaxSecrets /\ secrets < MaxSecrets /\ MaxSecrets \in Nat
  BY UsersAssumption DEF UsersInv, UsersTypeOK, HandleSetupTOTP
<1>5. secrets' \in Secret /\ secrets' \in 0 .. MaxSecrets
  BY <1>2, <1>4 DEF Secret
<1>6. PICK row : row = [users[u] EXCEPT !.secret = secrets']
  OBVIOUS
<1>7. UpdateUser(u, row)
  BY <1>2, <1>6, Zenon DEF SetUserTOTPSecret
<1>8. row \in UserRow /\ row.totp = users[u].totp /\ row.secret = secrets'
  <2>1. PICK r \in UserRow, s \in Secret \cup {NoSecret} :
           r = users[u] /\ s = secrets'
    BY <1>3, <1>5
  <2> QED
    BY <1>6, <2>1, RowSecret
<1>9. /\ users' \in [User -> UserRow \cup {NoUser}]
      /\ users'[u] = row
      /\ \A v \in User \ {u} : users'[v] = users[v]
      /\ Live' = Live
  BY <1>3, <1>7, <1>8, Updates DEF UsersInv
<1>10. disturbed' \subseteq User /\ disturbed \subseteq disturbed'
  BY <1>2, <1>3 DEF UsersInv, UsersTypeOK
<1>11. UsersTypeOK'
  BY <1>5, <1>9, <1>10 DEF HandleSetupTOTP, UsersInv, UsersTypeOK, tables
<1>12. UNCHANGED <<created, confirmed>>
  BY DEF HandleSetupTOTP
<1>13. \A q \in Req : req'[q].phase = "enable" => req'[q] = req[q]
  BY <1>1 DEF Moves
<1>14. CASE users[u].totp \/ Verifying(u)
  <2>1. u \in disturbed'
    BY <1>2, <1>14
  <2> QED
    BY <1>1, <1>9, <1>10, <1>11, <1>12, <1>13, <2>1
    DEF SecretsInv, UsersInv, Live
<1>15. CASE ~(users[u].totp \/ Verifying(u))
  <2>1. ~users'[u].totp
    BY <1>8, <1>9, <1>15
  <2>2. \A q \in Req : req[q].phase = "enable" => req[q].user # u
    BY <1>15 DEF Verifying
  <2> QED
    BY <1>1, <1>9, <1>10, <1>11, <1>12, <1>13, <2>1, <2>2
    DEF SecretsInv, UsersInv, Live
<1> QED
  BY <1>14, <1>15

LEMMA VerifyTOTPReadKeeps ==
    ASSUME UsersInv, NEW p \in Req, VerifyTOTPRead(p)
    PROVE  UsersInv' /\ Moves(p, {"enable"})
<1>1. PICK u \in Live :
         /\ users[u].secret # NoSecret
         /\ confirmed' = confirmed \cup {users[u].secret}
         /\ req' = [req EXCEPT ![p] = [phase |-> "enable", user |-> u]]
  BY DEF VerifyTOTPRead
<1>2. u \in User /\ users[u].secret \in Secret
  BY <1>1, RowCases, RowFields DEF UsersInv, Live
<1>3. PICK r : r = [phase |-> "enable", user |-> u]
  OBVIOUS
<1>4. RequestsOK' /\ Moves(p, {"enable"}) /\ req'[p].user = u
  <2>1. r \in Request /\ r.phase = "enable" /\ r.user = u
    BY <1>2, <1>3 DEF Request
  <2>2. RequestsOK /\ req' = [req EXCEPT ![p] = r]
    BY <1>1, <1>3 DEF UsersInv
  <2> QED
    BY <2>1, <2>2, Goes
<1>5. UNCHANGED <<users, created, disturbed>> /\ Live' = Live
  BY DEF VerifyTOTPRead, Live
<1>6. UsersTypeOK'
  BY <1>1, <1>2 DEF VerifyTOTPRead, UsersInv, UsersTypeOK, tables
<1>7. SecretsInv'
  BY <1>1, <1>3, <1>4, <1>5 DEF SecretsInv, UsersInv, Moves
<1> QED
  BY <1>4, <1>6, <1>7 DEF UsersInv

LEMMA VerifyTOTPWriteKeeps ==
    ASSUME UsersInv, NEW p \in Req, VerifyTOTPWrite(p)
    PROVE  UsersInv' /\ Moves(p, {"idle"})
<1>1. RequestsOK' /\ Moves(p, {"idle"})
  BY Answered DEF VerifyTOTPWrite, UsersInv, Moves
<1>2. PICK u \in User : u = req[p].user
  BY RequestCases DEF VerifyTOTPWrite, UsersInv, RequestsOK
<1>3. PICK row : row = [users[u] EXCEPT !.totp = TRUE]
  OBVIOUS
<1>4. UpdateUser(u, row)
  BY <1>2, <1>3, Zenon DEF VerifyTOTPWrite, EnableUserTOTP
<1>5. users[u].live => row \in UserRow /\ row.secret = users[u].secret
  <2>1. SUFFICES ASSUME users[u].live
                 PROVE  row \in UserRow /\ row.secret = users[u].secret
    OBVIOUS
  <2>2. PICK r \in UserRow : r = users[u]
    BY <2>1, RowCases DEF UsersInv
  <2> QED
    BY <1>3, <2>2, RowEnabled
<1>6. /\ users' \in [User -> UserRow \cup {NoUser}]
      /\ users[u].live => users'[u] = row
      /\ \A v \in User \ {u} : users'[v] = users[v]
      /\ Live' = Live
  BY <1>4, <1>5, Updates DEF UsersInv
<1>7. UsersTypeOK'
  BY <1>6 DEF VerifyTOTPWrite, UsersInv, UsersTypeOK, tables
<1>8. UNCHANGED <<created, confirmed, disturbed>> /\ req[p].phase = "enable"
  BY DEF VerifyTOTPWrite
<1>9. \A q \in Req : req'[q].phase = "enable" => req'[q] = req[q]
  BY <1>1 DEF Moves
<1>10. \A v \in Live : v \in User /\ users'[v].secret = users[v].secret
  BY <1>5, <1>6 DEF Live
<1>11. \A v \in Live : users'[v].totp /\ v \notin disturbed
                         => users'[v].secret \in confirmed
  <2>1. SUFFICES ASSUME NEW v \in Live, users'[v].totp, v \notin disturbed
                 PROVE  users[v].secret \in confirmed
    BY <1>10
  <2>2. CASE v = u
    BY <1>2, <1>8, <2>1, <2>2 DEF SecretsInv, UsersInv
  <2>3. CASE v # u
    BY <1>6, <1>10, <2>1, <2>3 DEF SecretsInv, UsersInv
  <2> QED
    BY <2>2, <2>3
<1>12. SecretsInv'
  BY <1>6, <1>8, <1>9, <1>10, <1>11 DEF SecretsInv, UsersInv
<1> QED
  BY <1>1, <1>7, <1>12 DEF UsersInv

LEMMA HandleDisableTOTPKeeps ==
    ASSUME UsersInv, NEW p \in Req, HandleDisableTOTP(p)
    PROVE  UsersInv' /\ Moves(p, {"idle"})
<1>1. RequestsOK' /\ Moves(p, {"idle"})
  BY Answered DEF HandleDisableTOTP, UsersInv, Moves
<1>2. PICK u \in Live :
         /\ DisableUserTOTP(u)
         /\ disturbed' = IF Verifying(u) THEN disturbed \cup {u} ELSE disturbed
  BY DEF HandleDisableTOTP
<1>3. PICK r \in UserRow : r = users[u] /\ u \in User /\ users[u].live
  BY RowCases DEF Live, UsersInv
<1>4. PICK row : row = [r EXCEPT !.totp = FALSE, !.secret = NoSecret]
  OBVIOUS
<1>5. UpdateUser(u, row)
  BY <1>2, <1>3, <1>4, Zenon DEF DisableUserTOTP
<1>6. row \in UserRow /\ row.totp = FALSE
  BY <1>4, RowDisabled
<1>7. /\ users' \in [User -> UserRow \cup {NoUser}]
      /\ users'[u] = row
      /\ \A v \in User \ {u} : users'[v] = users[v]
      /\ Live' = Live
  BY <1>3, <1>5, <1>6, Updates DEF UsersInv
<1>8. disturbed' \subseteq User /\ disturbed \subseteq disturbed'
  BY <1>2, <1>3 DEF UsersInv, UsersTypeOK
<1>9. UsersTypeOK'
  BY <1>7, <1>8 DEF HandleDisableTOTP, UsersInv, UsersTypeOK, tables
<1>10. UNCHANGED <<created, confirmed>>
  BY DEF HandleDisableTOTP
<1>11. \A q \in Req : req'[q].phase = "enable" =>
          req'[q] = req[q] /\ (req[q].user = u => u \in disturbed')
  BY <1>1, <1>2 DEF Moves, Verifying
<1>12. SecretsInv'
  BY <1>6, <1>7, <1>8, <1>10, <1>11 DEF SecretsInv, UsersInv, Live
<1> QED
  BY <1>1, <1>9, <1>12 DEF UsersInv

-----------------------------------------------------------------------------
(* Accounts and goals.  They change no user.                               *)

LEMMA AccountCases ==
    ASSUME UsersTypeOK, NEW a \in AccountId, accounts[a].live
    PROVE  accounts[a] \in AccountRow
<1>1. accounts[a] \in AccountRow \cup {NoRow}
  BY DEF UsersTypeOK
<1>2. NoRow.live = FALSE
  BY DEF NoRow
<1> QED
  BY <1>1, <1>2

LEMMA GoalCases ==
    ASSUME UsersTypeOK, NEW g \in GoalId, goals[g].live
    PROVE  goals[g] \in GoalRow
<1>1. goals[g] \in GoalRow \cup {NoRow}
  BY DEF UsersTypeOK
<1>2. NoRow.live = FALSE
  BY DEF NoRow
<1> QED
  BY <1>1, <1>2

(* What the steps of this section have to show.                            *)
LEMMA TablesKeep ==
    ASSUME UsersInv, NEW p \in Req, NEW phases, Moves(p, phases), RequestsOK',
           "enable" \notin phases,
           UNCHANGED <<users, created, secrets, others, boot, crashes, confirmed,
                       disturbed>>,
           accounts' \in [AccountId -> AccountRow \cup {NoRow}],
           goals' \in [GoalId -> GoalRow \cup {NoRow}]
    PROVE  UsersInv'
<1>1. SecretsInv'
  BY MovesSecrets
<1>2. UsersTypeOK'
  BY DEF UsersInv, UsersTypeOK
<1> QED
  BY <1>1, <1>2 DEF UsersInv

LEMMA HandleCreateAccountKeeps ==
    ASSUME UsersInv, NEW p \in Req, HandleCreateAccount(p)
    PROVE  UsersInv' /\ Moves(p, {"idle"})
<1>1. RequestsOK' /\ Moves(p, {"idle"})
  BY Answered DEF HandleCreateAccount, UsersInv, Moves
<1>2. PICK a \in AccountId :
         accounts' = [accounts EXCEPT ![a] = [live |-> TRUE, owner |-> Nobody,
                                              cols |-> [k \in Column |-> 0]]]
  BY DEF HandleCreateAccount
<1>3. [live |-> TRUE, owner |-> Nobody, cols |-> [k \in Column |-> 0]] \in AccountRow
  BY DEF AccountRow, Owner
<1>4. accounts' \in [AccountId -> AccountRow \cup {NoRow}]
  BY <1>2, <1>3 DEF UsersInv, UsersTypeOK
<1>5. goals' \in [GoalId -> GoalRow \cup {NoRow}]
  BY DEF HandleCreateAccount, UsersInv, UsersTypeOK
<1> QED
  BY <1>1, <1>4, <1>5, TablesKeep DEF HandleCreateAccount

LEMMA UpdateAccountReadKeeps ==
    ASSUME UsersInv, NEW p \in Req, UpdateAccountRead(p)
    PROVE  UsersInv' /\ Moves(p, {"update"})
<1>1. PICK a \in AccountId, named \in SUBSET Column :
         /\ accounts[a].live
         /\ req' = [req EXCEPT ![p] =
                      [phase |-> "update", account |-> a,
                       cols  |-> [k \in Column |-> IF k \in named THEN 1
                                                   ELSE accounts[a].cols[k]]]]
  BY DEF UpdateAccountRead
<1>2. PICK cols : cols = [k \in Column |-> IF k \in named THEN 1
                                           ELSE accounts[a].cols[k]]
  OBVIOUS
<1>3. accounts[a].cols \in [Column -> 0 .. 1]
  <2>1. PICK r \in AccountRow : r = accounts[a]
    BY <1>1, AccountCases DEF UsersInv
  <2> QED
    BY <2>1 DEF AccountRow
<1>4. cols \in [Column -> 0 .. 1]
  BY <1>2, <1>3
<1>5. PICK r : r = [phase |-> "update", account |-> a, cols |-> cols]
  OBVIOUS
<1>6. RequestsOK' /\ Moves(p, {"update"})
  <2>1. r \in Request /\ r.phase = "update"
    BY <1>4, <1>5 DEF Request
  <2>2. RequestsOK /\ req' = [req EXCEPT ![p] = r]
    BY <1>1, <1>2, <1>5 DEF UsersInv
  <2> QED
    BY <2>1, <2>2, Goes
<1>7. UNCHANGED userVars
  BY DEF UpdateAccountRead
<1> QED
  BY <1>6, <1>7, TablesKeep DEF userVars, UsersInv, UsersTypeOK

LEMMA UpdateAccountWriteKeeps ==
    ASSUME UsersInv, NEW p \in Req, UpdateAccountWrite(p)
    PROVE  UsersInv' /\ Moves(p, {"idle"})
<1>1. RequestsOK' /\ Moves(p, {"idle"})
  BY Answered DEF UpdateAccountWrite, UsersInv, Moves
<1>2. PICK a \in AccountId, cols \in [Column -> 0 .. 1] :
         a = req[p].account /\ cols = req[p].cols
  BY RequestCases DEF UpdateAccountWrite, UsersInv, RequestsOK
<1>3. accounts \in [AccountId -> AccountRow \cup {NoRow}]
  BY DEF UsersInv, UsersTypeOK
<1>4. accounts' \in [AccountId -> AccountRow \cup {NoRow}]
  <2>1. CASE accounts[a].live
    <3>1. PICK r \in AccountRow : r = accounts[a]
      BY <2>1, AccountCases DEF UsersInv
    <3>2. accounts' = [accounts EXCEPT ![a] = [r EXCEPT !.cols = cols]]
      BY <1>2, <1>3, <2>1, <3>1 DEF UpdateAccountWrite
    <3>3. PICK x : x = [r EXCEPT !.cols = cols]
      OBVIOUS
    <3>4. x \in AccountRow
      BY <3>3 DEF AccountRow
    <3> QED
      BY <1>3, <3>2, <3>3, <3>4
  <2>2. CASE ~accounts[a].live
    BY <1>2, <1>3, <2>2 DEF UpdateAccountWrite
  <2> QED
    BY <2>1, <2>2
<1>5. goals' \in [GoalId -> GoalRow \cup {NoRow}]
  BY DEF UpdateAccountWrite, UsersInv, UsersTypeOK
<1> QED
  BY <1>1, <1>4, <1>5, TablesKeep DEF UpdateAccountWrite

LEMMA DeleteAccountRowKeeps ==
    ASSUME UsersInv, NEW p \in Req, DeleteAccountRow(p)
    PROVE  UsersInv' /\ Moves(p, {"idle"})
<1>1. RequestsOK' /\ Moves(p, {"idle"})
  BY Answered DEF DeleteAccountRow, UsersInv, Moves
<1>2. accounts' \in [AccountId -> AccountRow \cup {NoRow}]
  BY DEF DeleteAccountRow, UsersInv, UsersTypeOK
<1>3. goals' \in [GoalId -> GoalRow \cup {NoRow}]
  BY DEF DeleteAccountRow, UsersInv, UsersTypeOK
<1> QED
  BY <1>1, <1>2, <1>3, TablesKeep DEF DeleteAccountRow

LEMMA HandleCreateGoalKeeps ==
    ASSUME UsersInv, NEW p \in Req, HandleCreateGoal(p)
    PROVE  UsersInv' /\ Moves(p, {"idle"})
<1>1. RequestsOK' /\ Moves(p, {"idle"})
  BY Answered DEF HandleCreateGoal, UsersInv, Moves
<1>2. PICK g \in GoalId, a \in {b \in AccountId : accounts[b].live} \cup {NoAccount} :
         goals' = [goals EXCEPT ![g] = [live |-> TRUE, owner |-> Nobody, funding |-> a]]
  BY DEF HandleCreateGoal
<1>3. [live |-> TRUE, owner |-> Nobody, funding |-> a] \in GoalRow
  BY <1>2 DEF GoalRow, Owner
<1>4. goals' \in [GoalId -> GoalRow \cup {NoRow}]
  BY <1>2, <1>3 DEF UsersInv, UsersTypeOK
<1>5. accounts' \in [AccountId -> AccountRow \cup {NoRow}]
  BY DEF HandleCreateGoal, UsersInv, UsersTypeOK
<1> QED
  BY <1>1, <1>4, <1>5, TablesKeep DEF HandleCreateGoal

LEMMA HandleDeleteGoalKeeps ==
    ASSUME UsersInv, NEW p \in Req, HandleDeleteGoal(p)
    PROVE  UsersInv' /\ Moves(p, {"idle"})
<1>1. RequestsOK' /\ Moves(p, {"idle"})
  BY Answered DEF HandleDeleteGoal, UsersInv, Moves
<1>2. goals' \in [GoalId -> GoalRow \cup {NoRow}]
  BY DEF HandleDeleteGoal, UsersInv, UsersTypeOK
<1>3. accounts' \in [AccountId -> AccountRow \cup {NoRow}]
  BY DEF HandleDeleteGoal, UsersInv, UsersTypeOK
<1> QED
  BY <1>1, <1>2, <1>3, TablesKeep DEF HandleDeleteGoal

LEMMA UserHandlerKeeps ==
    ASSUME UsersInv, NEW p \in Req, UserHandler(p)
    PROVE  UsersInv' /\ Moves(p, {"idle", "toggle", "enable", "update"})
<1>1. CASE \E kind \in UserKinds : Refuse(p, kind)
  BY <1>1, RefuseKeeps DEF Moves
<1>2. CASE HandleCreateUser(p) \/ HandleDeleteUser(p)
  BY <1>2, HandleCreateUserKeeps, HandleDeleteUserKeeps DEF Moves
<1>3. CASE ToggleRead(p) \/ ToggleWrite(p)
  BY <1>3, ToggleReadKeeps, ToggleWriteKeeps DEF Moves
<1>4. CASE HandleSetupTOTP(p) \/ HandleDisableTOTP(p)
  BY <1>4, HandleSetupTOTPKeeps, HandleDisableTOTPKeeps DEF Moves
<1>5. CASE VerifyTOTPRead(p) \/ VerifyTOTPWrite(p)
  BY <1>5, VerifyTOTPReadKeeps, VerifyTOTPWriteKeeps DEF Moves
<1>6. CASE HandleCreateAccount(p) \/ UpdateAccountRead(p) \/ UpdateAccountWrite(p)
  BY <1>6, HandleCreateAccountKeeps, UpdateAccountReadKeeps,
     UpdateAccountWriteKeeps DEF Moves
<1>7. CASE DeleteAccountRow(p)
  BY <1>7, DeleteAccountRowKeeps DEF Moves
<1>8. CASE HandleCreateGoal(p) \/ HandleDeleteGoal(p)
  BY <1>8, HandleCreateGoalKeeps, HandleDeleteGoalKeeps DEF Moves
<1> QED
  BY <1>1, <1>2, <1>3, <1>4, <1>5, <1>6, <1>7, <1>8 DEF UserHandler

-----------------------------------------------------------------------------
(* The start of the process *)

LEMMA BootCases ==
    ASSUME UsersTypeOK, boot.phase = "assign"
    PROVE  /\ boot \in [phase : {"assign"}, table : 1 .. 4, user : User]
           /\ boot.table \in 1 .. 4 /\ boot.user \in User
BY DEF UsersTypeOK

LEMMA BootCountKeeps == UsersInv /\ BootCount => UsersInv'
<1> SUFFICES ASSUME UsersInv, BootCount PROVE UsersInv'
  OBVIOUS
<1>1. boot' \in [phase : {"count", "create", "serve", "down"}]
  BY DEF BootCount
<1>2. UsersTypeOK'
  BY <1>1 DEF BootCount, UsersInv, UsersTypeOK, tables
<1>3. SecretsInv' /\ RequestsOK'
  BY SecretsStay DEF BootCount, UsersInv, RequestsOK
<1> QED
  BY <1>2, <1>3 DEF UsersInv

LEMMA BootCreateKeeps == UsersInv /\ BootCreate => UsersInv'
<1> SUFFICES ASSUME UsersInv, BootCreate PROVE UsersInv'
  OBVIOUS
<1>1. RequestsOK' /\ req' = req
  BY DEF BootCreate, UsersInv, RequestsOK
<1>2. CASE CreateUser("admin", "admin", "master")
           /\ boot' = [phase |-> "assign", table |-> 1, user |-> created']
  <2>1. /\ SecretsInv'
        /\ users' \in [User -> UserRow \cup {NoUser}]
        /\ created' \in User /\ created' \in 0 .. MaxUsers
    BY <1>1, <1>2, CreateUserKeeps, UsersAssumption DEF BootCreate
  <2>2. boot' \in [phase : {"assign"}, table : 1 .. 4, user : User]
    BY <1>2, <2>1
  <2>3. UsersTypeOK'
    BY <2>1, <2>2 DEF BootCreate, UsersInv, UsersTypeOK, tables
  <2> QED
    BY <1>1, <2>1, <2>3 DEF UsersInv
<1>3. CASE boot' = [phase |-> "serve"] /\ UNCHANGED <<users, created>>
  <2>1. boot' \in [phase : {"count", "create", "serve", "down"}]
    BY <1>3
  <2>2. UsersTypeOK'
    BY <1>3, <2>1 DEF BootCreate, UsersInv, UsersTypeOK, tables
  <2>3. SecretsInv'
    BY <1>1, <1>3, SecretsStay DEF BootCreate, UsersInv
  <2> QED
    BY <1>1, <2>2, <2>3 DEF UsersInv
<1> QED
  BY <1>2, <1>3 DEF BootCreate

LEMMA AssignTableKeeps ==
    ASSUME UsersTypeOK, boot.phase = "assign", AssignTable
    PROVE  /\ accounts' \in [AccountId -> AccountRow \cup {NoRow}]
           /\ goals' \in [GoalId -> GoalRow \cup {NoRow}]
           /\ others' \in [{"price_alerts", "wealth_reports"} -> SUBSET Owner]
<1>1. /\ accounts \in [AccountId -> AccountRow \cup {NoRow}]
      /\ goals \in [GoalId -> GoalRow \cup {NoRow}]
      /\ others \in [{"price_alerts", "wealth_reports"} -> SUBSET Owner]
  BY DEF UsersTypeOK
<1>2. \A o \in Owner : Assigned(o) \in Owner
  BY BootCases DEF Assigned, Owner
<1>3. CASE Table[boot.table] = "accounts"
  <2>1. accounts' = [a \in AccountId |->
                       IF accounts[a].live
                       THEN [accounts[a] EXCEPT !.owner = Assigned(@)]
                       ELSE accounts[a]]
        /\ UNCHANGED <<goals, others>>
    BY <1>3 DEF AssignTable
  <2>2. ASSUME NEW a \in AccountId, accounts[a].live
        PROVE  [accounts[a] EXCEPT !.owner = Assigned(@)] \in AccountRow
    <3>1. PICK r \in AccountRow : r = accounts[a]
      BY <2>2, AccountCases
    <3>2. PICK o \in Owner : o = Assigned(r.owner)
      BY <1>2 DEF AccountRow
    <3>3. [r EXCEPT !.owner = o] \in AccountRow
      BY DEF AccountRow
    <3> QED
      BY <3>1, <3>2, <3>3
  <2>3. accounts' \in [AccountId -> AccountRow \cup {NoRow}]
    BY <1>1, <2>1, <2>2
  <2> QED
    BY <1>1, <2>1, <2>3
<1>4. CASE Table[boot.table] = "financial_goals"
  <2>1. goals' = [g \in GoalId |->
                    IF goals[g].live
                    THEN [goals[g] EXCEPT !.owner = Assigned(@)]
                    ELSE goals[g]]
        /\ UNCHANGED <<accounts, others>>
    BY <1>4 DEF AssignTable
  <2>2. ASSUME NEW g \in GoalId, goals[g].live
        PROVE  [goals[g] EXCEPT !.owner = Assigned(@)] \in GoalRow
    <3>1. PICK r \in GoalRow : r = goals[g]
      BY <2>2, GoalCases
    <3>2. PICK o \in Owner : o = Assigned(r.owner)
      BY <1>2 DEF GoalRow
    <3>3. [r EXCEPT !.owner = o] \in GoalRow
      BY DEF GoalRow
    <3> QED
      BY <3>1, <3>2, <3>3
  <2>3. goals' \in [GoalId -> GoalRow \cup {NoRow}]
    BY <1>1, <2>1, <2>2
  <2> QED
    BY <1>1, <2>1, <2>3
<1>5. CASE Table[boot.table] \notin {"accounts", "financial_goals"}
  <2>1. others' = [others EXCEPT ![Table[boot.table]] = {Assigned(o) : o \in @}]
        /\ UNCHANGED <<accounts, goals>>
    BY <1>5 DEF AssignTable
  <2>2. \A t \in {"price_alerts", "wealth_reports"} :
          {Assigned(o) : o \in others[t]} \in SUBSET Owner
    BY <1>1, <1>2
  <2>3. others' \in [{"price_alerts", "wealth_reports"} -> SUBSET Owner]
    BY <1>1, <2>1, <2>2
  <2> QED
    BY <1>1, <2>1, <2>3
<1> QED
  BY <1>3, <1>4, <1>5

LEMMA BootAssignKeeps == UsersInv /\ BootAssign => UsersInv'
<1> SUFFICES ASSUME UsersInv, BootAssign PROVE UsersInv'
  OBVIOUS
<1>1. boot' \in [phase : {"count", "create", "serve", "down"}]
                \cup [phase : {"assign"}, table : 1 .. 4, user : User]
  <2>1. [phase |-> "serve"] \in [phase : {"count", "create", "serve", "down"}]
    OBVIOUS
  <2>2. PICK b \in [phase : {"assign"}, table : 1 .. 4, user : User] : b = boot
    BY BootCases DEF UsersInv, BootAssign
  <2>3. b.table # 4 => [b EXCEPT !.table = @ + 1]
                         \in [phase : {"assign"}, table : 1 .. 4, user : User]
    OBVIOUS
  <2> QED
    BY <2>1, <2>2, <2>3 DEF BootAssign
<1>2. /\ accounts' \in [AccountId -> AccountRow \cup {NoRow}]
      /\ goals' \in [GoalId -> GoalRow \cup {NoRow}]
      /\ others' \in [{"price_alerts", "wealth_reports"} -> SUBSET Owner]
  BY AssignTableKeeps DEF BootAssign, UsersInv, UsersTypeOK, tables
<1>3. UsersTypeOK'
  BY <1>1, <1>2 DEF BootAssign, UsersInv, UsersTypeOK
<1>4. SecretsInv' /\ RequestsOK'
  BY SecretsStay DEF BootAssign, UsersInv, RequestsOK
<1> QED
  BY <1>3, <1>4 DEF UsersInv

LEMMA BootStartKeeps == UsersInv /\ BootStart => UsersInv'
<1> SUFFICES ASSUME UsersInv, BootStart PROVE UsersInv'
  OBVIOUS
<1>1. boot' \in [phase : {"count", "create", "serve", "down"}]
  BY DEF BootStart
<1>2. UsersTypeOK'
  BY <1>1 DEF BootStart, UsersInv, UsersTypeOK, tables
<1>3. SecretsInv' /\ RequestsOK'
  BY SecretsStay DEF BootStart, UsersInv, RequestsOK
<1> QED
  BY <1>2, <1>3 DEF UsersInv

LEMMA BootKeeps == UsersInv /\ (BootStep \/ BootStart) => UsersInv' /\ req' = req
BY BootCountKeeps, BootCreateKeeps, BootAssignKeeps, BootStartKeeps
DEF BootStep, BootCount, BootCreate, BootAssign, BootStart

-----------------------------------------------------------------------------
(* Passkeys.                                                               *)

Unanswered(s) == finished[s.challenge] = 0 \/ s.kind = "named"

Checking(p) == req[p].phase = "check"

(* No challenge is answered before it was made.                            *)
FutureOK == \A c \in Challenge : c > begun => finished[c] = 0

(* A ceremony is under one key of the map, ...                             *)
MapOK ==
    \A k \in Key : sessions[k] # None =>
        /\ sessions[k].challenge <= begun
        /\ Unanswered(sessions[k])
        /\ \A j \in Key \ {k} :
              sessions[j] # None => sessions[j].challenge # sessions[k].challenge

(* ... or with one request that has taken it.                              *)
ChecksOK ==
    \A p \in Req : Checking(p) =>
        /\ req[p].ceremony.challenge <= begun
        /\ Unanswered(req[p].ceremony)
        /\ \A k \in Key :
              sessions[k] # None => sessions[k].challenge # req[p].ceremony.challenge
        /\ \A q \in Req \ {p} :
              Checking(q) => req[q].ceremony.challenge # req[p].ceremony.challenge

(* What a named sign-in is about to succeed with is a named ceremony,      *)
(* wherever that is by now.                                                *)
ForgetsOK ==
    \A p \in Req : req[p].phase = "forget" =>
        /\ req[p].challenge <= begun
        /\ \A k \in Key : sessions[k] # None /\ sessions[k].challenge = req[p].challenge
              => sessions[k].kind = "named"
        /\ \A q \in Req : Checking(q) /\ req[q].ceremony.challenge = req[p].challenge
              => req[q].ceremony.kind = "named"

CeremoniesInv == FutureOK /\ MapOK /\ ChecksOK /\ ForgetsOK

KeysInv == PasskeysTypeOK /\ RequestsOK /\ CeremoniesInv

LEMMA KeyCases ==
    ASSUME PasskeysTypeOK, NEW k \in Key, sessions[k] # None
    PROVE  /\ sessions[k] \in Ceremony
           /\ sessions[k].challenge \in Challenge
BY DEF PasskeysTypeOK, Ceremony

LEMMA CeremonyCases ==
    ASSUME NEW s \in Ceremony
    PROVE  /\ s.challenge \in Challenge /\ s # None
           /\ s.kind \in {"register", "named", "discoverable"}
           /\ s.kind # "discoverable" => s.user \in User
BY DEF Ceremony, None

LEMMA Numbers ==
    ASSUME PasskeysTypeOK
    PROVE  /\ MaxCeremonies \in Nat /\ begun \in 0 .. MaxCeremonies
           /\ begun \in Nat /\ \A c \in Challenge : c \in Nat
BY PasskeysAssumption DEF PasskeysTypeOK, Challenge

(* The requests that hold or held a ceremony are the same, or fewer.       *)
Keeps == \A q \in Req : req'[q].phase \in {"check", "forget"} => req'[q] = req[q]

LEMMA CeremoniesStay ==
    ASSUME CeremoniesInv, Keeps, UNCHANGED keyVars
    PROVE  CeremoniesInv'
<1>1. FutureOK' /\ MapOK'
  BY DEF CeremoniesInv, FutureOK, MapOK, keyVars, Unanswered
<1>2. \A q \in Req : Checking(q)' => Checking(q) /\ req'[q] = req[q]
  BY DEF Keeps, Checking
<1>3. ChecksOK'
  BY <1>2 DEF CeremoniesInv, ChecksOK, keyVars, Unanswered
<1>4. ForgetsOK'
  BY <1>2 DEF CeremoniesInv, ForgetsOK, Keeps, keyVars
<1> QED
  BY <1>1, <1>3, <1>4 DEF CeremoniesInv

LEMMA Begins ==
    ASSUME KeysInv, NEW key \in Key, NEW s \in Ceremony,
           s.challenge = begun + 1, Begin(key, s), UNCHANGED finished, Keeps
    PROVE  /\ CeremoniesInv'
           /\ sessions' \in [Key -> Ceremony \cup {None}]
           /\ begun' \in 0 .. MaxCeremonies
<1>1. /\ begun' = begun + 1 /\ begun < MaxCeremonies
      /\ sessions' = [sessions EXCEPT ![key] = s]
  BY DEF Begin
<1>2. /\ MaxCeremonies \in Nat /\ begun \in 0 .. MaxCeremonies
      /\ begun \in Nat /\ \A c \in Challenge : c \in Nat
  BY Numbers DEF KeysInv
<1>3. sessions' \in [Key -> Ceremony \cup {None}] /\ begun' \in 0 .. MaxCeremonies
  BY <1>1, <1>2 DEF KeysInv, PasskeysTypeOK
<1>4. sessions'[key] = s /\ \A k \in Key \ {key} : sessions'[k] = sessions[k]
  BY <1>1 DEF KeysInv, PasskeysTypeOK
<1>5. FutureOK'
  BY <1>1, <1>2 DEF KeysInv, CeremoniesInv, FutureOK
<1>6. \A k \in Key : sessions[k] # None =>
         /\ sessions[k].challenge \in Nat /\ sessions[k].challenge <= begun
         /\ sessions[k].challenge # s.challenge
  BY <1>2, KeyCases DEF KeysInv, CeremoniesInv, MapOK
<1>7. finished'[s.challenge] = 0
  BY <1>1, <1>2, CeremonyCases DEF KeysInv, CeremoniesInv, FutureOK
<1>8. MapOK'
  <2>1. SUFFICES ASSUME NEW k \in Key, sessions'[k] # None
                 PROVE  /\ sessions'[k].challenge <= begun'
                        /\ Unanswered(sessions[k])'
                        /\ \A j \in Key \ {k} : sessions'[j] # None =>
                              sessions'[j].challenge # sessions'[k].challenge
    BY DEF MapOK
  <2>2. CASE k = key
    BY <1>1, <1>2, <1>4, <1>6, <1>7, <2>2 DEF Unanswered
  <2>3. CASE k # key
    BY <1>1, <1>2, <1>4, <1>6, <2>1, <2>3
    DEF Unanswered, KeysInv, CeremoniesInv, MapOK
  <2> QED
    BY <2>2, <2>3
<1>9. \A q \in Req : Checking(q)' => Checking(q) /\ req'[q] = req[q]
  BY DEF Keeps, Checking
<1>10. \A q \in Req : Checking(q) => /\ req[q].ceremony.challenge \in Nat
                                     /\ req[q].ceremony.challenge # s.challenge
  BY <1>2, RequestCases, CeremonyCases
  DEF KeysInv, RequestsOK, CeremoniesInv, ChecksOK, Checking
<1>11. ChecksOK'
  <2>1. SUFFICES ASSUME NEW p \in Req, Checking(p)'
                 PROVE  /\ req'[p].ceremony.challenge <= begun'
                        /\ Unanswered(req[p].ceremony)'
                        /\ \A k \in Key : sessions'[k] # None =>
                              sessions'[k].challenge # req'[p].ceremony.challenge
                        /\ \A q \in Req \ {p} : Checking(q)' =>
                              req'[q].ceremony.challenge # req'[p].ceremony.challenge
    BY DEF ChecksOK
  <2>2. Checking(p) /\ req'[p] = req[p] /\ req[p].ceremony.challenge \in Nat
    BY <1>9, <1>10, <2>1
  <2>3. req[p].ceremony.challenge <= begun /\ Unanswered(req[p].ceremony)
    BY <2>2 DEF KeysInv, CeremoniesInv, ChecksOK
  <2>4. req'[p].ceremony.challenge <= begun' /\ Unanswered(req[p].ceremony)'
    BY <1>1, <1>2, <2>2, <2>3 DEF Unanswered
  <2>5. \A k \in Key : sessions'[k] # None =>
              sessions'[k].challenge # req'[p].ceremony.challenge
    BY <1>4, <1>10, <2>2 DEF KeysInv, CeremoniesInv, ChecksOK
  <2>6. \A q \in Req \ {p} : Checking(q)' =>
              req'[q].ceremony.challenge # req'[p].ceremony.challenge
    BY <1>9, <2>2 DEF KeysInv, CeremoniesInv, ChecksOK
  <2> QED
    BY <2>4, <2>5, <2>6
<1>12. ForgetsOK'
  <2>1. SUFFICES ASSUME NEW p \in Req, req'[p].phase = "forget"
                 PROVE  /\ req'[p].challenge <= begun'
                        /\ \A k \in Key : sessions'[k] # None
                               /\ sessions'[k].challenge = req'[p].challenge
                             => sessions'[k].kind = "named"
                        /\ \A q \in Req : Checking(q)'
                               /\ req'[q].ceremony.challenge = req'[p].challenge
                             => req'[q].ceremony.kind = "named"
    BY DEF ForgetsOK
  <2>2. /\ req'[p] = req[p] /\ req[p].phase = "forget"
        /\ req[p].challenge \in Nat /\ req[p].challenge <= begun
    BY <1>2, <2>1, RequestCases DEF Keeps, KeysInv, RequestsOK, CeremoniesInv, ForgetsOK
  <2>3. req[p].challenge # s.challenge /\ req'[p].challenge <= begun'
    BY <1>1, <1>2, <2>2
  <2> QED
    BY <1>4, <1>9, <2>2, <2>3 DEF KeysInv, CeremoniesInv, ForgetsOK
<1> QED
  BY <1>3, <1>5, <1>8, <1>11, <1>12 DEF CeremoniesInv

(* LoadAndDelete moves a ceremony from the map to the request.             *)
LEMMA Takes ==
    ASSUME KeysInv, NEW key \in Key, NEW p \in Req, ~Checking(p),
           Take(p, key), UNCHANGED <<begun, finished>>
    PROVE  /\ CeremoniesInv' /\ RequestsOK' /\ Moves(p, {"check"})
           /\ sessions' \in [Key -> Ceremony \cup {None}]
<1>1. PICK s \in Ceremony : /\ s = sessions[key] /\ sessions[key] # None
                            /\ sessions' = [sessions EXCEPT ![key] = None]
  BY KeyCases DEF Take, KeysInv
<1>2. PICK r : r = [phase |-> "check", ceremony |-> s]
  OBVIOUS
<1>3. r \in Request /\ r.phase = "check" /\ r.ceremony = s
  BY <1>2 DEF Request
<1>4. /\ RequestsOK' /\ Moves(p, {"check"}) /\ req'[p] = r
      /\ \A q \in Req \ {p} : req'[q] = req[q]
  <2>1. RequestsOK /\ req' = [req EXCEPT ![p] = r]
    BY <1>1, <1>2 DEF KeysInv, Take
  <2> QED
    BY <1>3, <2>1, Goes
<1>5. /\ sessions' \in [Key -> Ceremony \cup {None}]
      /\ sessions'[key] = None /\ \A k \in Key \ {key} : sessions'[k] = sessions[k]
  BY <1>1 DEF KeysInv, PasskeysTypeOK
<1>6. \A q \in Req : Checking(q)' =>
         \/ q = p /\ req'[q].ceremony = s
         \/ q # p /\ Checking(q) /\ req'[q] = req[q]
  BY <1>3, <1>4 DEF Checking
<1>7. FutureOK' /\ MapOK'
  BY <1>5 DEF KeysInv, CeremoniesInv, FutureOK, MapOK, Unanswered
<1>8. /\ s.challenge <= begun /\ Unanswered(s)
      /\ \A j \in Key \ {key} : sessions[j] # None => sessions[j].challenge # s.challenge
      /\ \A q \in Req : Checking(q) => req[q].ceremony.challenge # s.challenge
  BY <1>1 DEF KeysInv, CeremoniesInv, MapOK, ChecksOK
<1>9. ChecksOK'
  <2>1. SUFFICES ASSUME NEW o \in Req, Checking(o)'
                 PROVE  /\ req'[o].ceremony.challenge <= begun'
                        /\ Unanswered(req[o].ceremony)'
                        /\ \A k \in Key : sessions'[k] # None =>
                              sessions'[k].challenge # req'[o].ceremony.challenge
                        /\ \A q \in Req \ {o} : Checking(q)' =>
                              req'[q].ceremony.challenge # req'[o].ceremony.challenge
    BY DEF ChecksOK
  <2>2. CASE o = p
    BY <1>3, <1>4, <1>5, <1>6, <1>8, <2>2 DEF Unanswered
  <2>3. CASE o # p
    <3>1. Checking(o) /\ req'[o] = req[o]
      BY <1>6, <2>1, <2>3
    <3> QED
      BY <1>5, <1>6, <1>8, <3>1 DEF KeysInv, CeremoniesInv, ChecksOK, Unanswered
  <2> QED
    BY <2>2, <2>3
<1>10. ForgetsOK'
  <2>1. SUFFICES ASSUME NEW o \in Req, req'[o].phase = "forget"
                 PROVE  /\ req'[o].challenge <= begun'
                        /\ \A k \in Key : sessions'[k] # None
                               /\ sessions'[k].challenge = req'[o].challenge
                             => sessions'[k].kind = "named"
                        /\ \A q \in Req : Checking(q)'
                               /\ req'[q].ceremony.challenge = req'[o].challenge
                             => req'[q].ceremony.kind = "named"
    BY DEF ForgetsOK
  <2>2. req'[o] = req[o] /\ req[o].phase = "forget"
    BY <1>3, <1>4, <2>1
  <2>3. req[o].challenge <= begun
        /\ (s.challenge = req[o].challenge => s.kind = "named")
    BY <1>1, <2>2 DEF KeysInv, CeremoniesInv, ForgetsOK
  <2> QED
    BY <1>5, <1>6, <2>2, <2>3 DEF KeysInv, CeremoniesInv, ForgetsOK
<1> QED
  BY <1>4, <1>5, <1>7, <1>9, <1>10 DEF CeremoniesInv

(* A success counts for its challenge, which none but a named ceremony has *)
(* from now on.                                                            *)
LEMMA Succeeds ==
    ASSUME KeysInv, NEW c \in Challenge, c <= begun, Succeeded(c),
           UNCHANGED begun, Keeps,
           \A k \in Key : sessions'[k] \in {sessions[k], None},
           \A k \in Key : sessions'[k] # None /\ sessions'[k].challenge = c
                            => sessions'[k].kind = "named",
           \A q \in Req : Checking(q)' /\ req'[q].ceremony.challenge = c
                            => req'[q].ceremony.kind = "named"
    PROVE  CeremoniesInv' /\ finished' \in [Challenge -> Nat]
<1>1. finished \in [Challenge -> Nat] /\ finished' = [finished EXCEPT ![c] = @ + 1]
  BY DEF KeysInv, PasskeysTypeOK, Succeeded
<1>2. /\ finished' \in [Challenge -> Nat]
      /\ \A d \in Challenge \ {c} : finished'[d] = finished[d]
  BY <1>1
<1>3. FutureOK'
  BY <1>2, Numbers DEF KeysInv, CeremoniesInv, FutureOK
<1>4. \A q \in Req : Checking(q)' =>
         /\ Checking(q) /\ req'[q] = req[q]
         /\ req[q].ceremony.challenge \in Challenge
  BY RequestCases, CeremonyCases DEF Keeps, Checking, KeysInv, RequestsOK
<1>5. MapOK'
  <2>1. SUFFICES ASSUME NEW k \in Key, sessions'[k] # None
                 PROVE  /\ sessions'[k].challenge <= begun'
                        /\ Unanswered(sessions[k])'
                        /\ \A j \in Key \ {k} : sessions'[j] # None =>
                              sessions'[j].challenge # sessions'[k].challenge
    BY DEF MapOK
  <2>2. /\ sessions'[k] = sessions[k] /\ sessions[k] # None
        /\ sessions[k].challenge \in Challenge
    BY <2>1, KeyCases DEF KeysInv
  <2>3. Unanswered(sessions[k])'
    BY <1>2, <2>1, <2>2 DEF Unanswered, KeysInv, CeremoniesInv, MapOK
  <2> QED
    BY <2>2, <2>3 DEF KeysInv, CeremoniesInv, MapOK
<1>6. ChecksOK'
  <2>1. SUFFICES ASSUME NEW o \in Req, Checking(o)'
                 PROVE  /\ req'[o].ceremony.challenge <= begun'
                        /\ Unanswered(req[o].ceremony)'
                        /\ \A k \in Key : sessions'[k] # None =>
                              sessions'[k].challenge # req'[o].ceremony.challenge
                        /\ \A q \in Req \ {o} : Checking(q)' =>
                              req'[q].ceremony.challenge # req'[o].ceremony.challenge
    BY DEF ChecksOK
  <2>2. /\ Checking(o) /\ req'[o] = req[o]
        /\ req[o].ceremony.challenge \in Challenge
    BY <1>4, <2>1
  <2>3. Unanswered(req[o].ceremony)'
    BY <1>2, <2>1, <2>2 DEF Unanswered, KeysInv, CeremoniesInv, ChecksOK
  <2> QED
    BY <1>4, <2>2, <2>3 DEF KeysInv, CeremoniesInv, ChecksOK
<1>7. ForgetsOK'
  BY <1>4 DEF Keeps, KeysInv, CeremoniesInv, ForgetsOK
<1> QED
  BY <1>2, <1>3, <1>5, <1>6, <1>7 DEF CeremoniesInv

PasskeyPhases == {"idle", "check", "cookie", "forget", "refused"}

LEMMA MovesKeep ==
    ASSUME NEW p \in Req, NEW phases, Moves(p, phases),
           phases \cap {"check", "forget"} = {}
    PROVE  Keeps
BY DEF Moves, Keeps

LEMMA Grants ==
    ASSUME RequestsOK, NEW p \in Req, NEW u \in User, Grant(p, u)
    PROVE  RequestsOK' /\ Moves(p, {"cookie"})
<1>1. PICK r : r = [phase |-> "cookie", user |-> u]
  OBVIOUS
<1>2. r \in Request /\ r.phase = "cookie"
  BY <1>1 DEF Request
<1>3. req' = [req EXCEPT ![p] = r]
  BY <1>1 DEF Grant
<1> QED
  BY <1>2, <1>3, Goes

(* A handler that leaves the ceremonies alone and takes none.              *)
LEMMA KeysStay ==
    ASSUME KeysInv, NEW p \in Req, NEW phases, Moves(p, phases), RequestsOK',
           phases \cap {"check", "forget"} = {}, UNCHANGED keyVars,
           creds' \subseteq Credential
    PROVE  KeysInv'
<1>1. CeremoniesInv'
  BY MovesKeep, CeremoniesStay DEF KeysInv
<1>2. PasskeysTypeOK'
  BY DEF KeysInv, PasskeysTypeOK, keyVars
<1> QED
  BY <1>1, <1>2 DEF KeysInv

LEMMA BeginRegistrationKeeps ==
    ASSUME KeysInv, NEW p \in Req, HandleBeginRegistration(p)
    PROVE  KeysInv' /\ Moves(p, {"idle"})
<1>1. RequestsOK' /\ Moves(p, {"idle"})
  BY Answered DEF HandleBeginRegistration, KeysInv, Moves
<1>2. PICK u, s :
         /\ u \in User
         /\ s = [kind |-> "register", user |-> u, challenge |-> begun + 1]
         /\ Begin(u, s)
  BY DEF HandleBeginRegistration, Live
<1>3. begun + 1 \in Challenge
  BY <1>2, Numbers DEF Begin, Challenge, KeysInv
<1>4. s \in Ceremony /\ s.challenge = begun + 1
  BY <1>2, <1>3 DEF Ceremony
<1>5. /\ CeremoniesInv' /\ sessions' \in [Key -> Ceremony \cup {None}]
      /\ begun' \in 0 .. MaxCeremonies
  BY <1>1, <1>2, <1>4, MovesKeep, Begins DEF Key, HandleBeginRegistration
<1>6. PasskeysTypeOK'
  BY <1>5 DEF HandleBeginRegistration, KeysInv, PasskeysTypeOK
<1> QED
  BY <1>1, <1>5, <1>6 DEF KeysInv

LEMMA BeginDiscoverableKeeps ==
    ASSUME KeysInv, NEW p \in Req, HandleBeginDiscoverable(p)
    PROVE  KeysInv' /\ Moves(p, {"idle"})
<1>1. RequestsOK' /\ Moves(p, {"idle"})
  BY Answered DEF HandleBeginDiscoverable, KeysInv, Moves
<1>2. PICK s : /\ s = [kind |-> "discoverable", challenge |-> begun + 1]
               /\ Begin(Discoverable, s)
  BY DEF HandleBeginDiscoverable
<1>3. begun + 1 \in Challenge
  BY <1>2, Numbers DEF Begin, Challenge, KeysInv
<1>4. s \in Ceremony /\ s.challenge = begun + 1
  BY <1>2, <1>3 DEF Ceremony
<1>5. /\ CeremoniesInv' /\ sessions' \in [Key -> Ceremony \cup {None}]
      /\ begun' \in 0 .. MaxCeremonies
  BY <1>1, <1>2, <1>4, MovesKeep, Begins DEF Key, HandleBeginDiscoverable
<1>6. PasskeysTypeOK'
  BY <1>5 DEF HandleBeginDiscoverable, KeysInv, PasskeysTypeOK
<1> QED
  BY <1>1, <1>5, <1>6 DEF KeysInv

LEMMA BeginNamedKeeps ==
    ASSUME KeysInv, NEW p \in Req, HandleBeginNamed(p)
    PROVE  KeysInv' /\ Moves(p, {"idle"})
<1>1. RequestsOK' /\ Moves(p, {"idle"})
  BY Answered DEF HandleBeginNamed, KeysInv, Moves
<1>2. PICK u, s :
         /\ u \in User
         /\ s = [kind |-> "named", user |-> u, challenge |-> begun + 1]
         /\ Begin(u, s)
  BY DEF HandleBeginNamed, Live
<1>3. begun + 1 \in Challenge
  BY <1>2, Numbers DEF Begin, Challenge, KeysInv
<1>4. s \in Ceremony /\ s.challenge = begun + 1
  BY <1>2, <1>3 DEF Ceremony
<1>5. /\ CeremoniesInv' /\ sessions' \in [Key -> Ceremony \cup {None}]
      /\ begun' \in 0 .. MaxCeremonies
  BY <1>1, <1>2, <1>4, MovesKeep, Begins DEF Key, HandleBeginNamed
<1>6. PasskeysTypeOK'
  BY <1>5 DEF HandleBeginNamed, KeysInv, PasskeysTypeOK
<1> QED
  BY <1>1, <1>5, <1>6 DEF KeysInv

LEMMA TakeKeeps ==
    ASSUME KeysInv, NEW p \in Req, TakeRegistration(p) \/ TakeDiscoverable(p)
    PROVE  KeysInv' /\ Moves(p, {"check"})
<1>1. PICK key \in Key : Take(p, key)
  BY DEF TakeRegistration, TakeDiscoverable, Key
<1>2. ~Checking(p)
  BY DEF TakeRegistration, TakeDiscoverable, At, Checking
<1>3. UNCHANGED <<creds, begun, finished>>
  BY DEF TakeRegistration, TakeDiscoverable
<1>4. /\ CeremoniesInv' /\ RequestsOK' /\ Moves(p, {"check"})
      /\ sessions' \in [Key -> Ceremony \cup {None}]
  BY <1>1, <1>2, <1>3, Takes
<1>5. PasskeysTypeOK'
  BY <1>3, <1>4 DEF KeysInv, PasskeysTypeOK
<1> QED
  BY <1>4, <1>5 DEF KeysInv

(* What a request has taken is with it alone.                              *)
LEMMA Holds ==
    ASSUME KeysInv, NEW p \in Req, Checking(p), NEW phases, Moves(p, phases),
           phases \cap {"check", "forget"} = {}, UNCHANGED sessions
    PROVE  LET c == req[p].ceremony.challenge IN
           /\ req[p].ceremony \in Ceremony /\ c \in Challenge /\ c <= begun
           /\ \A k \in Key : sessions'[k] # None => sessions'[k].challenge # c
           /\ \A q \in Req : Checking(q)' => req'[q].ceremony.challenge # c
<1>1. req[p].ceremony \in Ceremony /\ req[p].ceremony.challenge \in Challenge
  BY RequestCases, CeremonyCases DEF KeysInv, RequestsOK, Checking
<1>2. \A q \in Req : Checking(q)' => q # p /\ Checking(q) /\ req'[q] = req[q]
  BY DEF Moves, Checking
<1> QED
  BY <1>1, <1>2 DEF KeysInv, CeremoniesInv, ChecksOK

LEMMA FinishRegistrationKeeps ==
    ASSUME KeysInv, NEW p \in Req, FinishRegistration(p)
    PROVE  KeysInv' /\ Moves(p, {"idle"})
<1> DEFINE s == req[p].ceremony
<1>1. Done(p) /\ Checking(p) /\ UNCHANGED <<userVars, sessions, begun>>
  BY DEF FinishRegistration, Failed, Checking
<1>2. RequestsOK' /\ Moves(p, {"idle"})
  BY <1>1, Answered DEF KeysInv, Moves
<1>3. /\ s \in Ceremony /\ s.challenge \in Challenge /\ s.challenge <= begun
      /\ \A k \in Key : sessions'[k] # None => sessions'[k].challenge # s.challenge
      /\ \A q \in Req : Checking(q)' => req'[q].ceremony.challenge # s.challenge
  BY <1>1, <1>2, Holds
<1>4. CASE Failed(p)
  BY <1>1, <1>2, <1>4, KeysStay DEF Failed, keyVars, KeysInv, PasskeysTypeOK
<1>5. CASE /\ s.user \in Live
           /\ creds' = creds \cup {[id |-> s.challenge, user |-> s.user]}
           /\ Succeeded(s.challenge)
  <2>1. CeremoniesInv' /\ finished' \in [Challenge -> Nat]
    <3>1. PICK c \in Challenge : c = s.challenge
      BY <1>3
    <3>2. Keeps
      BY <1>2, MovesKeep
    <3> QED
      BY <1>1, <1>3, <1>5, <3>1, <3>2, Succeeds
  <2>2. [id |-> s.challenge, user |-> s.user] \in Credential
    BY <1>3, <1>5, Numbers DEF Credential, Challenge, Live, KeysInv
  <2>3. PasskeysTypeOK'
    BY <1>1, <1>5, <2>1, <2>2 DEF KeysInv, PasskeysTypeOK
  <2> QED
    BY <1>2, <2>1, <2>3 DEF KeysInv
<1> QED
  BY <1>4, <1>5 DEF FinishRegistration

LEMMA FinishDiscoverableKeeps ==
    ASSUME KeysInv, NEW p \in Req, FinishDiscoverable(p)
    PROVE  KeysInv' /\ Moves(p, {"idle", "cookie"})
<1> DEFINE s == req[p].ceremony
<1>1. Checking(p) /\ UNCHANGED <<userVars, sessions, begun>>
  BY DEF FinishDiscoverable, Checking
<1>2. CASE Failed(p)
  <2>1. RequestsOK' /\ Moves(p, {"idle"})
    BY <1>2, Answered DEF KeysInv, Moves, Failed
  <2>2. KeysInv'
    BY <1>1, <1>2, <2>1, KeysStay DEF Failed, keyVars, KeysInv, PasskeysTypeOK
  <2> QED
    BY <2>1, <2>2 DEF Moves
<1>3. CASE /\ \E k \in creds : k.user \in Live /\ Grant(p, k.user)
           /\ Succeeded(s.challenge)
           /\ UNCHANGED creds
  <2>1. PICK u \in User : Grant(p, u)
    BY <1>3 DEF Live
  <2>2. RequestsOK' /\ Moves(p, {"cookie"})
    BY <2>1, Grants DEF KeysInv
  <2>3. /\ s.challenge \in Challenge /\ s.challenge <= begun
        /\ \A k \in Key : sessions'[k] # None => sessions'[k].challenge # s.challenge
        /\ \A q \in Req : Checking(q)' => req'[q].ceremony.challenge # s.challenge
    BY <1>1, <2>2, Holds
  <2>4. CeremoniesInv' /\ finished' \in [Challenge -> Nat]
    <3>1. PICK c \in Challenge : c = s.challenge
      BY <2>3
    <3>2. Keeps
      BY <2>2, MovesKeep
    <3> QED
      BY <1>1, <1>3, <2>3, <3>1, <3>2, Succeeds
  <2>5. PasskeysTypeOK'
    BY <1>1, <1>3, <2>4 DEF KeysInv, PasskeysTypeOK
  <2> QED
    BY <2>2, <2>4, <2>5 DEF KeysInv, Moves
<1> QED
  BY <1>2, <1>3 DEF FinishDiscoverable

LEMMA CheckNamedKeeps ==
    ASSUME KeysInv, NEW p \in Req, CheckNamed(p)
    PROVE  KeysInv' /\ Moves(p, {"forget", "refused"})
<1>1. PICK challenge \in 1 .. begun, k \in creds, u \in Candidates :
         req' = [req EXCEPT ![p] =
                   IF Answers(sessions[u], challenge, k)
                   THEN [phase |-> "forget", user |-> u, challenge |-> challenge]
                   ELSE [phase |-> "refused", challenge |-> challenge, cred |-> k]]
  BY DEF CheckNamed
<1>2. /\ challenge \in Challenge /\ challenge <= begun /\ k \in Credential
      /\ u \in User /\ u \in Key /\ sessions[u] # None
  BY Numbers DEF KeysInv, PasskeysTypeOK, Challenge, Candidates, Live, Key
<1>3. UNCHANGED keyVars /\ creds' = creds
  BY DEF CheckNamed
<1>4. PasskeysTypeOK'
  BY <1>3 DEF keyVars, KeysInv, PasskeysTypeOK
<1>5. CASE Answers(sessions[u], challenge, k)
  <2>1. PICK r : r = [phase |-> "forget", user |-> u, challenge |-> challenge]
    OBVIOUS
  <2>2. r \in Request /\ r.phase = "forget" /\ r.challenge = challenge
    BY <1>2, <2>1 DEF Request
  <2>3. RequestsOK /\ req' = [req EXCEPT ![p] = r]
    BY <1>1, <1>5, <2>1 DEF KeysInv
  <2>4. /\ RequestsOK' /\ Moves(p, {"forget"}) /\ req'[p] = r
        /\ \A q \in Req \ {p} : req'[q] = req[q]
    BY <2>2, <2>3, Goes
  <2>5. \A q \in Req : Checking(q)' => Checking(q) /\ req'[q] = req[q]
    BY <2>2, <2>4 DEF Checking
  <2>6. FutureOK' /\ MapOK'
    BY <1>3 DEF KeysInv, CeremoniesInv, FutureOK, MapOK, keyVars, Unanswered
  <2>7. ChecksOK'
    BY <1>3, <2>5 DEF KeysInv, CeremoniesInv, ChecksOK, keyVars, Unanswered
  <2>8. sessions[u].kind = "named" /\ sessions[u].challenge = challenge
    BY <1>5 DEF Answers
  <2>9. /\ \A j \in Key : sessions[j] # None /\ sessions[j].challenge = challenge
                            => sessions[j].kind = "named"
        /\ \A q \in Req : Checking(q) => req[q].ceremony.challenge # challenge
    BY <1>2, <2>8 DEF KeysInv, CeremoniesInv, MapOK, ChecksOK
  <2>10. ForgetsOK'
    <3>1. SUFFICES ASSUME NEW o \in Req, req'[o].phase = "forget"
                   PROVE  /\ req'[o].challenge <= begun'
                          /\ \A j \in Key : sessions'[j] # None
                                 /\ sessions'[j].challenge = req'[o].challenge
                               => sessions'[j].kind = "named"
                          /\ \A q \in Req : Checking(q)'
                                 /\ req'[q].ceremony.challenge = req'[o].challenge
                               => req'[q].ceremony.kind = "named"
      BY DEF ForgetsOK
    <3>2. CASE o = p
      BY <1>2, <1>3, <2>2, <2>4, <2>5, <2>9, <3>2 DEF keyVars
    <3>3. CASE o # p
      <4>1. req'[o] = req[o] /\ req[o].phase = "forget"
        BY <2>4, <3>1, <3>3
      <4> QED
        BY <1>3, <2>5, <4>1 DEF keyVars, KeysInv, CeremoniesInv, ForgetsOK
    <3> QED
      BY <3>2, <3>3
  <2> QED
    BY <1>4, <2>4, <2>6, <2>7, <2>10 DEF KeysInv, CeremoniesInv, Moves
<1>6. CASE ~Answers(sessions[u], challenge, k)
  <2>1. PICK r : r = [phase |-> "refused", challenge |-> challenge, cred |-> k]
    OBVIOUS
  <2>2. r \in Request /\ r.phase = "refused"
    BY <1>2, <2>1 DEF Request
  <2>3. RequestsOK /\ req' = [req EXCEPT ![p] = r]
    BY <1>1, <1>6, <2>1 DEF KeysInv
  <2>4. RequestsOK' /\ Moves(p, {"refused"})
    BY <2>2, <2>3, Goes
  <2>5. KeysInv'
    BY <1>3, <2>4, KeysStay DEF KeysInv, PasskeysTypeOK
  <2> QED
    BY <2>4, <2>5 DEF Moves
<1> QED
  BY <1>5, <1>6

LEMMA ForgetNamedKeeps ==
    ASSUME KeysInv, NEW p \in Req, ForgetNamed(p)
    PROVE  KeysInv' /\ Moves(p, {"cookie"})
<1>1. PICK u \in User, c \in Challenge :
         /\ u = req[p].user /\ c = req[p].challenge
         /\ sessions' = [sessions EXCEPT ![u] = None]
         /\ Succeeded(c) /\ Grant(p, u)
  BY RequestCases DEF ForgetNamed, KeysInv, RequestsOK
<1>2. RequestsOK' /\ Moves(p, {"cookie"})
  BY <1>1, Grants DEF KeysInv
<1>3. UNCHANGED <<creds, begun>> /\ req[p].phase = "forget"
  BY DEF ForgetNamed
<1>4. /\ sessions' \in [Key -> Ceremony \cup {None}]
      /\ \A k \in Key : sessions'[k] \in {sessions[k], None}
  BY <1>1 DEF KeysInv, PasskeysTypeOK
<1>5. Keeps
  BY <1>2, MovesKeep
<1>6. \A q \in Req : Checking(q)' => Checking(q) /\ req'[q] = req[q]
  BY <1>5 DEF Keeps, Checking
<1>7. /\ c <= begun
      /\ \A k \in Key : sessions'[k] # None /\ sessions'[k].challenge = c
                          => sessions'[k].kind = "named"
      /\ \A q \in Req : Checking(q)' /\ req'[q].ceremony.challenge = c
                          => req'[q].ceremony.kind = "named"
  BY <1>1, <1>3, <1>4, <1>6 DEF KeysInv, CeremoniesInv, ForgetsOK
<1>8. CeremoniesInv' /\ finished' \in [Challenge -> Nat]
  BY <1>1, <1>3, <1>4, <1>5, <1>7, Succeeds
<1>9. PasskeysTypeOK'
  BY <1>3, <1>4, <1>8 DEF KeysInv, PasskeysTypeOK
<1> QED
  BY <1>2, <1>8, <1>9 DEF KeysInv

(* The answers that change no ceremony. *)
LEMMA OthersKeep ==
    ASSUME KeysInv, NEW p \in Req,
           \/ \E kind \in PasskeyKinds : Refuse(p, kind) /\ UNCHANGED keyVars
           \/ RefuseLogin(p) \/ RespondRefused(p) \/ HandleDeletePasskey(p)
    PROVE  KeysInv' /\ Moves(p, {"idle"})
<1>1. Done(p) /\ UNCHANGED keyVars
  BY DEF Refuse, RefuseLogin, RespondRefused, HandleDeletePasskey
<1>2. creds' \subseteq Credential
  BY DEF Refuse, RefuseLogin, RespondRefused, HandleDeletePasskey, KeysInv,
         PasskeysTypeOK
<1>3. RequestsOK' /\ Moves(p, {"idle"})
  BY <1>1, Answered DEF KeysInv, Moves
<1> QED
  BY <1>1, <1>2, <1>3, KeysStay

LEMMA PasskeyHandlerKeeps ==
    ASSUME KeysInv, NEW p \in Req, PasskeyHandler(p)
    PROVE  KeysInv' /\ Moves(p, PasskeyPhases) /\ UNCHANGED userVars
<1>1. UNCHANGED userVars
  BY DEF PasskeyHandler, Refuse, HandleBeginRegistration, TakeRegistration,
         FinishRegistration, HandleBeginDiscoverable, HandleBeginNamed,
         TakeDiscoverable, FinishDiscoverable, CheckNamed, RefuseLogin,
         ForgetNamed, RespondRefused, HandleDeletePasskey
<1>2. CASE HandleBeginRegistration(p) \/ HandleBeginDiscoverable(p)
           \/ HandleBeginNamed(p)
  BY <1>1, <1>2, BeginRegistrationKeeps, BeginDiscoverableKeeps, BeginNamedKeeps
  DEF Moves, PasskeyPhases
<1>3. CASE TakeRegistration(p) \/ TakeDiscoverable(p)
  BY <1>1, <1>3, TakeKeeps DEF Moves, PasskeyPhases
<1>4. CASE FinishRegistration(p)
  BY <1>1, <1>4, FinishRegistrationKeeps DEF Moves, PasskeyPhases
<1>5. CASE FinishDiscoverable(p)
  BY <1>1, <1>5, FinishDiscoverableKeeps DEF Moves, PasskeyPhases
<1>6. CASE CheckNamed(p)
  BY <1>1, <1>6, CheckNamedKeeps DEF Moves, PasskeyPhases
<1>7. CASE ForgetNamed(p)
  BY <1>1, <1>7, ForgetNamedKeeps DEF Moves, PasskeyPhases
<1>8. CASE \/ \E kind \in PasskeyKinds : Refuse(p, kind) /\ UNCHANGED keyVars
           \/ RefuseLogin(p) \/ RespondRefused(p) \/ HandleDeletePasskey(p)
  BY <1>1, <1>8, OthersKeep DEF Moves, PasskeyPhases
<1> QED
  BY <1>2, <1>3, <1>4, <1>5, <1>6, <1>7, <1>8 DEF PasskeyHandler

-----------------------------------------------------------------------------
(* Failed sign-ins.                                                        *)

Trying == {"lookup", "legacy", "failed"}

UnderWay(c) == {p \in Req : req[p].phase \in Trying /\ req[p].client = c}

(* AttemptsBounded is inductive by itself: a sign-in is admitted below the *)
(* limit, however many are under way, and each of them may add one failure *)
(* when it ends.                                                           *)
AttemptsInv ==
    /\ \A c \in Client : IsFiniteSet(attempts[c])
    /\ AttemptsBounded

LEMMA Counts ==
    ASSUME AttemptsInv, NEW c \in Client
    PROVE  /\ IsFiniteSet(Recent(c)) /\ Cardinality(Recent(c)) \in Nat
           /\ IsFiniteSet(UnderWay(c)) /\ Cardinality(UnderWay(c)) \in Nat
           /\ Cardinality(UnderWay(c)) <= Cardinality(Req)
           /\ Cardinality(Req) \in Nat /\ MaxFails \in Nat \ {0}
           /\ Cardinality(Recent(c)) + Cardinality(UnderWay(c))
                <= MaxFails - 1 + Cardinality(Req)
<1>1. Recent(c) \in SUBSET attempts[c] /\ IsFiniteSet(attempts[c])
  BY DEF Recent, AttemptsInv
<1>2. UnderWay(c) \in SUBSET Req /\ IsFiniteSet(Req)
  BY UsersAssumption DEF UnderWay
<1>3. IsFiniteSet(Recent(c)) /\ Cardinality(Recent(c)) \in Nat
  BY <1>1, FS_Subset, FS_CardinalityType
<1>4. /\ IsFiniteSet(UnderWay(c)) /\ Cardinality(UnderWay(c)) \in Nat
      /\ Cardinality(UnderWay(c)) <= Cardinality(Req) /\ Cardinality(Req) \in Nat
  BY <1>2, FS_Subset, FS_CardinalityType
<1>5. Cardinality(Recent(c)) + Cardinality(UnderWay(c))
        <= MaxFails - 1 + Cardinality(Req)
  BY DEF AttemptsInv, AttemptsBounded, UnderWay, Trying
<1> QED
  BY <1>3, <1>4, <1>5, LimitsAssumption

LEMMA FewerAttempts ==
    ASSUME AttemptsInv, NEW c \in Client,
           Recent(c)' \subseteq Recent(c), UnderWay(c)' \subseteq UnderWay(c)
    PROVE  Cardinality(Recent(c)') + Cardinality(UnderWay(c)')
             <= MaxFails - 1 + Cardinality(Req)
<1>1. /\ Cardinality(Recent(c)') <= Cardinality(Recent(c))
      /\ IsFiniteSet(Recent(c)')
  BY Counts, FS_Subset
<1>2. /\ Cardinality(UnderWay(c)') <= Cardinality(UnderWay(c))
      /\ IsFiniteSet(UnderWay(c)')
  BY Counts, FS_Subset
<1>3. Cardinality(Recent(c)') \in Nat /\ Cardinality(UnderWay(c)') \in Nat
  BY <1>1, <1>2, FS_CardinalityType
<1> QED
  BY <1>1, <1>2, <1>3, Counts

(* Requests that were not under way are not after this step either, and    *)
(* those that are have the client they had.                                *)
NoneJoins ==
    \A q \in Req : req'[q].phase \in Trying =>
        req[q].phase \in Trying /\ req'[q].client = req[q].client

LEMMA MovesJoin ==
    ASSUME NEW p \in Req, NEW phases, Moves(p, phases), phases \cap Trying = {}
    PROVE  NoneJoins
BY DEF Moves, NoneJoins

(* Time passes, failures are forgotten, sign-ins end.                      *)
LEMMA AttemptsStay ==
    ASSUME LimitsInv, AttemptsInv, NoneJoins, now' \in Nat, now <= now',
           \A c \in Client : attempts'[c] \subseteq attempts[c]
    PROVE  AttemptsInv'
<1>1. ASSUME NEW c \in Client PROVE IsFiniteSet(attempts'[c])
  BY FS_Subset DEF AttemptsInv
<1>2. ASSUME NEW c \in Client
      PROVE  Cardinality(Recent(c)') + Cardinality(UnderWay(c)')
               <= MaxFails - 1 + Cardinality(Req)
  <2>1. UnderWay(c)' \subseteq UnderWay(c)
    BY DEF UnderWay, NoneJoins
  <2>2. Recent(c)' \subseteq Recent(c)
    <3>1. LoginWindow \in Nat /\ now \in Nat /\ \A f \in attempts[c] : f.at \in Nat
      BY LimitsAssumption DEF LimitsInv, Failure
    <3>2. \A f \in attempts[c] :
            f.at > now' - LoginWindow => f.at > now - LoginWindow
      BY <3>1
    <3> QED
      BY <3>2 DEF Recent
  <2> QED
    BY <2>1, <2>2, FewerAttempts
<1>3. AttemptsBounded'
  BY <1>2 DEF AttemptsBounded, UnderWay, Trying
<1> QED
  BY <1>1, <1>3 DEF AttemptsInv

-----------------------------------------------------------------------------
(* The composition.                                                        *)

WebOK == cookies \subseteq Cookie /\ requests \in Nat /\ workload \in Workloads

AccessInv == LimitsInv /\ UsersInv /\ KeysInv /\ AttemptsInv /\ WebOK

(* Whatever a step does, the limiters see one of their own steps, or none. *)
LEMMA LimitsStep == AccessInv /\ [Next]_vars => [LimitsNext]_limitVars
<1> SUFFICES ASSUME AccessInv, [Next]_vars PROVE LimitsNext \/ UNCHANGED limitVars
  OBVIOUS
<1>1. CASE UNCHANGED vars
  BY <1>1 DEF vars, limitVars
<1>2. CASE (BootStep \/ BootStart) /\ UNCHANGED <<limitVars, keyVars, webVars>>
  BY <1>2
<1>3. CASE /\ now < workload.time /\ Tick
           /\ UNCHANGED <<userVars, creds, req, keyVars, webVars>>
  BY <1>3 DEF LimitsNext
<1>4. CASE \E l \in Limiter :
              Cleanup(l) /\ UNCHANGED <<userVars, creds, req, keyVars, webVars>>
  BY <1>4 DEF LimitsNext
<1>5. CASE Crash
  BY <1>5 DEF Crash, LimitsNext
<1>6. ASSUME NEW p \in Req, Arrive(p) \/ HandleElsewhere(p)
      PROVE  UNCHANGED limitVars
  BY <1>6 DEF Arrive, HandleElsewhere
<1>7. ASSUME NEW p \in Req, Limited(p) PROVE LimitsNext
  <2>1. req[p].phase \in {"api", "upload", "report"}
    BY <1>7 DEF Limited
  <2>2. PICK l \in Limiter, c \in Client : l = req[p].phase /\ c = req[p].client
    BY <2>1, RequestCases, AccessAssumption DEF AccessInv, UsersInv, RequestsOK
  <2> QED
    BY <1>7, <2>2 DEF Limited, LimitsNext
<1>8. ASSUME NEW p \in Req, Login(p) PROVE LimitsNext \/ UNCHANGED limitVars
  <2>1. CASE LoginLookup(p) \/ LoginLegacy(p) \/ PasskeyGranted(p)
    BY <2>1 DEF LoginLookup, LoginLegacy, PasskeyGranted
  <2>2. CASE LoginAsk(p)
    <3>1. req[p].client \in Client
      BY <2>2, RequestCases DEF LoginAsk, At, AccessInv, UsersInv, RequestsOK
    <3> QED
      BY <2>2, <3>1 DEF LoginAsk, LimitsNext
  <2>3. CASE LoginFailed(p)
    <3>1. req[p].client \in Client
      BY <2>3, RequestCases DEF LoginFailed, AccessInv, UsersInv, RequestsOK
    <3> QED
      BY <2>3, <3>1 DEF LoginFailed, LimitsNext
  <2>4. CASE LoginGranted(p)
    <3>1. req[p].client \in Client
      BY <2>4, RequestCases DEF LoginGranted, AccessInv, UsersInv, RequestsOK
    <3> QED
      BY <2>4, <3>1 DEF LoginGranted, LimitsNext
  <2> QED
    BY <1>8, <2>1, <2>2, <2>3, <2>4 DEF Login
<1>9. ASSUME NEW p \in Req,
             \/ UserHandler(p) /\ UNCHANGED <<limitVars, keyVars, webVars>>
             \/ PasskeyHandler(p) /\ UNCHANGED <<limitVars, webVars>>
      PROVE  UNCHANGED limitVars
  BY <1>9
<1> QED
  BY <1>1, <1>2, <1>3, <1>4, <1>5, <1>6, <1>7, <1>8, <1>9 DEF Next

(* A step of a request that leaves users and ceremonies alone.             *)
LEMMA WebStep ==
    ASSUME AccessInv, NEW p \in Req, NEW phases, Moves(p, phases), RequestsOK',
           phases \cap {"enable", "check", "forget"} = {},
           UNCHANGED <<userVars, creds, keyVars>>
    PROVE  UsersInv' /\ KeysInv'
<1>1. SecretsInv'
  BY MovesSecrets DEF AccessInv, userVars
<1>2. UsersTypeOK'
  BY DEF AccessInv, UsersInv, UsersTypeOK, userVars
<1>3. KeysInv'
  BY KeysStay DEF AccessInv, KeysInv, PasskeysTypeOK
<1> QED
  BY <1>1, <1>2, <1>3 DEF UsersInv

(* What such a step shows of the rest, when no sign-in is admitted or      *)
(* fails.                                                                  *)
LEMMA QuietStep ==
    ASSUME AccessInv, NEW p \in Req, NEW phases, Moves(p, phases),
           phases \cap Trying = {}, UNCHANGED <<now, attempts>>
    PROVE  AttemptsInv'
<1>1. NoneJoins
  BY MovesJoin
<1>2. now' \in Nat /\ now <= now'
  BY DEF AccessInv, LimitsInv
<1> QED
  BY <1>1, <1>2, AttemptsStay DEF AccessInv

(* Middlewares *)

LEMMA ArriveKeeps ==
    ASSUME AccessInv, NEW p \in Req, Arrive(p)
    PROVE  UsersInv' /\ KeysInv' /\ AttemptsInv' /\ WebOK'
<1>1. PICK kind, c, who, phase, r :
         /\ kind \in workload.kinds /\ c \in Client
         /\ r = [phase |-> phase, kind |-> kind, who |-> who, client |-> c]
         /\ phase \in {"handler", "api"} /\ who \in Owner
         /\ req' = [req EXCEPT ![p] = r]
  BY DEF Arrive, AccessInv, WebOK, Cookie, Owner
<1>2. kind \in Kind
  BY <1>1, AccessAssumption DEF AccessInv, WebOK, Workload
<1>3. r \in Request /\ r.phase \in {"handler", "api"}
  BY <1>1, <1>2 DEF Request
<1>4. RequestsOK' /\ Moves(p, {"handler", "api"})
  BY <1>1, <1>3, Goes DEF AccessInv, UsersInv, Moves
<1>5. UsersInv' /\ KeysInv'
  BY <1>4, WebStep DEF Arrive
<1>6. AttemptsInv'
  BY <1>4, QuietStep DEF Arrive, limitVars, Trying
<1>7. WebOK'
  BY DEF Arrive, AccessInv, WebOK
<1> QED
  BY <1>5, <1>6, <1>7

LEMMA LimitedKeeps ==
    ASSUME AccessInv, NEW p \in Req, Limited(p)
    PROVE  UsersInv' /\ KeysInv' /\ AttemptsInv' /\ WebOK'
<1>1. PICK r \in Request :
         /\ r = req[p] /\ r.phase \in {"api", "upload", "report"}
         /\ r \in [phase : {"api", "upload", "report", "handler"}, kind : Kind,
                   who : Owner, client : Client]
  BY RequestCases DEF Limited, AccessInv, UsersInv, RequestsOK
<1>2. RequestsOK' /\ Moves(p, {"idle", "upload", "report", "handler"})
  <2>1. CASE Done(p)
    BY <2>1, Answered DEF AccessInv, UsersInv, Moves
  <2>2. CASE req' = [req EXCEPT ![p].phase = After(@, req[p].kind)]
    <3>1. PICK ph \in {"upload", "report", "handler"} : ph = After(r.phase, r.kind)
      BY DEF After
    <3>2. PICK x : x = [r EXCEPT !.phase = ph]
      OBVIOUS
    <3>3. x \in [phase : {"api", "upload", "report", "handler"}, kind : Kind,
                 who : Owner, client : Client] /\ x.phase = ph
      BY <1>1, <3>2
    <3>4. x \in Request
      BY <3>3 DEF Request
    <3>5. req' = [req EXCEPT ![p] = x]
      BY <1>1, <2>2, <3>1, <3>2
    <3> QED
      BY <3>3, <3>4, <3>5, Goes DEF AccessInv, UsersInv, Moves
  <2> QED
    BY <2>1, <2>2 DEF Limited
<1>3. UsersInv' /\ KeysInv'
  BY <1>2, WebStep DEF Limited
<1>4. AttemptsInv'
  BY <1>2, QuietStep DEF Limited, RateAllow, RateRefuse, Trying
<1>5. WebOK'
  BY DEF Limited, AccessInv, WebOK
<1> QED
  BY <1>3, <1>4, <1>5

LEMMA HandleElsewhereKeeps ==
    ASSUME AccessInv, NEW p \in Req, HandleElsewhere(p)
    PROVE  UsersInv' /\ KeysInv' /\ AttemptsInv' /\ WebOK'
<1>1. RequestsOK' /\ Moves(p, {"idle"})
  BY Answered DEF HandleElsewhere, AccessInv, UsersInv, Moves
<1>2. UsersInv' /\ KeysInv'
  BY <1>1, WebStep DEF HandleElsewhere
<1>3. AttemptsInv'
  BY <1>1, QuietStep DEF HandleElsewhere, limitVars, Trying
<1>4. WebOK'
  BY DEF HandleElsewhere, AccessInv, WebOK
<1> QED
  BY <1>2, <1>3, <1>4

-----------------------------------------------------------------------------
(* Sign-ins *)

LEMMA LoginAskKeeps ==
    ASSUME AccessInv, NEW p \in Req, LoginAsk(p)
    PROVE  UsersInv' /\ KeysInv' /\ AttemptsInv' /\ WebOK'
<1>1. PICK ok \in BOOLEAN, c \in Client :
         /\ c = req[p].client /\ LoginAllow(c, ok)
         /\ req' = [req EXCEPT ![p] =
                      IF ok THEN [phase |-> "lookup", client |-> c] ELSE Idle]
  BY RequestCases DEF LoginAsk, At, AccessInv, UsersInv, RequestsOK
<1>2. /\ ok = (Cardinality(Recent(c)) < MaxFails)
      /\ attempts' = [attempts EXCEPT ![c] = Recent(c)]
      /\ now' = now
  BY <1>1 DEF LoginAllow
<1>3. \A d \in Client : /\ attempts'[d] \subseteq attempts[d]
                        /\ Recent(d)' \subseteq Recent(d)
  BY <1>2 DEF AccessInv, LimitsInv, Recent
<1>4. WebOK'
  BY DEF LoginAsk, AccessInv, WebOK
<1>5. CASE ~ok
  <2>1. Done(p)
    BY <1>1, <1>5 DEF Done
  <2>2. RequestsOK' /\ Moves(p, {"idle"})
    BY <2>1, Answered DEF AccessInv, UsersInv, Moves
  <2>3. UsersInv' /\ KeysInv'
    BY <2>2, WebStep DEF LoginAsk
  <2>4. NoneJoins
    BY <2>2, MovesJoin DEF Trying
  <2>5. AttemptsInv'
    BY <1>2, <1>3, <2>4, AttemptsStay DEF AccessInv, LimitsInv
  <2> QED
    BY <1>4, <2>3, <2>5
<1>6. CASE ok
  <2>1. PICK r : r = [phase |-> "lookup", client |-> c]
    OBVIOUS
  <2>2. r \in Request /\ r.phase = "lookup" /\ r.client = c
    BY <2>1 DEF Request
  <2>3. RequestsOK /\ req' = [req EXCEPT ![p] = r]
    BY <1>1, <1>6, <2>1 DEF AccessInv, UsersInv
  <2>4. /\ RequestsOK' /\ Moves(p, {"lookup"}) /\ req'[p] = r
        /\ \A q \in Req \ {p} : req'[q] = req[q]
    BY <2>2, <2>3, Goes
  <2>5. UsersInv' /\ KeysInv'
    BY <2>4, WebStep DEF LoginAsk
  <2>6. \A d \in Client : IsFiniteSet(attempts'[d])
    BY <1>3, FS_Subset DEF AccessInv, AttemptsInv
  <2>7. ASSUME NEW d \in Client
        PROVE  Cardinality(Recent(d)') + Cardinality(UnderWay(d)')
                 <= MaxFails - 1 + Cardinality(Req)
    <3>1. CASE d = c
      <4>1. Cardinality(Recent(c)) < MaxFails
        BY <1>2, <1>6
      <4>2. IsFiniteSet(Recent(c)) /\ Cardinality(Recent(c)) \in Nat
            /\ MaxFails \in Nat /\ Cardinality(Req) \in Nat
        BY Counts DEF AccessInv
      <4>3. /\ Cardinality(Recent(c)') <= Cardinality(Recent(c))
            /\ Cardinality(Recent(c)') \in Nat
        BY <1>3, <4>2, FS_Subset, FS_CardinalityType
      <4>4. UnderWay(c)' \in SUBSET Req /\ IsFiniteSet(Req)
        BY UsersAssumption DEF UnderWay
      <4>5. /\ Cardinality(UnderWay(c)') <= Cardinality(Req)
            /\ Cardinality(UnderWay(c)') \in Nat
        BY <4>4, FS_Subset, FS_CardinalityType
      <4> QED
        BY <3>1, <4>1, <4>2, <4>3, <4>5
    <3>2. CASE d # c
      <4>1. UnderWay(d)' \subseteq UnderWay(d)
        BY <2>2, <2>4, <3>2 DEF UnderWay
      <4> QED
        BY <1>3, <4>1, FewerAttempts DEF AccessInv
    <3> QED
      BY <3>1, <3>2
  <2>8. AttemptsInv'
    BY <2>6, <2>7 DEF AttemptsInv, AttemptsBounded, UnderWay, Trying
  <2> QED
    BY <1>4, <2>5, <2>8
<1> QED
  BY <1>5, <1>6

(* Passwords and codes are compared while the failures stay as they are.   *)
LEMMA LoginLookupKeeps ==
    ASSUME AccessInv, NEW p \in Req, LoginLookup(p)
    PROVE  UsersInv' /\ KeysInv' /\ AttemptsInv' /\ WebOK'
<1>1. PICK c \in Client : c = req[p].client
  BY RequestCases DEF LoginLookup, AccessInv, UsersInv, RequestsOK
<1>2. PICK r \in Request :
         /\ req' = [req EXCEPT ![p] = r]
         /\ r.phase \in {"idle", "granted", "legacy", "failed"}
         /\ r.phase \in Trying => r.client = c
  <2>1. CASE Done(p)
    <3>1. Idle \in Request /\ Idle.phase = "idle"
      BY IdleTyped
    <3> QED
      BY <2>1, <3>1 DEF Done, Trying
  <2>2. ASSUME NEW u \in Live,
               req' = [req EXCEPT ![p] = [phase |-> "granted", client |-> c, user |-> u]]
        PROVE  \E r \in Request : /\ req' = [req EXCEPT ![p] = r]
                                  /\ r.phase = "granted"
    <3>1. PICK r : r = [phase |-> "granted", client |-> c, user |-> u]
      OBVIOUS
    <3>2. r \in Request /\ r.phase = "granted"
      BY <3>1 DEF Request, Owner, Live
    <3> QED
      BY <2>2, <3>1, <3>2
  <2>3. ASSUME NEW ph \in {"legacy", "failed"},
               req' = [req EXCEPT ![p] = [phase |-> ph, client |-> c]]
        PROVE  \E r \in Request : /\ req' = [req EXCEPT ![p] = r]
                                  /\ r.phase = ph /\ r.client = c
    <3>1. PICK r : r = [phase |-> ph, client |-> c]
      OBVIOUS
    <3>2. r \in Request /\ r.phase = ph /\ r.client = c
      BY <3>1 DEF Request
    <3> QED
      BY <2>3, <3>1, <3>2
  <2>4. \/ Done(p)
        \/ \E u \in Live :
              req' = [req EXCEPT ![p] = [phase |-> "granted", client |-> c, user |-> u]]
        \/ \E ph \in {"legacy", "failed"} :
              req' = [req EXCEPT ![p] = [phase |-> ph, client |-> c]]
    BY <1>1 DEF LoginLookup, GetUserByUsername
  <2> QED
    BY <2>1, <2>2, <2>3, <2>4 DEF Trying
<1>3. /\ RequestsOK' /\ Moves(p, {"idle", "granted", "legacy", "failed"})
      /\ req'[p] = r /\ \A q \in Req \ {p} : req'[q] = req[q]
  BY <1>2, Goes DEF AccessInv, UsersInv, Moves
<1>4. UsersInv' /\ KeysInv'
  BY <1>3, WebStep DEF LoginLookup
<1>5. NoneJoins
  BY <1>1, <1>2, <1>3 DEF NoneJoins, LoginLookup, Trying
<1>6. AttemptsInv'
  BY <1>5, AttemptsStay DEF AccessInv, LimitsInv, LoginLookup, limitVars
<1>7. WebOK'
  BY DEF LoginLookup, AccessInv, WebOK
<1> QED
  BY <1>4, <1>6, <1>7

LEMMA LeastNatural ==
    ASSUME NEW S \in SUBSET Nat, S # {}
    PROVE  \E m \in S : \A n \in S : m <= n
<1> DEFINE R == {ss \in Nat \X Nat : ss[1] < ss[2]}
<1>1. IsWellFoundedOn(R, Nat)
  BY NatLessThanWellFounded DEF OpToRel
<1>2. PICK m \in S : \A n \in S : <<n, m>> \notin R
  <2> HIDE DEF R
  <2> QED
    BY <1>1, WFMin
<1>3. \A n \in S : ~ (n < m)
  BY <1>2
<1> QED
  BY <1>3

(* ListUsers has a first row when it has any.                              *)
LEMMA FirstExists == Live # {} => FirstUser \in Live
<1> SUFFICES ASSUME Live # {} PROVE \E u \in Live : \A v \in Live : u <= v
  BY DEF FirstUser
<1>1. Live \in SUBSET Nat
  BY DEF Live, User
<1> QED
  BY <1>1, LeastNatural

LEMMA LoginLegacyKeeps ==
    ASSUME AccessInv, NEW p \in Req, LoginLegacy(p)
    PROVE  UsersInv' /\ KeysInv' /\ AttemptsInv' /\ WebOK'
<1>1. PICK c \in Client : c = req[p].client
  BY RequestCases DEF LoginLegacy, AccessInv, UsersInv, RequestsOK
<1>2. PICK u \in {Nobody} \cup (IF Live = {} THEN {} ELSE {FirstUser}) :
         req' = [req EXCEPT ![p] = [phase |-> "granted", client |-> c, user |-> u]]
  BY <1>1 DEF LoginLegacy
<1>3. u \in Owner
  <2>1. CASE Live = {}
    BY <1>2, <2>1 DEF Owner
  <2>2. CASE Live # {}
    <3>1. FirstUser \in Live
      BY <2>2, FirstExists
    <3> QED
      BY <1>2, <2>2, <3>1 DEF Owner, Live
  <2> QED
    BY <2>1, <2>2
<1>4. PICK r : r = [phase |-> "granted", client |-> c, user |-> u]
  OBVIOUS
<1>5. RequestsOK' /\ Moves(p, {"granted"})
  <2>1. r \in Request /\ r.phase = "granted"
    BY <1>3, <1>4 DEF Request
  <2>2. RequestsOK /\ req' = [req EXCEPT ![p] = r]
    BY <1>2, <1>4 DEF AccessInv, UsersInv
  <2> QED
    BY <2>1, <2>2, Goes
<1>6. UsersInv' /\ KeysInv'
  BY <1>5, WebStep DEF LoginLegacy
<1>7. AttemptsInv'
  BY <1>5, QuietStep DEF LoginLegacy, limitVars, Trying
<1>8. WebOK'
  BY DEF LoginLegacy, AccessInv, WebOK
<1> QED
  BY <1>6, <1>7, <1>8

(* One failure more, one sign-in under way less.                           *)
LEMMA LoginFailedKeeps ==
    ASSUME AccessInv, NEW p \in Req, LoginFailed(p)
    PROVE  UsersInv' /\ KeysInv' /\ AttemptsInv' /\ WebOK'
<1>1. PICK c \in Client : c = req[p].client /\ RecordFailure(c)
  BY RequestCases DEF LoginFailed, AccessInv, UsersInv, RequestsOK
<1>2. /\ RequestsOK' /\ Moves(p, {"idle"})
      /\ req'[p].phase = "idle" /\ \A q \in Req \ {p} : req'[q] = req[q]
  BY Answered DEF LoginFailed, AccessInv, UsersInv, Moves
<1>3. UsersInv' /\ KeysInv'
  BY <1>2, WebStep DEF LoginFailed
<1>4. WebOK'
  BY DEF LoginFailed, AccessInv, WebOK
<1>5. PICK f : /\ attempts' = [attempts EXCEPT ![c] = @ \cup {f}]
               /\ now' = now
  BY <1>1 DEF RecordFailure
<1>6. \A d \in Client : attempts'[d] \subseteq attempts[d] \cup {f}
  BY <1>5 DEF AccessInv, LimitsInv
<1>7. ASSUME NEW d \in Client PROVE IsFiniteSet(attempts'[d])
  <2>1. IsFiniteSet(attempts[d] \cup {f})
    BY FS_AddElement DEF AccessInv, AttemptsInv
  <2> QED
    BY <1>6, <2>1, FS_Subset
<1>8. \A d \in Client : UnderWay(d)' \subseteq UnderWay(d)
  BY <1>2 DEF UnderWay, Trying
<1>9. ASSUME NEW d \in Client
      PROVE  Cardinality(Recent(d)') + Cardinality(UnderWay(d)')
               <= MaxFails - 1 + Cardinality(Req)
  <2>1. CASE d = c
    <3>1. Recent(c)' \subseteq Recent(c) \cup {f}
      BY <1>5, <1>6 DEF Recent
    <3>2. UnderWay(c)' \subseteq UnderWay(c) \ {p} /\ p \in UnderWay(c)
      BY <1>1, <1>2, <1>8 DEF UnderWay, Trying, LoginFailed
    <3>3. /\ IsFiniteSet(Recent(c)) /\ Cardinality(Recent(c)) \in Nat
          /\ IsFiniteSet(UnderWay(c)) /\ Cardinality(UnderWay(c)) \in Nat
          /\ Cardinality(Req) \in Nat /\ MaxFails \in Nat
          /\ Cardinality(Recent(c)) + Cardinality(UnderWay(c))
               <= MaxFails - 1 + Cardinality(Req)
      BY Counts DEF AccessInv
    <3>4. /\ IsFiniteSet(Recent(c) \cup {f})
          /\ Cardinality(Recent(c) \cup {f}) <= Cardinality(Recent(c)) + 1
      <4>1. PICK S : S = Recent(c) /\ IsFiniteSet(S) /\ Cardinality(S) \in Nat
        BY <3>3
      <4>2. /\ IsFiniteSet(S \cup {f})
            /\ Cardinality(S \cup {f}) = IF f \in S THEN Cardinality(S)
                                          ELSE Cardinality(S) + 1
        BY <4>1, FS_AddElement
      <4>3. Cardinality(S \cup {f}) <= Cardinality(S) + 1
        BY <4>1, <4>2
      <4> QED
        BY <4>1, <4>2, <4>3
    <3>5. /\ Cardinality(Recent(c)') <= Cardinality(Recent(c) \cup {f})
          /\ Cardinality(Recent(c)') \in Nat /\ Cardinality(Recent(c) \cup {f}) \in Nat
      BY <3>1, <3>4, FS_Subset, FS_CardinalityType
    <3>6. /\ IsFiniteSet(UnderWay(c) \ {p})
          /\ Cardinality(UnderWay(c) \ {p}) = Cardinality(UnderWay(c)) - 1
      BY <3>2, <3>3, FS_RemoveElement
    <3>7. /\ Cardinality(UnderWay(c)') <= Cardinality(UnderWay(c) \ {p})
          /\ Cardinality(UnderWay(c)') \in Nat
      BY <3>2, <3>6, FS_Subset, FS_CardinalityType
    <3> QED
      BY <2>1, <3>3, <3>4, <3>5, <3>6, <3>7
  <2>2. CASE d # c
    <3>1. Recent(d)' \subseteq Recent(d)
      BY <1>5, <2>2 DEF Recent, AccessInv, LimitsInv
    <3> QED
      BY <1>8, <3>1, FewerAttempts DEF AccessInv
  <2> QED
    BY <2>1, <2>2
<1>10. AttemptsInv'
  BY <1>7, <1>9 DEF AttemptsInv, AttemptsBounded, UnderWay, Trying
<1> QED
  BY <1>3, <1>4, <1>10

LEMMA CookieTyped ==
    ASSUME AccessInv, NEW u \in Owner, SetCookie(u), UNCHANGED <<requests, workload>>
    PROVE  WebOK'
<1>1. now + SessionLife \in Nat
  BY AccessAssumption DEF AccessInv, LimitsInv
<1>2. [user |-> u, expires |-> now + SessionLife] \in Cookie
  BY <1>1 DEF Cookie
<1> QED
  BY <1>2 DEF SetCookie, AccessInv, WebOK

LEMMA LoginGrantedKeeps ==
    ASSUME AccessInv, NEW p \in Req, LoginGranted(p)
    PROVE  UsersInv' /\ KeysInv' /\ AttemptsInv' /\ WebOK'
<1>1. PICK c \in Client, u \in Owner :
         c = req[p].client /\ u = req[p].user /\ Reset(c) /\ SetCookie(u)
  BY RequestCases DEF LoginGranted, AccessInv, UsersInv, RequestsOK
<1>2. RequestsOK' /\ Moves(p, {"idle"})
  BY Answered DEF LoginGranted, AccessInv, UsersInv, Moves
<1>3. UsersInv' /\ KeysInv'
  BY <1>2, WebStep DEF LoginGranted
<1>4. WebOK'
  BY <1>1, CookieTyped DEF LoginGranted
<1>5. NoneJoins
  BY <1>2, MovesJoin DEF Trying
<1>6. now' = now /\ \A d \in Client : attempts'[d] \subseteq attempts[d]
  BY <1>1 DEF Reset, AccessInv, LimitsInv
<1>7. AttemptsInv'
  BY <1>5, <1>6, AttemptsStay DEF AccessInv, LimitsInv
<1> QED
  BY <1>3, <1>4, <1>7

LEMMA PasskeyGrantedKeeps ==
    ASSUME AccessInv, NEW p \in Req, PasskeyGranted(p)
    PROVE  UsersInv' /\ KeysInv' /\ AttemptsInv' /\ WebOK'
<1>1. req[p].user \in Owner
  BY RequestCases DEF PasskeyGranted, AccessInv, UsersInv, RequestsOK, Owner
<1>2. RequestsOK' /\ Moves(p, {"idle"})
  BY Answered DEF PasskeyGranted, AccessInv, UsersInv, Moves
<1>3. UsersInv' /\ KeysInv'
  BY <1>2, WebStep DEF PasskeyGranted
<1>4. WebOK'
  <2>1. PICK u \in Owner : u = req[p].user
    BY <1>1
  <2> QED
    BY <2>1, CookieTyped DEF PasskeyGranted
<1>5. AttemptsInv'
  BY <1>2, QuietStep DEF PasskeyGranted, limitVars, Trying
<1> QED
  BY <1>3, <1>4, <1>5

-----------------------------------------------------------------------------
(* Steps of no request *)

LEMMA CrashKeeps ==
    ASSUME AccessInv, Crash
    PROVE  UsersInv' /\ KeysInv' /\ AttemptsInv' /\ WebOK'
<1>1. RequestsOK' /\ \A q \in Req : req'[q] = Idle /\ req'[q].phase = "idle"
  BY IdleTyped DEF Crash, RequestsOK
<1>2. SecretsInv'
  BY <1>1, SecretsStay DEF Crash, AccessInv, UsersInv
<1>3. UsersTypeOK'
  <2>1. boot' \in [phase : {"count", "create", "serve", "down"}]
    BY DEF Crash
  <2>2. crashes' \in Nat
    BY DEF Crash, AccessInv, UsersInv, UsersTypeOK
  <2> QED
    BY <2>1, <2>2 DEF Crash, AccessInv, UsersInv, UsersTypeOK, tables
<1>4. /\ \A k \in Key : sessions'[k] = None
      /\ sessions' \in [Key -> Ceremony \cup {None}]
      /\ UNCHANGED <<begun, finished, creds>>
  BY DEF Crash, PasskeysRestart
<1>5. PasskeysTypeOK'
  BY <1>4 DEF AccessInv, KeysInv, PasskeysTypeOK
<1>6. CeremoniesInv'
  BY <1>1, <1>4 DEF AccessInv, KeysInv, CeremoniesInv, FutureOK, MapOK, ChecksOK,
                    ForgetsOK, Checking
<1>7. NoneJoins
  BY <1>1 DEF NoneJoins, Trying
<1>8. now' = now /\ \A c \in Client : attempts'[c] = {}
  BY DEF Crash, LimitsRestart
<1>9. AttemptsInv'
  BY <1>7, <1>8, AttemptsStay DEF AccessInv, LimitsInv
<1>10. WebOK'
  BY DEF Crash, AccessInv, WebOK, webVars
<1> QED
  BY <1>1, <1>2, <1>3, <1>5, <1>6, <1>9, <1>10 DEF UsersInv, KeysInv

LEMMA BootedKeeps ==
    ASSUME AccessInv,
           (BootStep \/ BootStart) /\ UNCHANGED <<limitVars, keyVars, webVars>>
    PROVE  UsersInv' /\ KeysInv' /\ AttemptsInv' /\ WebOK'
<1>1. UsersInv' /\ req' = req
  BY BootKeeps DEF AccessInv
<1>2. creds' = creds
  BY DEF BootStep, BootStart, BootCount, BootCreate, BootAssign
<1>3. CeremoniesInv'
  BY <1>1, CeremoniesStay DEF Keeps, AccessInv, KeysInv
<1>4. KeysInv'
  BY <1>1, <1>2, <1>3 DEF AccessInv, UsersInv, KeysInv, PasskeysTypeOK, keyVars
<1>5. NoneJoins
  BY <1>1 DEF NoneJoins
<1>6. AttemptsInv'
  BY <1>5, AttemptsStay DEF AccessInv, LimitsInv, limitVars
<1>7. WebOK'
  BY DEF AccessInv, WebOK, webVars
<1> QED
  BY <1>1, <1>4, <1>6, <1>7

(* The clock and the clean-up goroutine. *)
LEMMA TimersKeep ==
    ASSUME AccessInv, UNCHANGED <<userVars, creds, req, keyVars, webVars>>,
           Tick \/ (\E l \in Limiter : Cleanup(l)) \/ UNCHANGED limitVars
    PROVE  UsersInv' /\ KeysInv' /\ AttemptsInv' /\ WebOK'
<1>1. RequestsOK'
  BY DEF AccessInv, UsersInv, RequestsOK
<1>2. SecretsInv' /\ CeremoniesInv'
  BY SecretsStay, CeremoniesStay
  DEF AccessInv, UsersInv, KeysInv, userVars, Keeps
<1>3. UsersTypeOK' /\ PasskeysTypeOK'
  BY DEF AccessInv, UsersInv, KeysInv, UsersTypeOK, PasskeysTypeOK, userVars, keyVars
<1>4. NoneJoins
  BY DEF NoneJoins
<1>5. now' \in Nat /\ now <= now' /\ attempts' = attempts
  BY DEF Tick, Cleanup, limitVars, AccessInv, LimitsInv
<1>6. AttemptsInv'
  BY <1>4, <1>5, AttemptsStay DEF AccessInv
<1>7. WebOK'
  BY DEF AccessInv, WebOK, webVars
<1> QED
  BY <1>1, <1>2, <1>3, <1>6, <1>7 DEF UsersInv, KeysInv

-----------------------------------------------------------------------------
(* The handlers, as steps of the whole *)

(* Deleting a user is the one handler of users that touches passkeys.      *)
LEMMA UserStep ==
    ASSUME AccessInv, NEW p \in Req,
           UserHandler(p) /\ UNCHANGED <<limitVars, keyVars, webVars>>
    PROVE  UsersInv' /\ KeysInv' /\ AttemptsInv' /\ WebOK'
<1>1. UsersInv' /\ Moves(p, {"idle", "toggle", "enable", "update"})
  BY UserHandlerKeeps DEF AccessInv
<1>2. creds' \subseteq creds
  BY DEF UserHandler, Refuse, HandleCreateUser, HandleDeleteUser, DeleteUserRow,
         ToggleRead, ToggleWrite, HandleSetupTOTP, VerifyTOTPRead, VerifyTOTPWrite,
         HandleDisableTOTP, HandleCreateAccount, UpdateAccountRead,
         UpdateAccountWrite, DeleteAccountRow, HandleCreateGoal, HandleDeleteGoal
<1>3. creds' \subseteq Credential
  BY <1>2 DEF AccessInv, KeysInv, PasskeysTypeOK
<1>4. KeysInv'
  BY <1>1, <1>3, KeysStay DEF AccessInv, UsersInv
<1>5. AttemptsInv'
  BY <1>1, QuietStep DEF limitVars, Trying
<1>6. WebOK'
  BY DEF AccessInv, WebOK, webVars
<1> QED
  BY <1>1, <1>4, <1>5, <1>6

LEMMA PasskeyStep ==
    ASSUME AccessInv, NEW p \in Req,
           PasskeyHandler(p) /\ UNCHANGED <<limitVars, webVars>>
    PROVE  UsersInv' /\ KeysInv' /\ AttemptsInv' /\ WebOK'
<1>1. KeysInv' /\ Moves(p, PasskeyPhases) /\ UNCHANGED userVars
  BY PasskeyHandlerKeeps DEF AccessInv
<1>2. SecretsInv'
  BY <1>1, MovesSecrets DEF AccessInv, userVars, PasskeyPhases
<1>3. UsersTypeOK'
  BY <1>1 DEF AccessInv, UsersInv, UsersTypeOK, userVars
<1>4. AttemptsInv'
  BY <1>1, QuietStep DEF limitVars, Trying, PasskeyPhases
<1>5. WebOK'
  BY DEF AccessInv, WebOK, webVars
<1> QED
  BY <1>1, <1>2, <1>3, <1>4, <1>5 DEF UsersInv, KeysInv

LEMMA AccessInductive == AccessInv /\ [Next]_vars => AccessInv'
<1> SUFFICES ASSUME AccessInv, [Next]_vars PROVE AccessInv'
  OBVIOUS
<1>1. LimitsInv'
  BY LimitsStep, LimitsInductive DEF AccessInv
<1> SUFFICES UsersInv' /\ KeysInv' /\ AttemptsInv' /\ WebOK'
  BY <1>1 DEF AccessInv
<1>2. CASE UNCHANGED vars
  BY <1>2, TimersKeep DEF vars, webVars
<1>3. CASE (BootStep \/ BootStart) /\ UNCHANGED <<limitVars, keyVars, webVars>>
  BY <1>3, BootedKeeps
<1>4. CASE \/ /\ now < workload.time /\ Tick
              /\ UNCHANGED <<userVars, creds, req, keyVars, webVars>>
           \/ \E l \in Limiter :
                 Cleanup(l) /\ UNCHANGED <<userVars, creds, req, keyVars, webVars>>
  BY <1>4, TimersKeep
<1>5. CASE Crash
  BY <1>5, CrashKeeps
<1>6. ASSUME NEW p \in Req, Arrive(p) \/ Limited(p) \/ HandleElsewhere(p)
      PROVE  UsersInv' /\ KeysInv' /\ AttemptsInv' /\ WebOK'
  BY <1>6, ArriveKeeps, LimitedKeeps, HandleElsewhereKeeps
<1>7. ASSUME NEW p \in Req, Login(p)
      PROVE  UsersInv' /\ KeysInv' /\ AttemptsInv' /\ WebOK'
  BY <1>7, LoginAskKeeps, LoginLookupKeeps, LoginLegacyKeeps, LoginFailedKeeps,
     LoginGrantedKeeps, PasskeyGrantedKeeps DEF Login
<1>8. ASSUME NEW p \in Req,
             \/ UserHandler(p) /\ UNCHANGED <<limitVars, keyVars, webVars>>
             \/ PasskeyHandler(p) /\ UNCHANGED <<limitVars, webVars>>
      PROVE  UsersInv' /\ KeysInv' /\ AttemptsInv' /\ WebOK'
  BY <1>8, UserStep, PasskeyStep
<1> QED
  BY <1>2, <1>3, <1>4, <1>5, <1>6, <1>7, <1>8 DEF Next

-----------------------------------------------------------------------------
(* The first states *)

LEMMA UsersInitial ==
    ASSUME NEW n \in 0 .. MaxUsers, UsersInit(n, Names)
    PROVE  UsersInv /\ creds \subseteq Credential
<1>1. MaxUsers \in Nat /\ Names \in [User -> Name] /\ n \in Nat
  BY UsersAssumption, AccessAssumption
<1>2. RequestsOK /\ \A q \in Req : req[q].phase = "idle"
  BY IdleTyped DEF UsersInit, RequestsOK
<1>3. ASSUME NEW u \in User
      PROVE  IF u > n THEN users[u] = NoUser
             ELSE users[u] \in UserRow /\ users[u].live = TRUE /\ users[u].totp = FALSE
  <2>1. CASE u > n
    BY <2>1 DEF UsersInit
  <2>2. CASE ~(u > n)
    <3>1. PICK row : row = [live |-> TRUE, name |-> Names[u], active |-> TRUE,
                            role |-> IF u = 1 THEN "admin" ELSE "member",
                            password |-> IF u = 1 THEN "master" ELSE "own",
                            secret |-> NoSecret, totp |-> FALSE]
      OBVIOUS
    <3>2. users[u] = row
      BY <2>2, <3>1 DEF UsersInit
    <3>3. row \in UserRow /\ row.live = TRUE /\ row.totp = FALSE
      BY <1>1, <3>1 DEF UserRow
    <3> QED
      BY <2>2, <3>2, <3>3
  <2> QED
    BY <2>1, <2>2
<1>4. users \in [User -> UserRow \cup {NoUser}]
  <2>1. \A u \in User : users[u] \in UserRow \cup {NoUser}
    BY <1>3
  <2>2. users = [u \in User |-> users[u]]
    BY DEF UsersInit
  <2> QED
    BY <2>1, <2>2
<1>5. NoUser.live = FALSE
  BY DEF NoUser
<1>6. \A u \in Live : u \in User /\ u <= n /\ users[u].totp = FALSE
  <2>1. SUFFICES ASSUME NEW u \in User, users[u].live
                 PROVE  u <= n /\ users[u].totp = FALSE
    BY DEF Live
  <2>2. u \in Int
    BY <1>1 DEF User
  <2>3. ~(u > n)
    BY <1>3, <1>5, <2>1
  <2>4. u <= n
    BY <1>1, <2>2, <2>3
  <2>5. users[u].totp = FALSE
    BY <1>3, <2>3
  <2> QED
    BY <2>4, <2>5
<1>7. SecretsInv
  <2>1. created = n
    BY DEF UsersInit
  <2> QED
    BY <1>2, <1>6, <2>1 DEF SecretsInv
<1>8. accounts \in [AccountId -> AccountRow \cup {NoRow}]
  <2>1. [live |-> TRUE, owner |-> Nobody, cols |-> [k \in Column |-> 0]] \in AccountRow
    BY DEF AccountRow, Owner
  <2> QED
    BY <2>1 DEF UsersInit
<1>9. UsersTypeOK
  <2>1. created \in 0 .. MaxUsers /\ secrets \in 0 .. MaxSecrets
    BY <1>1, UsersAssumption DEF UsersInit
  <2>2. goals \in [GoalId -> GoalRow \cup {NoRow}]
    BY DEF UsersInit
  <2>3. others \in [{"price_alerts", "wealth_reports"} -> SUBSET Owner]
    BY DEF UsersInit, Owner
  <2>4. boot \in [phase : {"count", "create", "serve", "down"}]
    BY DEF UsersInit
  <2>5. crashes \in Nat /\ confirmed \subseteq Secret /\ disturbed \subseteq User
    BY DEF UsersInit
  <2> QED
    BY <1>4, <1>8, <2>1, <2>2, <2>3, <2>4, <2>5 DEF UsersTypeOK
<1>10. creds \subseteq Credential
  <2>1. 0 \in 0 .. MaxCeremonies
    BY PasskeysAssumption
  <2>2. \A u \in 1 .. n : u \in User
    BY <1>1 DEF User
  <2> QED
    BY <2>1, <2>2 DEF UsersInit, Credential
<1> QED
  BY <1>2, <1>7, <1>9, <1>10 DEF UsersInv

LEMMA AccessInitial == Init => AccessInv
<1> SUFFICES ASSUME Init PROVE AccessInv
  OBVIOUS
<1>1. LimitsInv
  BY LimitsInitial DEF Init
<1>2. workload \in Workload /\ workload.users \in 0 .. MaxUsers
  BY AccessAssumption DEF Init, Workload
<1>3. UsersInv /\ creds \subseteq Credential
  BY <1>2, UsersInitial DEF Init
<1>4. RequestsOK /\ \A q \in Req : req[q].phase = "idle"
  BY IdleTyped DEF Init, UsersInit, RequestsOK
<1>5. sessions = [k \in Key |-> None] /\ begun = 0 /\ finished = [c \in Challenge |-> 0]
  BY DEF Init, PasskeysInit
<1>6. PasskeysTypeOK
  BY <1>3, <1>5, PasskeysAssumption DEF PasskeysTypeOK
<1>7. CeremoniesInv
  BY <1>4, <1>5 DEF CeremoniesInv, FutureOK, MapOK, ChecksOK, ForgetsOK, Checking
<1>8. AttemptsInv
  <2>1. \A c \in Client : attempts[c] = {} /\ IsFiniteSet(attempts[c])
    BY FS_EmptySet DEF Init, LimitsInit
  <2>2. ASSUME NEW c \in Client
        PROVE  Cardinality(Recent(c)) + Cardinality(UnderWay(c))
                 <= MaxFails - 1 + Cardinality(Req)
    <3>1. Recent(c) = {} /\ UnderWay(c) = {}
      BY <1>4, <2>1 DEF Recent, UnderWay, Trying
    <3>2. Cardinality(Req) \in Nat /\ MaxFails \in Nat \ {0}
      BY UsersAssumption, LimitsAssumption, FS_CardinalityType
    <3> QED
      BY <3>1, <3>2, FS_EmptySet
  <2> QED
    BY <2>1, <2>2 DEF AttemptsInv, AttemptsBounded, UnderWay, Trying
<1>9. WebOK
  <2>1. \A u \in 1 .. workload.users : [user |-> u, expires |-> SessionLife] \in Cookie
    BY <1>2, AccessAssumption, UsersAssumption DEF Cookie, Owner, User
  <2> QED
    BY <2>1 DEF Init, WebOK
<1> QED
  BY <1>1, <1>3, <1>4, <1>6, <1>7, <1>8, <1>9 DEF AccessInv, KeysInv

LEMMA AccessInvariant == Spec => []AccessInv
BY AccessInitial, AccessInductive, PTL DEF Spec

-----------------------------------------------------------------------------
(* Theorems *)

(* Requests, users, passkeys, cookies and limiters keep their types: no    *)
(* handler leaves a row, a ceremony or a request that is none.             *)
THEOREM AccessTypeCorrect == Spec => []TypeOK
<1>1. AccessInv => TypeOK
  BY DEF AccessInv, LimitsInv, UsersInv, KeysInv, WebOK, RequestsOK, TypeOK, LimitsTypeOK
<1> QED
  BY <1>1, AccessInvariant, PTL

(* However many sign-ins are sent at once, the failures of a client in 15  *)
(* minutes exceed the limit by no more than the requests that were under   *)
(* way together (auth.go:50-103).                                          *)
THEOREM FailuresBounded == Spec => []AttemptsBounded
<1>1. AccessInv => AttemptsBounded
  BY DEF AccessInv, AttemptsInv
<1> QED
  BY <1>1, AccessInvariant, PTL

(* Nobody is asked for a code of a secret that was never confirmed, unless *)
(* a set-up was repeated or overlapped the verification                    *)
(* (users.go:205-306).                                                     *)
THEOREM SecondFactorConfirmed == Spec => []SecondFactorUsable
<1>1. AccessInv => SecondFactorUsable
  BY DEF AccessInv, UsersInv, SecretsInv, SecondFactorUsable
<1> QED
  BY <1>1, AccessInvariant, PTL

(* LoadAndDelete hands a ceremony to one request, so that only a named     *)
(* sign-in can be answered more than once (webauthn.go:98-224).            *)
THEOREM CeremoniesAnsweredOnce == Spec => []AnsweredOnce
<1>1. AccessInv => AnsweredOnce
  <2> SUFFICES ASSUME AccessInv, NEW p \in Req, Checking(p)
               PROVE  /\ Unanswered(req[p].ceremony)
                      /\ \A q \in Req \ {p} :
                            Checking(q) => req[q].ceremony # req[p].ceremony
    BY DEF AnsweredOnce, Checking, Unanswered
  <2> QED
    BY DEF AccessInv, KeysInv, CeremoniesInv, ChecksOK
<1> QED
  BY <1>1, AccessInvariant, PTL

(* Whatever requests do, the limiters they share implement Quota           *)
(* (ratelimit.go:61-73, auth/ratelimit.go:27-58).                          *)
THEOREM AccessKeepsQuota == Spec => QuotaKept
<1>1. Init => LimitsInit
  BY DEF Init
<1>2. Spec => LimitsSpec
  BY <1>1, LimitsStep, AccessInvariant, PTL DEF Spec, LimitsSpec
<1> QED
  BY <1>2, LimitersKeepQuota

(* CheckNamed is the only step that refuses an answer for its session.     *)
LEMMA Refuses ==
    ASSUME AccessInv, [Next]_vars, NEW p \in Req,
           req'[p].phase = "refused", req[p].phase # "refused"
    PROVE  CheckNamed(p)
<1>1. RequestsOK
  BY DEF AccessInv, UsersInv
<1>2. ~ UNCHANGED req
  OBVIOUS
<1>3. CASE \/ UNCHANGED vars
           \/ (BootStep \/ BootStart) /\ UNCHANGED <<limitVars, keyVars, webVars>>
           \/ /\ now < workload.time /\ Tick
              /\ UNCHANGED <<userVars, creds, req, keyVars, webVars>>
           \/ \E l \in Limiter :
                 Cleanup(l) /\ UNCHANGED <<userVars, creds, req, keyVars, webVars>>
  BY <1>2, <1>3 DEF vars, BootStep, BootStart, BootCount, BootCreate, BootAssign
<1>4. CASE Crash
  BY <1>4, IdleTyped DEF Crash
<1>5. ASSUME NEW q \in Req, Arrive(q) PROVE FALSE
  BY <1>1, <1>5 DEF Arrive, RequestsOK
<1>6. ASSUME NEW q \in Req, Limited(q) PROVE FALSE
  <2>1. PICK r \in Request :
           /\ r = req[q]
           /\ r \in [phase : {"api", "upload", "report", "handler"}, kind : Kind,
                     who : Owner, client : Client]
    BY <1>6, RequestCases DEF Limited, AccessInv, UsersInv, RequestsOK
  <2>2. CASE Done(q)
    BY <1>1, <2>2, Answered
  <2>3. CASE req' = [req EXCEPT ![q].phase = After(@, req[q].kind)]
    BY <1>1, <2>1, <2>3 DEF RequestsOK, After
  <2> QED
    BY <1>6, <2>2, <2>3 DEF Limited
<1>7. ASSUME NEW q \in Req, HandleElsewhere(q) PROVE FALSE
  BY <1>1, <1>7, Answered DEF HandleElsewhere
<1>8. ASSUME NEW q \in Req, Login(q) PROVE FALSE
  <2>1. CASE LoginFailed(q) \/ LoginGranted(q) \/ PasskeyGranted(q)
    BY <1>1, <2>1, Answered DEF LoginFailed, LoginGranted, PasskeyGranted
  <2>2. CASE LoginAsk(q)
    BY <1>1, <2>2, IdleTyped DEF LoginAsk, RequestsOK
  <2>3. CASE LoginLookup(q)
    BY <1>1, <2>3, IdleTyped DEF LoginLookup, Done, RequestsOK
  <2>4. CASE LoginLegacy(q)
    BY <1>1, <2>4 DEF LoginLegacy, RequestsOK
  <2> QED
    BY <1>8, <2>1, <2>2, <2>3, <2>4 DEF Login
<1>9. ASSUME NEW q \in Req, UserHandler(q) PROVE FALSE
  BY <1>9, UserHandlerKeeps DEF AccessInv, Moves
<1>10. ASSUME NEW q \in Req, PasskeyHandler(q) PROVE CheckNamed(p)
  <2>1. CASE CheckNamed(q)
    BY <2>1, CheckNamedKeeps DEF AccessInv, Moves
  <2>2. CASE ~CheckNamed(q)
    BY <1>10, <2>2, BeginRegistrationKeeps, BeginDiscoverableKeeps, BeginNamedKeeps,
       TakeKeeps, FinishRegistrationKeeps, FinishDiscoverableKeeps, ForgetNamedKeeps,
       OthersKeep
    DEF AccessInv, Moves, PasskeyHandler
  <2> QED
    BY <2>1, <2>2
<1> QED
  BY <1>3, <1>4, <1>5, <1>6, <1>7, <1>8, <1>9, <1>10 DEF Next

(* The right answer to a pending named sign-in is refused only while the   *)
(* session of another user is in the map, or it came too late              *)
(* (webauthn.go:218-232).                                                  *)
THEOREM RefusalsShared == Spec => RefusedOnlyIfShared
<1> DEFINE A == \A p \in Req :
                  req'[p].phase = "refused" /\ req[p].phase # "refused" =>
                    LET k == req'[p].cred IN
                    \/ k.user \notin Live
                    \/ ~Answers(sessions[k.user], req'[p].challenge, k)
                    \/ \E u \in Live \ {k.user} : sessions[u] # None
<1>1. AccessInv /\ [Next]_vars => A
  <2> SUFFICES ASSUME AccessInv, [Next]_vars, NEW p \in Req,
                      req'[p].phase = "refused", req[p].phase # "refused",
                      req'[p].cred.user \in Live,
                      Answers(sessions[req'[p].cred.user], req'[p].challenge,
                              req'[p].cred)
               PROVE  \E u \in Live \ {req'[p].cred.user} : sessions[u] # None
    OBVIOUS
  <2>1. CheckNamed(p) /\ RequestsOK
    BY Refuses DEF AccessInv, UsersInv
  <2>2. PICK challenge \in 1 .. begun, k \in creds, u \in Candidates :
           req' = [req EXCEPT ![p] =
                     IF Answers(sessions[u], challenge, k)
                     THEN [phase |-> "forget", user |-> u, challenge |-> challenge]
                     ELSE [phase |-> "refused", challenge |-> challenge, cred |-> k]]
    BY <2>1 DEF CheckNamed
  <2>3. ~Answers(sessions[u], challenge, k)
    BY <2>1, <2>2 DEF RequestsOK
  <2>4. req'[p] = [phase |-> "refused", challenge |-> challenge, cred |-> k]
    BY <2>1, <2>2, <2>3 DEF RequestsOK
  <2>5. req'[p].cred = k /\ req'[p].challenge = challenge
    BY <2>4
  <2>6. u # k.user
    BY <2>3, <2>5
  <2> QED
    BY <2>2, <2>5, <2>6 DEF Candidates
<1>2. AccessInv /\ [Next]_vars => [A]_vars
  BY <1>1
<1> QED
  BY <1>2, AccessInvariant, PTL DEF Spec, RefusedOnlyIfShared
=============================================================================
