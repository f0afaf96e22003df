-------------------------------- MODULE Access --------------------------------
(***************************************************************************)
(* Requests on their way through the middlewares and sign-in               *)
(* (cmd/server/main.go, handler/auth.go, auth/auth.go), composed of the    *)
(* limiters (Limits), the users (Users) and their passkeys (Passkeys).     *)
(***************************************************************************)
EXTENDS Limits, Passkeys

CONSTANTS
    SessionLife,    \* 30 days
    Names,          \* names of the users of an initial database
    Workloads       \* bounds, see Workload

VARIABLES
    cookies,    \* session cookies issued: user and expiry
    requests,   \* requests made so far
    workload    \* the bounds of this behaviour

vars == <<limitVars, userVars, creds, req, keyVars, cookies, requests, workload>>

PublicKinds == {"login", "begin login", "finish login"}
UploadKinds == {"upload"}
ReportKinds == {"report"}
Kind == PublicKinds \cup UploadKinds \cup ReportKinds \cup UserKinds \cup PasskeyKinds

(* A behaviour starts with a number of users and is bounded by the kinds   *)
(* and the number of requests, the time and the restarts it may see.       *)
Workload == [users : 0 .. MaxUsers, kinds : SUBSET Kind, requests : Nat,
             time : Nat, crashes : Nat]

ASSUME AccessAssumption ==
    /\ {"api", "upload", "report"} \subseteq Limiter
    /\ SessionLife \in Nat \ {0}
    /\ Names \in [User -> Name]
    /\ Workloads \subseteq Workload

Cookie == [user : Owner, expires : Nat]

Request ==
    [phase : {"api", "upload", "report", "handler"}, kind : Kind, who : Owner,
     client : Client]
      \cup [phase : {"toggle"}, user : User, active : BOOLEAN]
      \cup [phase : {"enable", "cookie"}, user : User]
      \cup [phase : {"update"}, account : AccountId, cols : [Column -> 0 .. 1]]
      \cup [phase : {"check"}, ceremony : Ceremony]
      \cup [phase : {"forget"}, user : User, challenge : Challenge]
      \cup [phase : {"refused"}, challenge : Challenge, cred : Credential]
      \cup [phase : {"lookup", "legacy", "failed"}, client : Client]
      \cup [phase : {"granted"}, client : Client, user : Owner]
      \cup {Idle}

TypeOK ==
    /\ LimitsTypeOK
    /\ UsersTypeOK
    /\ PasskeysTypeOK
    /\ req \in [Req -> Request]
    /\ cookies \subseteq Cookie
    /\ requests \in Nat
    /\ workload \in Workloads

Init ==
    /\ LimitsInit
    /\ workload \in Workloads
    /\ UsersInit(workload.users, Names)
    /\ PasskeysInit
    /\ cookies = {[user |-> u, expires |-> SessionLife] : u \in 1 .. workload.users}
    /\ requests = 0

-----------------------------------------------------------------------------
(* Middlewares *)

Serving == boot.phase = "serve"

(* VerifyTokenWithUser. *)
Valid(cookie) == now < cookie.expires

(* A protected route takes a valid cookie (AuthMiddleware), then a token   *)
(* of the API limiter; the public ones take neither.                       *)
Arrive(p) ==
    /\ Serving /\ req[p] = Idle
    /\ requests < workload.requests
    /\ requests' = requests + 1
    /\ \E kind \in workload.kinds, c \in Client :
          \/ /\ kind \in PublicKinds
             /\ req' = [req EXCEPT ![p] =
                          [phase |-> "handler", kind |-> kind, who |-> Nobody,
                           client |-> c]]
          \/ /\ kind \notin PublicKinds
             /\ \E cookie \in cookies :
                   /\ Valid(cookie)
                   /\ req' = [req EXCEPT ![p] =
                                [phase |-> "api", kind |-> kind,
                                 who |-> cookie.user, client |-> c]]
    /\ UNCHANGED <<limitVars, userVars, creds, keyVars, cookies, workload>>

(* Imports and report generation have a limiter of their own after that.   *)
After(phase, kind) ==
    CASE phase = "api" /\ kind \in UploadKinds -> "upload"
      [] phase = "api" /\ kind \in ReportKinds -> "report"
      [] OTHER -> "handler"

Limited(p) ==
    /\ req[p].phase \in {"api", "upload", "report"}
    /\ \/ /\ RateAllow(req[p].phase, req[p].client)
          /\ req' = [req EXCEPT ![p].phase = After(@, req[p].kind)]
       \/ /\ RateRefuse(req[p].phase, req[p].client)
          /\ Done(p)
    /\ UNCHANGED <<userVars, creds, keyVars, cookies, requests, workload>>

(* What Import and Reports are about is no concern here. *)
HandleElsewhere(p) ==
    /\ req[p].phase = "handler"
    /\ req[p].kind \in UploadKinds \cup ReportKinds
    /\ Done(p)
    /\ UNCHANGED <<limitVars, userVars, creds, keyVars, cookies, requests, workload>>

-----------------------------------------------------------------------------
(* HandleLogin *)

LoginAsk(p) ==
    /\ At(p, "login")
    /\ \E ok \in BOOLEAN :
          /\ LoginAllow(req[p].client, ok)
          /\ req' = [req EXCEPT ![p] =
                       IF ok THEN [phase |-> "lookup", client |-> req[p].client]
                       ELSE Idle]
    /\ UNCHANGED <<userVars, creds, keyVars, cookies, requests, workload>>

(* The bodies of a request: a password someone may have, and a TOTP code.  *)
Body == [name : Name, password : {"own", "master", "wrong"},
         code : 0 .. secrets]

Matches(u, body) == users[u].active /\ users[u].password = body.password

CodeOK(u, body) ==
    users[u].totp => body.code # NoSecret /\ body.code = users[u].secret

(* A body that does not parse, and a code that is missing or wrong, are    *)
(* answered at once, and are no failed attempt.                            *)
LoginLookup(p) ==
    /\ req[p].phase = "lookup"
    /\ \/ Done(p)
       \/ \E body \in Body :
          LET c == req[p].client
              known == {u \in GetUserByUsername(body.name) : Matches(u, body)}
          IN  \/ (\E u \in known : ~CodeOK(u, body)) /\ Done(p)
              \/ \E u \in known :
                    /\ CodeOK(u, body)
                    /\ req' = [req EXCEPT ![p] =
                                 [phase |-> "granted", client |-> c, user |-> u]]
              \/ /\ known = {}
                 /\ req' = [req EXCEPT ![p] =
                              [phase |-> IF body.password = "master" THEN "legacy"
                                         ELSE "failed",
                               client |-> c]]
    /\ UNCHANGED <<limitVars, userVars, creds, keyVars, cookies, requests, workload>>

(* The password of the installation signs in as the first user there is;   *)
(* when the users cannot be listed, or there are none, as no user.         *)
LoginLegacy(p) ==
    /\ req[p].phase = "legacy"
    /\ \E u \in {Nobody} \cup (IF Live = {} THEN {} ELSE {FirstUser}) :
          req' = [req EXCEPT ![p] =
                    [phase |-> "granted", client |-> req[p].client, user |-> u]]
    /\ UNCHANGED <<limitVars, userVars, creds, keyVars, cookies, requests, workload>>

LoginFailed(p) ==
    /\ req[p].phase = "failed"
    /\ RecordFailure(req[p].client)
    /\ Done(p)
    /\ UNCHANGED <<userVars, creds, keyVars, cookies, requests, workload>>

SetCookie(u) ==
    cookies' = cookies \cup {[user |-> u, expires |-> now + SessionLife]}

LoginGranted(p) ==
    /\ req[p].phase = "granted"
    /\ Reset(req[p].client)
    /\ SetCookie(req[p].user)
    /\ Done(p)
    /\ UNCHANGED <<userVars, creds, keyVars, requests, workload>>

(* The end of a passkey sign-in. *)
PasskeyGranted(p) ==
    /\ req[p].phase = "cookie"
    /\ SetCookie(req[p].user)
    /\ Done(p)
    /\ UNCHANGED <<limitVars, userVars, creds, keyVars, requests, workload>>

Login(p) ==
    \/ LoginAsk(p) \/ LoginLookup(p) \/ LoginLegacy(p) \/ LoginFailed(p)
    \/ LoginGranted(p) \/ PasskeyGranted(p)

-----------------------------------------------------------------------------
webVars == <<cookies, requests, workload>>

(* The process ends and is started again: what was in memory is gone.      *)
Crash ==
    /\ boot.phase # "down"
    /\ crashes < workload.crashes
    /\ crashes' = crashes + 1
    /\ boot' = [phase |-> "down"]
    /\ req' = [p \in Req |-> Idle]
    /\ LimitsRestart
    /\ PasskeysRestart
    /\ UNCHANGED <<users, created, secrets, tables, creds, confirmed, disturbed,
                   webVars>>

Next ==
    \/ (BootStep \/ BootStart) /\ UNCHANGED <<limitVars, keyVars, webVars>>
    \/ now < workload.time /\ Tick /\ UNCHANGED <<userVars, creds, req, keyVars, webVars>>
    \/ \E l \in Limiter :
          Cleanup(l) /\ UNCHANGED <<userVars, creds, req, keyVars, webVars>>
    \/ Crash
    \/ \E p \in Req :
          \/ Arrive(p) \/ Limited(p) \/ HandleElsewhere(p) \/ Login(p)
          \/ UserHandler(p) /\ UNCHANGED <<limitVars, keyVars, webVars>>
          \/ PasskeyHandler(p) /\ UNCHANGED <<limitVars, webVars>>

Spec == Init /\ [][Next]_vars

-----------------------------------------------------------------------------
(* Properties *)

(* "block after 5 failed attempts in 15 minutes" (auth.go:50): Allow and   *)
(* RecordFailure are two calls, so the sign-ins under way when the limit   *)
(* is reached may still fail; there are never more failures in a window    *)
(* than that allows.                                                       *)
AttemptsBounded ==
    \A c \in Client :
        LET underWay == {p \in Req : req[p].phase \in {"lookup", "legacy", "failed"}
                                     /\ req[p].client = c}
        IN  Cardinality(Recent(c)) + Cardinality(underWay)
              <= MaxFails - 1 + Cardinality(Req)

(* Who is asked for a code has given one for that very secret, unless a    *)
(* set-up was repeated, or overlapped the verification (users.go:242-306). *)
SecondFactorUsable ==
    \A u \in Live : users[u].totp /\ u \notin disturbed
                      => users[u].secret \in confirmed

(* A registration or a sign-in without a name is answered with success at  *)
(* most once, however often and by whomever its answer is sent             *)
(* (webauthn.go:98, 182).  That is not so for a named sign-in, whose       *)
(* session stays in the map while it is checked (webauthn.go:221).         *)
AnsweredOnce ==
    \A p \in Req :
        req[p].phase = "check" =>
            /\ finished[req[p].ceremony.challenge] = 0
                 \/ req[p].ceremony.kind = "named"
            /\ \A q \in Req \ {p} :
                  req[q].phase = "check" => req[q].ceremony # req[p].ceremony

(* "try all stored user sessions" (webauthn.go:218): a right answer to a   *)
(* pending named sign-in is refused only while the session of another user *)
(* is in the map as well, or the answer came too late.                     *)
RefusedOnlyIfShared ==
    [][\A p \in Req :
         req'[p].phase = "refused" /\ req[p].phase # "refused" =>
           LET k == req'[p].cred IN
           \/ k.user \notin Live
           \/ ~Answers(sessions[k.user], req'[p].challenge, k)
           \/ \E u \in Live \ {k.user} : sessions[u] # None]_vars

=============================================================================
