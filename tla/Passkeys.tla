------------------------------- MODULE Passkeys -------------------------------
(***************************************************************************)
(* Passkey ceremonies (handler/webauthn.go).                               *)
(*                                                                         *)
(* A ceremony waits in a sync.Map for its answer: under the user's id for  *)
(* registrations and named sign-ins alike, and under one common key for    *)
(* sign-ins without a name.  Nothing removes a ceremony nobody answers but *)
(* the next one under its key, or a restart.                               *)
(*                                                                         *)
(* The go-webauthn library is modelled by what the handlers rely on: an    *)
(* answer fits a ceremony if it is to its challenge, by a credential of    *)
(* its user; checking one reads the request body, so that a second check   *)
(* in the same request finds it empty.                                     *)
(***************************************************************************)
EXTENDS Users

CONSTANTS
    MaxCeremonies   \* bound: ceremonies ever begun

ASSUME PasskeysAssumption == MaxCeremonies \in Nat

VARIABLES
    sessions,   \* WebAuthnHandler.sessions
    begun,      \* ceremonies ever begun: their challenges
    finished    \* ghost: how often each challenge was answered with success

keyVars == <<sessions, begun, finished>>

Challenge == 1 .. MaxCeremonies
Discoverable == Nobody   \* the key "discoverable" is that of no user
Key == User \cup {Discoverable}

None == [kind |-> "none"]

Ceremony == [kind : {"register", "named"}, user : User, challenge : Challenge]
       \cup [kind : {"discoverable"}, challenge : Challenge]

Credential == [id : 0 .. MaxCeremonies, user : User]

PasskeysTypeOK ==
    /\ sessions \in [Key -> Ceremony \cup {None}]
    /\ begun \in 0 .. MaxCeremonies
    /\ finished \in [Challenge -> Nat]
    /\ creds \subseteq Credential

PasskeysInit ==
    /\ sessions = [k \in Key |-> None]
    /\ begun = 0
    /\ finished = [c \in Challenge |-> 0]

(* The map is in memory. *)
PasskeysRestart ==
    /\ sessions' = [k \in Key |-> None]
    /\ UNCHANGED <<begun, finished>>

CredsOf(u) == {k \in creds : k.user = u}

Succeeded(challenge) == finished' = [finished EXCEPT ![challenge] = @ + 1]

Begin(key, ceremony) ==
    /\ begun < MaxCeremonies
    /\ begun' = begun + 1
    /\ sessions' = [sessions EXCEPT ![key] = ceremony]

(* The user a successful check is about, for the cookie. *)
Grant(p, u) == req' = [req EXCEPT ![p] = [phase |-> "cookie", user |-> u]]

Failed(p) == Done(p) /\ UNCHANGED <<finished, creds>>

-----------------------------------------------------------------------------
HandleBeginRegistration(p) ==
    /\ At(p, "begin registration")
    /\ req[p].who \in Live
    /\ Begin(req[p].who, [kind |-> "register", user |-> req[p].who,
                          challenge |-> begun + 1])
    /\ Done(p)
    /\ UNCHANGED <<userVars, creds, finished>>

(* Mutant: the ceremony is loaded and stays. *)
TakeLoad(p, key) ==
    /\ sessions[key] # None
    /\ UNCHANGED sessions
    /\ req' = [req EXCEPT ![p] = [phase |-> "check", ceremony |-> sessions[key]]]

(* LoadAndDelete. *)
Take(p, key) ==
    /\ sessions[key] # None
    /\ sessions' = [sessions EXCEPT ![key] = None]
    /\ req' = [req EXCEPT ![p] = [phase |-> "check", ceremony |-> sessions[key]]]

TakeRegistration(p) ==
    /\ At(p, "finish registration")
    /\ req[p].who \in User
    /\ Take(p, req[p].who)
    /\ UNCHANGED <<userVars, creds, begun, finished>>

(* The new credential is named after its challenge. It cannot be stored    *)
(* when the user is gone, or if it is there already.                       *)
FinishRegistration(p) ==
    LET s == req[p].ceremony IN
    /\ req[p].phase = "check" /\ s.kind # "discoverable"
    /\ \/ /\ s.kind = "register"
          /\ s.user \in Live
          /\ \A k \in creds : k.id # s.challenge
          /\ creds' = creds \cup {[id |-> s.challenge, user |-> s.user]}
          /\ Succeeded(s.challenge)
          /\ Done(p)
       \/ Failed(p)
    /\ UNCHANGED <<userVars, sessions, begun>>

HandleBeginDiscoverable(p) ==
    /\ At(p, "begin login")
    /\ Begin(Discoverable, [kind |-> "discoverable", challenge |-> begun + 1])
    /\ Done(p)
    /\ UNCHANGED <<userVars, creds, finished>>

HandleBeginNamed(p) ==
    /\ At(p, "begin login")
    /\ \E u \in Live :
          /\ CredsOf(u) # {}
          /\ Begin(u, [kind |-> "named", user |-> u, challenge |-> begun + 1])
    /\ Done(p)
    /\ UNCHANGED <<userVars, creds, finished>>

(* HandleFinishLogin takes a sign-in without a name first.                 *)
TakeDiscoverable(p) ==
    /\ At(p, "finish login")
    /\ Take(p, Discoverable)
    /\ UNCHANGED <<userVars, creds, begun, finished>>

(* The answer may be to any challenge, by any credential. *)
FinishDiscoverable(p) ==
    LET s == req[p].ceremony IN
    /\ req[p].phase = "check" /\ s.kind = "discoverable"
    /\ \/ /\ \E k \in creds : k.user \in Live /\ Grant(p, k.user)
          /\ Succeeded(s.challenge)
          /\ UNCHANGED creds
       \/ Failed(p)
    /\ UNCHANGED <<userVars, sessions, begun>>

(* Mutant: users without a ceremony are tried as well. *)
CandidatesAll == Live

(* Sessions the loop gets as far as checking: their user exists.  Range    *)
(* visits them in an order of its own; the first one checked uses up the   *)
(* request body.                                                           *)
Candidates == {u \in Live : sessions[u] # None}

Answers(s, challenge, k) ==
    s.kind = "named" /\ s.challenge = challenge /\ k.user = s.user


(* No such sign-in pending: try all stored user sessions.                  *)
CheckNamed(p) ==
    /\ At(p, "finish login")
    /\ sessions[Discoverable] = None
    /\ \E challenge \in 1 .. begun, k \in creds :
       \E u \in Candidates :
          req' = [req EXCEPT ![p] =
                    IF Answers(sessions[u], challenge, k)
                    THEN [phase |-> "forget", user |-> u, challenge |-> challenge]
                    ELSE [phase |-> "refused", challenge |-> challenge, cred |-> k]]
    /\ UNCHANGED <<userVars, creds, keyVars>>

(* No session to check, or an answer no session can fit. *)
RefuseLogin(p) ==
    /\ At(p, "finish login")
    /\ sessions[Discoverable] = None
    /\ Done(p)
    /\ UNCHANGED <<userVars, creds, keyVars>>

(* Delete removes what is under the key by now. *)
ForgetNamed(p) ==
    /\ req[p].phase = "forget"
    /\ sessions' = [sessions EXCEPT ![req[p].user] = None]
    /\ Succeeded(req[p].challenge)
    /\ Grant(p, req[p].user)
    /\ UNCHANGED <<userVars, creds, begun>>

RespondRefused(p) ==
    /\ req[p].phase = "refused"
    /\ Done(p)
    /\ UNCHANGED <<userVars, creds, keyVars>>

HandleDeletePasskey(p) ==
    /\ At(p, "delete passkey")
    /\ \E k \in CredsOf(req[p].who) : creds' = creds \ {k}
    /\ Done(p)
    /\ UNCHANGED <<userVars, keyVars>>

PasskeyKinds ==
    {"begin registration", "finish registration", "begin login", "finish login",
     "delete passkey"}

PasskeyHandler(p) ==
    \/ \E kind \in PasskeyKinds \ {"finish login"} :
          Refuse(p, kind) /\ UNCHANGED keyVars
    \/ HandleBeginRegistration(p) \/ TakeRegistration(p) \/ FinishRegistration(p)
    \/ HandleBeginDiscoverable(p) \/ HandleBeginNamed(p)
    \/ TakeDiscoverable(p) \/ FinishDiscoverable(p)
    \/ CheckNamed(p) \/ RefuseLogin(p) \/ ForgetNamed(p) \/ RespondRefused(p)
    \/ HandleDeletePasskey(p)
=============================================================================
