-------------------------------- MODULE Users ---------------------------------
(***************************************************************************)
(* Users, their second factor, and what belongs to whom                    *)
(* (handler/users.go, handler/settings.go, handler/common.go,              *)
(* ensureDefaultUser in cmd/server/main.go).                               *)
(*                                                                         *)
(* Each query commits by itself.  A handler with one query that matters is *)
(* one step; one that reads a row and writes it back, or writes on the     *)
(* strength of what it read, takes two.                                    *)
(***************************************************************************)
EXTENDS Integers, FiniteSets

CONSTANTS
    MaxUsers,       \* bound: users ever created; numbered in that order
    Name,           \* user names; the default user's is "admin"
    AccountId,      \* accounts ever created
    Legacy,         \* accounts and goals written before there were users
    Column,         \* columns of an account an update may set
    GoalId,         \* goals ever created
    MaxSecrets,     \* bound: TOTP secrets ever generated
    Req             \* concurrent requests

ASSUME UsersAssumption ==
    /\ MaxUsers \in Nat /\ MaxSecrets \in Nat
    /\ "admin" \in Name
    /\ Legacy \subseteq AccountId
    /\ IsFiniteSet(Req)

User == 1 .. MaxUsers
Nobody == 0
Owner == User \cup {Nobody}
Secret == 1 .. MaxSecrets
NoSecret == 0
NoAccount == "no account"

(* The tables ensureDefaultUser gives to the first user, in this order.    *)
Table == <<"accounts", "financial_goals", "price_alerts", "wealth_reports">>

VARIABLES
    users,      \* rows of users; [live |-> FALSE] before creation and after deletion
    created,    \* users ever created
    secrets,    \* TOTP secrets ever generated
    accounts,   \* accounts: owner, columns and, as a ghost, who created it
    goals,      \* financial_goals: owner and funding account
    others,     \* owners of the rows of price_alerts and wealth_reports
    creds,      \* webauthn_credentials: [id, user]
    boot,       \* how far the start of the process is
    crashes,    \* how often the process ended
    req,        \* the requests
    confirmed,  \* ghost: secrets a code has been given for
    disturbed   \* ghost: users whose set-up overlapped or was repeated

userVars == <<users, created, secrets, accounts, goals, others, boot, crashes,
              confirmed, disturbed>>
tables == <<accounts, goals, others>>

NoUser == [live |-> FALSE]
UserRow == [live : {TRUE}, name : Name, role : {"admin", "member"},
            active : BOOLEAN, password : {"own", "master"},
            secret : Secret \cup {NoSecret}, totp : BOOLEAN]

NoRow == [live |-> FALSE]
AccountRow == [live : {TRUE}, owner : Owner, cols : [Column -> 0 .. 1]]
GoalRow == [live : {TRUE}, owner : Owner, funding : AccountId \cup {NoAccount}]

Idle == [phase |-> "idle"]

UsersTypeOK ==
    /\ users \in [User -> UserRow \cup {NoUser}]
    /\ created \in 0 .. MaxUsers
    /\ secrets \in 0 .. MaxSecrets
    /\ accounts \in [AccountId -> AccountRow \cup {NoRow}]
    /\ goals \in [GoalId -> GoalRow \cup {NoRow}]
    /\ others \in [{"price_alerts", "wealth_reports"} -> SUBSET Owner]
    /\ boot \in [phase : {"count", "create", "serve", "down"}]
             \cup [phase : {"assign"}, table : 1 .. 4, user : User]
    /\ crashes \in Nat
    /\ confirmed \subseteq Secret
    /\ disturbed \subseteq User

(* The first start on a database of before the users table, or a later one *)
(* on a database with n users: an administrator and members.               *)
UsersInit(n, names) ==
    /\ users = [u \in User |->
                  IF u > n THEN NoUser
                  ELSE [live |-> TRUE, name |-> names[u], active |-> TRUE,
                        role |-> IF u = 1 THEN "admin" ELSE "member",
                        password |-> IF u = 1 THEN "master" ELSE "own",
                        secret |-> NoSecret, totp |-> FALSE]]
    /\ created = n
    /\ secrets = 0
    /\ accounts = [a \in AccountId |->
                     IF a \in Legacy /\ n = 0
                     THEN [live |-> TRUE, owner |-> Nobody,
                           cols |-> [k \in Column |-> 0]]
                     ELSE NoRow]
    /\ goals = [g \in GoalId |-> NoRow]
    /\ others = [t \in {"price_alerts", "wealth_reports"} |->
                   IF Legacy # {} /\ n = 0 THEN {Nobody} ELSE {}]
    /\ creds = {[id |-> 0, user |-> u] : u \in 1 .. n}
    /\ boot = [phase |-> "count"]
    /\ crashes = 0
    /\ req = [p \in Req |-> Idle]
    /\ confirmed = {}
    /\ disturbed = {}

-----------------------------------------------------------------------------
(* Queries *)

Live == {u \in User : users[u].live}

CountUsers == Cardinality(Live)

(* ListUsers: ORDER BY created_at. *)
FirstUser == CHOOSE u \in Live : \A v \in Live : u <= v

GetUserByUsername(name) == {u \in Live : users[u].name = name}

(* users.username is UNIQUE. *)
CreateUser(name, role, password) ==
    /\ created < MaxUsers
    /\ GetUserByUsername(name) = {}
    /\ created' = created + 1
    /\ users' = [users EXCEPT ![created'] =
                   [live |-> TRUE, name |-> name, role |-> role, active |-> TRUE,
                    password |-> password, secret |-> NoSecret, totp |-> FALSE]]

(* An UPDATE of a row that is gone changes nothing, and is no error.       *)
UpdateUser(u, row) ==
    users' = IF users[u].live THEN [users EXCEPT ![u] = row] ELSE users

UpdateUserActive(u, active) == UpdateUser(u, [users[u] EXCEPT !.active = active])

SetUserTOTPSecret(u, s) == UpdateUser(u, [users[u] EXCEPT !.secret = s])

EnableUserTOTP(u) == UpdateUser(u, [users[u] EXCEPT !.totp = TRUE])

DisableUserTOTP(u) ==
    UpdateUser(u, [users[u] EXCEPT !.totp = FALSE, !.secret = NoSecret])

(* Foreign keys without ON DELETE: a user who owns anything stays.         *)
Owns(u) ==
    \/ \E a \in AccountId : accounts[a].live /\ accounts[a].owner = u
    \/ \E g \in GoalId : goals[g].live /\ goals[g].owner = u
    \/ \E t \in DOMAIN others : u \in others[t]

(* The passkeys of a user go with them (ON DELETE CASCADE). *)
DeleteUserRow(u) ==
    /\ ~Owns(u)
    /\ users' = [users EXCEPT ![u] = NoUser]
    /\ creds' = {k \in creds : k.user # u}

Funds(a) == \E g \in GoalId : goals[g].live /\ goals[g].funding = a

-----------------------------------------------------------------------------
(* ensureDefaultUser, before the server listens *)

BootCount ==
    /\ boot.phase = "count"
    /\ \/ boot' = [phase |-> IF CountUsers > 0 THEN "serve" ELSE "create"]
       \/ boot' = [phase |-> "serve"]   \* the query failed
    /\ UNCHANGED <<users, created, secrets, tables, creds, crashes, req,
                   confirmed, disturbed>>

BootCreate ==
    /\ boot.phase = "create"
    /\ \/ /\ CreateUser("admin", "admin", "master")
          /\ boot' = [phase |-> "assign", table |-> 1, user |-> created']
       \/ /\ boot' = [phase |-> "serve"]
          /\ UNCHANGED <<users, created>>
    /\ UNCHANGED <<secrets, tables, creds, crashes, req, confirmed, disturbed>>

Assigned(owner) == IF owner = Nobody THEN boot.user ELSE owner

AssignTable ==
    CASE Table[boot.table] = "accounts" ->
           /\ accounts' = [a \in AccountId |->
                             IF accounts[a].live
                             THEN [accounts[a] EXCEPT !.owner = Assigned(@)]
                             ELSE accounts[a]]
           /\ UNCHANGED <<goals, others>>
      [] Table[boot.table] = "financial_goals" ->
           /\ goals' = [g \in GoalId |->
                          IF goals[g].live
                          THEN [goals[g] EXCEPT !.owner = Assigned(@)]
                          ELSE goals[g]]
           /\ UNCHANGED <<accounts, others>>
      [] OTHER ->
           /\ others' = [others EXCEPT ![Table[boot.table]] =
                           {Assigned(o) : o \in @}]
           /\ UNCHANGED <<accounts, goals>>

(* AssignOrphanedDataToUser: one UPDATE a table; the first that fails ends *)
(* it, with a warning, and no later start takes it up.                     *)
BootAssign ==
    /\ boot.phase = "assign"
    /\ \/ /\ AssignTable
          /\ boot' = IF boot.table = 4 THEN [phase |-> "serve"]
                     ELSE [boot EXCEPT !.table = @ + 1]
       \/ /\ boot' = [phase |-> "serve"]
          /\ UNCHANGED tables
    /\ UNCHANGED <<users, created, secrets, creds, crashes, req, confirmed,
                   disturbed>>

BootStep == BootCount \/ BootCreate \/ BootAssign

BootStart ==
    /\ boot.phase = "down"
    /\ boot' = [phase |-> "count"]
    /\ UNCHANGED <<users, created, secrets, tables, creds, crashes, req,
                   confirmed, disturbed>>

-----------------------------------------------------------------------------
(* Handlers.  At(p, kind) is a request that has passed the middlewares, as *)
(* the user its cookie names.                                              *)

At(p, kind) == req[p].phase = "handler" /\ req[p].kind = kind

Done(p) == req' = [req EXCEPT ![p] = Idle]

IsAdmin(u) == u \in Live /\ users[u].role = "admin"

(* A cookie without a user is one of before there were users. *)
RequireAdmin(p) == req[p].who = Nobody \/ IsAdmin(req[p].who)

RequireSelfOrAdmin(p, u) ==
    req[p].who \in {Nobody, u} \/ IsAdmin(req[p].who)

(* 403, 404, 409, 500: nothing changes. *)
Refuse(p, kind) ==
    /\ At(p, kind)
    /\ Done(p)
    /\ UNCHANGED <<userVars, creds>>

HandleCreateUser(p) ==
    /\ At(p, "create user") /\ RequireAdmin(p)
    /\ \E name \in Name, role \in {"admin", "member"} : CreateUser(name, role, "own")
    /\ Done(p)
    /\ UNCHANGED <<secrets, tables, creds, boot, crashes, confirmed, disturbed>>

HandleDeleteUser(p) ==
    /\ At(p, "delete user") /\ RequireAdmin(p)
    /\ \E u \in Live : DeleteUserRow(u)
    /\ Done(p)
    /\ UNCHANGED <<created, secrets, tables, boot, crashes, confirmed, disturbed>>

(* Reads is_active and writes its negation. *)
ToggleRead(p) ==
    /\ At(p, "toggle user") /\ RequireAdmin(p)
    /\ \E u \in Live :
          req' = [req EXCEPT ![p] = [phase |-> "toggle", user |-> u,
                                     active |-> users[u].active]]
    /\ UNCHANGED <<userVars, creds>>

ToggleWrite(p) ==
    /\ req[p].phase = "toggle"
    /\ UpdateUserActive(req[p].user, ~req[p].active)
    /\ Done(p)
    /\ UNCHANGED <<created, secrets, tables, creds, boot, crashes, confirmed,
                   disturbed>>

Verifying(u) == \E q \in Req : req[q].phase = "enable" /\ req[q].user = u

(* A new secret replaces the old one, whether it is in use or not. *)
HandleSetupTOTP(p) ==
    /\ At(p, "setup totp")
    /\ secrets < MaxSecrets
    /\ \E u \in Live :
          /\ RequireSelfOrAdmin(p, u)
          /\ secrets' = secrets + 1
          /\ SetUserTOTPSecret(u, secrets')
          /\ disturbed' = IF users[u].totp \/ Verifying(u)
                          THEN disturbed \cup {u} ELSE disturbed
    /\ Done(p)
    /\ UNCHANGED <<created, tables, creds, boot, crashes, confirmed>>

(* Mutant: any code is accepted. *)
VerifyTOTPReadAny(p) ==
    /\ At(p, "verify totp")
    /\ \E u \in Live :
          /\ RequireSelfOrAdmin(p, u)
          /\ users[u].secret # NoSecret
          /\ UNCHANGED confirmed
          /\ req' = [req EXCEPT ![p] = [phase |-> "enable", user |-> u]]
    /\ UNCHANGED <<users, created, secrets, tables, creds, boot, crashes,
                   disturbed>>

(* The code must be of the stored secret. *)
VerifyTOTPRead(p) ==
    /\ At(p, "verify totp")
    /\ \E u \in Live :
          /\ RequireSelfOrAdmin(p, u)
          /\ users[u].secret # NoSecret
          /\ confirmed' = confirmed \cup {users[u].secret}
          /\ req' = [req EXCEPT ![p] = [phase |-> "enable", user |-> u]]
    /\ UNCHANGED <<users, created, secrets, tables, creds, boot, crashes,
                   disturbed>>

(* By now the secret may be another one, or none. *)
VerifyTOTPWrite(p) ==
    /\ req[p].phase = "enable"
    /\ EnableUserTOTP(req[p].user)
    /\ Done(p)
    /\ UNCHANGED <<created, secrets, tables, creds, boot, crashes, confirmed,
                   disturbed>>

HandleDisableTOTP(p) ==
    /\ At(p, "disable totp")
    /\ \E u \in Live :
          /\ RequireSelfOrAdmin(p, u)
          /\ DisableUserTOTP(u)
          /\ disturbed' = IF Verifying(u) THEN disturbed \cup {u} ELSE disturbed
    /\ Done(p)
    /\ UNCHANGED <<created, secrets, tables, creds, boot, crashes, confirmed>>

-----------------------------------------------------------------------------
(* Accounts and goals.  No INSERT names an owner. *)

HandleCreateAccount(p) ==
    /\ At(p, "create account")
    /\ \E a \in AccountId :
          /\ ~accounts[a].live
          /\ accounts' = [accounts EXCEPT ![a] =
                            [live |-> TRUE, owner |-> Nobody,
                             cols |-> [k \in Column |-> 0]]]
    /\ Done(p)
    /\ UNCHANGED <<users, created, secrets, goals, others, creds, boot, crashes,
                   confirmed, disturbed>>

(* Reads the row, replaces the columns the body names, writes them all.    *)
UpdateAccountRead(p) ==
    /\ At(p, "update account")
    /\ \E a \in AccountId, named \in SUBSET Column :
          /\ accounts[a].live
          /\ req' = [req EXCEPT ![p] =
                       [phase |-> "update", account |-> a,
                        cols  |-> [k \in Column |-> IF k \in named THEN 1
                                                    ELSE accounts[a].cols[k]]]]
    /\ UNCHANGED <<userVars, creds>>

UpdateAccountWrite(p) ==
    /\ req[p].phase = "update"
    /\ accounts' = IF accounts[req[p].account].live
                   THEN [accounts EXCEPT ![req[p].account].cols = req[p].cols]
                   ELSE accounts
    /\ Done(p)
    /\ UNCHANGED <<users, created, secrets, goals, others, creds, boot, crashes,
                   confirmed, disturbed>>

(* The last query of HandleDeleteAccount; a goal it funds prevents it.     *)
DeleteAccountRow(p) ==
    /\ At(p, "delete account")
    /\ \E a \in AccountId :
          /\ accounts[a].live /\ ~Funds(a)
          /\ accounts' = [accounts EXCEPT ![a] = NoRow]
    /\ Done(p)
    /\ UNCHANGED <<users, created, secrets, goals, others, creds, boot, crashes,
                   confirmed, disturbed>>

HandleCreateGoal(p) ==
    /\ At(p, "create goal")
    /\ \E g \in GoalId, a \in {b \in AccountId : accounts[b].live} \cup {NoAccount} :
          /\ ~goals[g].live
          /\ goals' = [goals EXCEPT ![g] =
                         [live |-> TRUE, owner |-> Nobody, funding |-> a]]
    /\ Done(p)
    /\ UNCHANGED <<users, created, secrets, accounts, others, creds, boot, crashes,
                   confirmed, disturbed>>

HandleDeleteGoal(p) ==
    /\ At(p, "delete goal")
    /\ \E g \in GoalId : goals' = [goals EXCEPT ![g] = NoRow]
    /\ Done(p)
    /\ UNCHANGED <<users, created, secrets, accounts, others, creds, boot, crashes,
                   confirmed, disturbed>>

UserKinds ==
    {"create user", "delete user", "toggle user", "setup totp", "verify totp",
     "disable totp", "create account", "update account", "delete account",
     "create goal", "delete goal"}

UserHandler(p) ==
    \/ \E kind \in UserKinds : Refuse(p, kind)
    \/ HandleCreateUser(p) \/ HandleDeleteUser(p)
    \/ ToggleRead(p) \/ ToggleWrite(p)
    \/ HandleSetupTOTP(p) \/ VerifyTOTPRead(p) \/ VerifyTOTPWrite(p)
    \/ HandleDisableTOTP(p)
    \/ HandleCreateAccount(p) \/ UpdateAccountRead(p) \/ UpdateAccountWrite(p)
    \/ DeleteAccountRow(p)
    \/ HandleCreateGoal(p) \/ HandleDeleteGoal(p)
=============================================================================
