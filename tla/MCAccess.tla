------------------------------ MODULE MCAccess --------------------------------
(* Small instances of Access for TLC. *)
EXTENDS Access

Rates == [l \in Limiter |-> IF l = "api" THEN 3 ELSE 1]

Windows == [l \in Limiter |-> IF l = "api" THEN 1 ELSE 2]

InitialNames == <<"admin", "eve">>

SignIns ==
    [users |-> 1, kinds |-> {"login"}, requests |-> 5, time |-> 3, crashes |-> 0]

Limited3 ==
    [users |-> 1, kinds |-> {"upload", "report", "delete goal"}, requests |-> 6,
     time |-> 3, crashes |-> 1]

SecondFactor ==
    [users |-> 2, kinds |-> {"login", "setup totp", "verify totp", "disable totp"},
     requests |-> 5, time |-> 0, crashes |-> 0]

Administration ==
    [users |-> 1, kinds |-> {"login", "create user", "delete user", "toggle user"},
     requests |-> 4, time |-> 0, crashes |-> 0]

Owning ==
    [users |-> 0, kinds |-> {"login", "create account", "update account",
                             "delete account", "create goal", "delete goal"},
     requests |-> 4, time |-> 0, crashes |-> 1]

Ceremonies ==
    [users |-> 2, kinds |-> {"begin registration", "finish registration",
                             "begin login", "finish login", "delete passkey"},
     requests |-> 5, time |-> 0, crashes |-> 0]

AllWorkloads ==
    {SignIns, Limited3, SecondFactor, Administration, Owning, Ceremonies}
=============================================================================
