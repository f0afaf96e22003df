----------------------------- MODULE MCNetWorth -----------------------------
(* Small instances of NetWorth for TLC: two accounts that buy different    *)
(* securities on different days.                                           *)
EXTENDS NetWorth

MCTxn       == {"buy1", "buy2"}
MCDayOf     == [t \in MCTxn |-> IF t = "buy1" THEN 0 ELSE 1]
MCAccountOf == [t \in MCTxn |-> IF t = "buy1" THEN "broker" ELSE "bank"]
MCSourceOf  == [t \in MCTxn |-> IF t = "buy1" THEN "ETF" ELSE "GOOG"]

Bought == {"buy1"}

(* The first starts of an installation with a crash, and a later day with  *)
(* a snapshot beside two requests.                                         *)
MCBeginnings ==
    {[done |-> FALSE, bounds |-> [user |-> 1, crash |-> 1, live |-> 0]],
     [done |-> TRUE,  bounds |-> [user |-> 2, crash |-> 0, live |-> 1]]}
=============================================================================
