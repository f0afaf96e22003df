----------------------------- MODULE MCReports ------------------------------
(* Small instances of Reports for TLC: years of two months, quarters of    *)
(* two.                                                                    *)
EXTENDS Reports

(* A database with history: snapshots in the month before the first one.   *)
Installed == {[m \in 0 .. LastMonth |-> IF m = FirstMonth - 1 THEN 2 ELSE 0]}

Load(faults, n, crashes_, last) ==
    [faults |-> faults, requests |-> n, crashes |-> crashes_, last |-> last]

AllFaults == {"exists", "snapshots", "insert", "channels"}

(* A restart at any point of three months; a request; a restart under      *)
(* every fault.                                                            *)
Live    == {Load({"channels"}, 0, 1, 3)}
Web     == {Load({"insert"}, 1, 0, 2)}
Restart == {Load(AllFaults, 0, 1, 2)}
All     == Live \cup Web \cup Restart
=============================================================================
