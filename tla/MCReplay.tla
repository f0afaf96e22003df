------------------------------ MODULE MCReplay ------------------------------
(* Small instances of Replay for TLC: four days, transfers of two.         *)
EXTENDS Replay, TLC

MCCurrencyOf == [i \in {"ETF", "GOOG"} |-> IF i = "ETF" THEN "EUR" ELSE "USD"]

MCDay == 0 .. 3

Entry(d, t, i, q, a) == [day |-> d, type |-> t, isin |-> i, qty |-> q, amt |-> a]

(* Every history with a price or not on each day. *)
Histories == {h \in UNION {[1 .. n -> MCDay] : n \in 0 .. 4} :
                 \A j, k \in DOMAIN h : j < k => h[j] < h[k]}

NoHistory == [s \in {"ETF", "GOOG", "USD"} |-> <<>>]

Logs(events, n) == {l \in UNION {[1 .. m -> events] : m \in 1 .. n} : InOrder(l)}

(* One security bought, sold and sent in one or two shares. *)
ShareMoves == {Entry(d, t, "ETF", q, 1) :
                  d \in MCDay, q \in 1 .. 2,
                  t \in {"buy", "sell", "transfer", "transfer_out"}}

(* Money of every type. *)
Payments == {Entry(d, t, NoIsin, 0, 1) : d \in {1, 3}, t \in Type}
       \cup {Entry(1, t, "ETF", 1, 1) : t \in Type}

(* Both securities held, with any history of one and of its currency. *)
BothHeld == <<Entry(0, "buy", "ETF", 1, 1), Entry(1, "savings_plan", "GOOG", 1, 1)>>

MCHistories == {[log |-> BothHeld, hist |-> ("ETF" :> h @@ "GOOG" :> h @@ "USD" :> k)] :
                    h, k \in Histories}

MCInputs ==
    MCHistories
      \cup {[log |-> l, hist |-> NoHistory] : l \in Logs(ShareMoves, 3) \cup Logs(Payments, 2)}
=============================================================================
