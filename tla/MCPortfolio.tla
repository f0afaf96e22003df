------------------------------ MODULE MCPortfolio ------------------------------
(* Small instances of Portfolio for TLC: six days, two to a month.         *)
EXTENDS Portfolio

MCAccount == {"broker", "depot", "giro", "s", "n", "r", "v", "sc"}
MCAccountOf == [b \in Bank |-> CASE b = "sparkasse" -> "s" [] b = "n26" -> "n"
                                 [] b = "revolut" -> "r" [] b = "vault" -> "v"
                                 [] b = "scalable" -> "sc"]

(* Two securities that move, two with a price for advice and one without.  *)
MCClose == [i \in {"x", "y", "p", "q", "u"} |->
    CASE i = "x" -> <<5, 5, 7, 4, 4, 6>>
      [] i = "y" -> <<3, 3, 3, 0, 5, 5>>
      [] i = "p" -> <<30, 30, 30, 30, 30, 30>>
      [] i = "q" -> <<70, 70, 70, 70, 70, 70>>
      [] i = "u" -> <<0, 0, 0, 0, 0, 0>>]

Plain == [day |-> 1, type |-> "deposit", isin |-> NoIsin, account |-> "broker", qty |-> 0,
          amt |-> 10, fee |-> 0, tax |-> 0, word |-> "", category |-> ""]

Pay(d, t, a) == [Plain EXCEPT !.day = d, !.type = t, !.account = a]
Trade1(d, t, i, a, n) ==
    [Plain EXCEPT !.day = d, !.type = t, !.isin = i, !.account = a, !.qty = n,
                  !.amt = n * PriceAt(i, d)]

Quiet == [rows |-> <<>>, records |-> {}, upto |-> 0, snapped |-> {{}}, banks |-> {},
          words |-> {}, advice |-> FALSE]

(* In-kind moves of one and two shares of one security and one of another. *)
Moves == [Quiet EXCEPT
    !.records = {Trade1(d, t, "x", IF t = "transfer" THEN "depot" ELSE "broker", n) :
                    d \in {1, 3, 4, 6}, t \in {"transfer", "transfer_out"}, n \in 1 .. 2}
           \cup {Trade1(3, "transfer", "y", "depot", 1)},
    !.upto = 4, !.snapped = {{2, 4, 6}}]

(* Every type of row, around a move that takes two days.                   *)
Types == {Pay(d, t, "broker") : d \in {1, 4, 6},
             t \in {"deposit", "withdrawal", "dividend", "interest", "fee", "tax",
                    "cash_transfer_in", "cash_transfer_out", "transfer"}}
    \cup {Trade1(d, t, "x", "broker", 1) : d \in {1, 4, 6},
             t \in {"buy", "savings_plan", "sell", "transfer", "transfer_out"}}
Flow == [Quiet EXCEPT
    !.rows = <<Trade1(5, "transfer", "x", "depot", 1), Trade1(3, "transfer_out", "x", "broker", 1),
               Trade1(1, "buy", "x", "broker", 3), Pay(1, "deposit", "giro")>>,
    !.records = Types, !.upto = 6, !.snapped = {Day, {1, 2, 4}, {1, 3, 6}, {}}]

(* Shares bought, moved and sold while prices move, with charges.          *)
Trading == [Quiet EXCEPT
    !.rows = <<[Trade1(2, "buy", "x", "broker", 2) EXCEPT !.fee = 1],
               Pay(1, "deposit", "giro")>>,
    !.records = {Trade1(d, t, "x", a, n) : d \in {3, 5}, a \in {"broker", "depot"},
                    n \in 1 .. 2, t \in {"sell", "transfer", "transfer_out"}}
           \cup {[Pay(5, "dividend", "depot") EXCEPT !.fee = 2, !.tax = 3]},
    !.upto = 5, !.snapped = {Day}]

(* Advice for n of p at 30 and m of q at 70, while u, which has no price,  *)
(* may be bought.                                                          *)
Advice(n, m) == [Quiet EXCEPT
    !.rows = <<[Trade1(1, "buy", "p", "broker", n) EXCEPT !.amt = 200],
               Trade1(1, "buy", "q", "depot", m)>>,
    !.records = {[Trade1(2, "buy", "u", "broker", 3) EXCEPT !.amt = 80],
                 Trade1(2, "sell", "q", "depot", m)},
    !.upto = 3, !.snapped = {{}}, !.advice = TRUE]

(* Advice for someone who has nothing yet.                                 *)
Fresh == [Quiet EXCEPT !.advice = TRUE]

To(i, pct) == [isin |-> i, pct |-> pct]
MCRequests == {<<To("p", 60), To("q", 40)>>, <<To("q", 100)>>, <<To("p", 0)>>,
               <<To("p", 20), To("u", 20), To("q", 60)>>, <<To("q", 0), To("u", 20)>>,
               <<To("p", 60), To("q", 60)>>, <<To("p", 10), To("q", 10), To("u", 40)>>}

(* Statements: what is in a line, and the lines of each bank.              *)
Line0 == [day |-> 2, signed |-> 0, text |-> "", word |-> "", fee |-> 0, isin |-> NoIsin,
          qty |-> 0, moved |-> 0, settled |-> TRUE, cancels |-> FALSE]
Says(text, signed) == [Line0 EXCEPT !.text = text, !.signed = signed]
Moving(text, signed, moved) ==
    [Says(text, signed) EXCEPT !.isin = "x", !.moved = moved, !.qty = Size(moved)]
Undone(line) ==
    [line EXCEPT !.cancels = TRUE, !.signed = -line.signed, !.moved = -line.moved]

SparkasseLines ==
    {Says("gehalt", 9), Says("miete", -5), Says("zinsen", 1), Says("zinsen", -2),
     Says("entgelt", -3), Says("umbuchung", 4), Says("umbuchung", -4), Says("", -6)}
N26Lines ==
    {Says("zinsen", 1), Says("zinsen", -2), Says("", 7),
     [Says("", -4) EXCEPT !.word = "groceries"], [Says("", -5) EXCEPT !.word = "housing"],
     [Says("", -6) EXCEPT !.day = 4]}
RevolutLines ==
    {Says("card payment", -3), Says("card refund", 2), Says("entgelt", -1), Says("zinsen", 1),
     Says("zinsen", -2), Says("transfer", -4), Says("transfer", 6),
     [Says("card payment", -5) EXCEPT !.fee = 1],
     [Says("card payment", -7) EXCEPT !.settled = FALSE]}
VaultLines ==
    {Says("zinsen", 1), Says("zinsen", -2), Says("deposit", 5), Says("withdrawal", -5),
     Says("", 3), Says("", -4), Says("", 0), [Says("deposit", 6) EXCEPT !.day = 4]}
ScalableLines ==
    {Moving("buy", -10, 2), Undone(Moving("buy", -10, 2)), Moving("savings_plan", -5, 1),
     Moving("sell", 6, -1), Undone(Moving("sell", 6, -1)), Moving("dividend", 3, 0),
     [Moving("dividend", 4, 0) EXCEPT !.day = 4], Undone(Moving("dividend", 3, 0)),
     Moving("close-out", 0, -1), [Moving("close-out", 0, -2) EXCEPT !.day = 4],
     Moving("transfer", 0, 1), Undone(Moving("transfer", 0, 1)), Moving("transfer_out", 0, -1),
     Undone(Moving("transfer_out", 0, -1)), Says("tax", -1), Says("tax", 1),
     Undone(Says("tax", -1)), Says("interest", 1), Undone(Says("interest", 1)),
     Says("deposit", 8), Undone(Says("deposit", 8)), Says("withdrawal", -8),
     Undone(Says("withdrawal", -8)), Says("cash_transfer_in", 2),
     Undone(Says("cash_transfer_out", -2)), [Says("deposit", 9) EXCEPT !.settled = FALSE]}

(* No two lines of a file are alike: they would have one import hash.      *)
UpTo(n, S) == {file \in UNION {[1 .. k -> S] : k \in 1 .. n} : IsInjective(file)}
MCFiles == [b \in Bank |-> CASE b = "sparkasse" -> UpTo(2, SparkasseLines)
                              [] b = "n26"       -> UpTo(2, N26Lines)
                              [] b = "revolut"   -> UpTo(2, RevolutLines)
                              [] b = "vault"     -> UpTo(2, VaultLines)
                              [] b = "scalable"  -> UpTo(3, ScalableLines)]

Banks == {[Quiet EXCEPT !.banks = {b}] : b \in Bank}

(* A month of one bank, sorted into categories by its owner.               *)
Sorting == [Quiet EXCEPT !.banks = {"n26"}, !.words = {"", "salary", "internal"}]

MCWorkloads == {Moves, Flow, Trading, Sorting, Fresh} \cup Banks
    \cup {Advice(n, m) : n \in {2, 8}, m \in {1, 4, 6}}
OnlySorting == {Sorting}
=============================================================================
