------------------------------ MODULE Statements ------------------------------
(***************************************************************************)
(* Bank statements as rows of the ledger: the parsers of Sparkasse, N26,   *)
(* Revolut (current accounts and savings vaults) and Scalable Capital      *)
(* (internal/parser), and what the cash flow page makes of the rows        *)
(* (handler/cashflow.go, internal/cashflow).                               *)
(*                                                                         *)
(* A line is what the bank says happened: `signed` is what it did to the   *)
(* money of the account, `moved` to the shares of a security.  Texts are   *)
(* one of the words the code looks for.  Each bank has one account here,   *)
(* and a file is imported once and has no two lines of one import hash;    *)
(* hashes, repeated and overlapping files are what the module Import is    *)
(* about.                                                                  *)
(***************************************************************************)
EXTENDS Ledger

CONSTANT AccountOf  \* the account of each bank

Bank == {"sparkasse", "n26", "revolut", "vault", "scalable"}

(* `text` is the Buchungstext, the transaction type or the sub-type of the *)
(* line, `word` the key word in its payee or reference.                    *)
Line == [day: Day, signed: Int, text: STRING, word: STRING, fee: Nat, isin: Isin \cup {NoIsin},
         qty: Nat, moved: Int, settled: BOOLEAN, cancels: BOOLEAN]

ASSUME StatementsAssumption == AccountOf \in [Bank -> Account]

VARIABLE lines  \* the lines of each bank imported so far

StatementsInit == lines = [b \in Bank |-> <<>>]

BySign(line) == IF line.signed > 0 THEN "deposit" ELSE "withdrawal"

RowOf(bank, line, type, amt, category) ==
    [day |-> line.day, type |-> type, isin |-> line.isin, account |-> AccountOf[bank],
     qty |-> line.qty, amt |-> amt, fee |-> 0, tax |-> 0, word |-> line.word,
     category |-> category]

(***************************************************************************)
(* Sparkasse: amounts keep their sign but for withdrawals.                 *)
(***************************************************************************)
SparkasseType(line) ==
    IF line.text = "zinsen" THEN "interest"
    ELSE IF line.text = "entgelt" THEN "fee"
    ELSE IF line.text = "umbuchung" THEN "transfer"
    ELSE BySign(line)

(* What categorizeByBuchungstext guesses; not all of it are categories.    *)
Hint(line) == CASE line.text = "gehalt"       -> "income"
                [] line.text = "miete"        -> "rent"
                [] line.text = "versicherung" -> "insurance"
                [] line.text = "strom"        -> "utilities"
                [] OTHER                      -> ""

SparkasseRow(line) ==
    LET type == SparkasseType(line)
    IN RowOf("sparkasse", line, type,
             IF type = "withdrawal" THEN Size(line.signed) ELSE line.signed, Hint(line))

(***************************************************************************)
(* N26: interest by its type, everything else by its sign.                 *)
(***************************************************************************)
N26Type(line) == IF line.text = "zinsen" THEN "interest" ELSE BySign(line)

(* Mutant: a withdrawal keeps its sign. *)
N26RowSigned(line) == RowOf("n26", line, N26Type(line), line.signed, "")

N26Row(line) ==
    LET type == N26Type(line)
    IN RowOf("n26", line, type,
             IF type = "withdrawal" THEN Size(line.signed) ELSE line.signed, "")

(***************************************************************************)
(* Revolut: what is not completed is left out, a charge on top of the      *)
(* amount is a column of its own.                                          *)
(***************************************************************************)
RevolutType(line) ==
    IF line.text = "entgelt" THEN "fee"
    ELSE IF line.text = "zinsen" THEN "interest"
    ELSE IF line.text = "card payment" THEN "withdrawal"
    ELSE IF line.text = "card refund" THEN "deposit"
    ELSE BySign(line)

RevolutRow(line) ==
    [RowOf("revolut", line, RevolutType(line), Size(line.signed), "") EXCEPT !.fee = line.fee]

(* A savings vault has money in and money out, and the description decides *)
(* before the column does; a line that has neither is left out.            *)
VaultType(line) ==
    IF line.text = "zinsen" THEN "interest"
    ELSE IF line.text \in {"deposit", "withdrawal"} THEN line.text
    ELSE BySign(line)

VaultRow(line) == RowOf("vault", line, VaultType(line), Size(line.signed), "")

(***************************************************************************)
(* Scalable Capital: a line that cancels another is of the opposite type.  *)
(***************************************************************************)
ScalableType(line) ==
    CASE line.text \in {"buy", "sell", "savings_plan", "dividend", "interest", "deposit",
                        "withdrawal", "cash_transfer_in", "cash_transfer_out",
                        "transfer_out"} -> line.text
      [] line.text = "tax"              -> "fee"
      [] line.text \in {"transfer", "close-out"} -> "transfer"
      [] OTHER                          -> "deposit"

reverseTxnType ==
    [t \in Type |->
        CASE t \in {"buy", "savings_plan"}   -> "sell"
          [] t = "sell"                      -> "buy"
          [] t = "deposit"                   -> "withdrawal"
          [] t = "withdrawal"                -> "deposit"
          [] t \in {"dividend", "interest"}  -> "fee"
          [] t = "fee"                       -> "interest"
          [] t = "transfer"                  -> "transfer_out"
          [] t = "transfer_out"              -> "transfer"
          [] t = "cash_transfer_in"          -> "cash_transfer_out"
          [] t = "cash_transfer_out"         -> "cash_transfer_in"
          [] OTHER                           -> t]

ScalableRow(line) ==
    LET type == ScalableType(line)
    IN RowOf("scalable", line, IF line.cancels THEN reverseTxnType[type] ELSE type,
             Size(line.signed), "")

(* mergeCloseouts: a knock-out comes as an unsigned move of shares and a   *)
(* payment of the same day; the first such payment not yet taken becomes a *)
(* sale of those shares and the move is dropped.                           *)
NonTrade(line) == line.text \in {"transfer", "transfer_out", "close-out"} /\ ~line.cancels

MergeCloseout(file, acc, k) ==
    LET payouts == {j \in DOMAIN file \ acc.taken :
                       /\ acc.rows[j].type = "dividend" /\ file[j].isin = file[k].isin
                       /\ acc.rows[j].amt > 0 /\ file[j].day = file[k].day
                       /\ file[j].isin # NoIsin}
    IN IF ~NonTrade(file[k]) \/ file[k].qty = 0 \/ payouts = {} THEN acc
       ELSE [rows |-> [acc.rows EXCEPT ![Min(payouts)].type = "sell",
                                       ![Min(payouts)].qty = file[k].qty],
             taken |-> acc.taken \cup {Min(payouts)}, dropped |-> acc.dropped \cup {k}]

ScalableRows(file) ==
    LET merged == FoldLeftDomain(LAMBDA acc, k : MergeCloseout(file, acc, k),
                                 [rows |-> [k \in DOMAIN file |-> ScalableRow(file[k])],
                                  taken |-> {}, dropped |-> {}], file)
    IN Picked(merged.rows, DOMAIN file \ merged.dropped)

(***************************************************************************)
(* A file is parsed whole and its rows inserted one after the other.       *)
(***************************************************************************)
Parsed(bank, file) ==
    LET settled == SelectSeq(file, LAMBDA line : line.settled)
    IN CASE bank = "sparkasse" -> [k \in DOMAIN settled |-> SparkasseRow(settled[k])]
         [] bank = "n26"       -> [k \in DOMAIN settled |-> N26Row(settled[k])]
         [] bank = "revolut"   -> [k \in DOMAIN settled |-> RevolutRow(settled[k])]
         [] bank = "vault"     ->
               LET kept == SelectSeq(settled, LAMBDA line : line.signed # 0)
               IN [k \in DOMAIN kept |-> VaultRow(kept[k])]
         [] bank = "scalable"  -> ScalableRows(settled)

Newer(r, s) == r.day > s.day

ImportFile(bank, file) ==
    /\ lines' = [lines EXCEPT ![bank] = file]
    /\ book' = SortSeq(book \o Parsed(bank, file), Newer)
    /\ totals' = Replayed(book', Snapped)

(***************************************************************************)
(* The cash flow page.                                                     *)
(***************************************************************************)
Income   == {"salary", "interest", "refund"}
Fixed    == {"housing", "utilities", "insurance", "subscriptions"}
Transfer == {"investment", "internal"}
Variable == {"groceries", "dining", "transport", "health", "entertainment", "shopping",
             "tax", "other"}
IsKnown(c) == c \in Income \cup Fixed \cup Variable \cup Transfer

(* Classify: by the type, then by the key word.                            *)
Classify(r) ==
    IF r.type \in {"interest", "dividend"} THEN "interest"
    ELSE IF r.type = "tax" THEN "tax"
    ELSE IF r.type \in {"transfer", "transfer_out", "cash_transfer_in", "cash_transfer_out"}
        THEN "internal"
    ELSE IF r.type \in {"buy", "sell", "savings_plan", "fee"} THEN "investment"
    ELSE IF IsKnown(r.word) THEN r.word ELSE "other"

ResolveCategory(r) == IF IsKnown(r.category) THEN r.category ELSE Classify(r)

ListCashTransactions ==
    SelectSeq(book, LAMBDA r : r.account \in Cash /\ r.amt # 0)

(* HandleCashflow: totals of one month.                                    *)
MonthTotals(m) ==
    LET sum(cats) == SumOver(ListCashTransactions,
                             LAMBDA r : MonthOf(r.day) = m /\ ResolveCategory(r) \in cats,
                             AmountOf)
    IN [income |-> sum(Income), fixed |-> -sum(Fixed), variable |-> -sum(Variable),
        transfer |-> sum(Transfer), net |-> sum(Income) + sum(Fixed) + sum(Variable)]

(* HandleUpdateCategory: an empty category lets the heuristic back in.     *)
UpdateCategory(k, category) ==
    /\ category = "" \/ IsKnown(category)
    /\ book' = [book EXCEPT ![k].category = category]
    /\ UNCHANGED <<totals, lines>>
=============================================================================
