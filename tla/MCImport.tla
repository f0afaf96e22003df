------------------------------ MODULE MCImport ------------------------------
(* Small instances of Import for TLC. *)
EXTENDS Import

Entry(old, new, oldKind, newKind, key) ==
    [old |-> old, new |-> new, oldKind |-> oldKind, newKind |-> newKind,
     key |-> key]

(* Two sales of the same day and size, whose hash scheme changed, and a    *)
(* row that kept its hash and changed its type.                            *)
SaleA == Entry("a0", "a1", "sell", "sell", "sale")
SaleB == Entry("b0", "b1", "sell", "sell", "sale")
Wire  == Entry("w", "w", "transfer", "withdrawal", "wire")

(* A sale of another security. *)
Etf   == Entry("e", "e", "sell", "sell", "etf")

MCHash   == {"a0", "a1", "b0", "b1", "e", "w"}
MCKind   == {"sell", "transfer", "withdrawal"}
MCKey    == {"sale", "etf", "wire"}
MCIsinOf == [k \in MCKey |-> CASE k = "sale" -> "GOOG" [] k = "etf" -> "ETF"
                              [] OTHER -> NoIsin]
MCTxn    == {SaleA, SaleB, Wire}
Sales    == {SaleA, SaleB}
TwoSecurities == {SaleA, Etf}

Csv(txns, vests_) == [txns |-> txns, vests |-> vests_]

(* Exports that cover whole days: both sales or none. *)
WholeDays == {Csv(<<SaleA, Wire, SaleB>>, <<>>), Csv(<<SaleB, SaleA>>, <<>>)}

(* No RSU vests. *)
NoVests    == {}
NoVestIsin == [v \in {} |-> NoIsin]
NoLinks    == [v \in {} |-> NoTxn]

(* A release of SaleA's shares, linked to it, and two grants still to      *)
(* vest, in the schedules of two days.                                     *)
MCVest     == {"release", "grant1", "grant2"}
MCVested   == {"release"}
MCVestIsin == [v \in MCVest |-> "GOOG"]
MCLinkOf   == [v \in MCVest |-> IF v = "release" THEN SaleA ELSE NoTxn]

Schedules == {Csv(<<>>, <<"grant1">>), Csv(<<>>, <<"grant2">>)}
Plan      == {Csv(<<SaleA>>, <<"release">>)}
PlanFiles == Plan \cup {Csv(<<>>, <<"grant1">>)}

MCRowId == 1 .. 4
TwoIds  == 1 .. 2
ThreeIds == 1 .. 3
=============================================================================
