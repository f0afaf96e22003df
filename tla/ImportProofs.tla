---------------------------- MODULE ImportProofs ----------------------------
(***************************************************************************)
(* What holds of imports and account deletions for any number of requests, *)
(* files, rows and faults: the types, and that neither adoption nor the    *)
(* linking of vests ever confuses two contents; and, under the conditions  *)
(* each theorem names, that imports neither duplicate nor lose rows and    *)
(* leave one schedule of vests.                                            *)
(***************************************************************************)
EXTENDS Import, FiniteSetTheorems, WellFoundedInduction, TLAPS

(* A hash belongs to one content (the type apart).                         *)
HashesSeparateContent ==
    \A t, u \in Txn : {t.old, t.new} \cap {u.old, u.new} # {} => t.key = u.key

RowPhases  == {"security", "lookup", "similar", "adopt", "insert"}
VestPhases == {"clearVests", "link", "vest"}

(* The cursor of a request points into its file. *)
CursorOK ==
    \A p \in Importer :
        /\ imp[p].phase \in RowPhases => imp[p].pos <= TxnCount(imp[p].file)
        /\ imp[p].phase \in VestPhases =>
              /\ imp[p].pos > TxnCount(imp[p].file)
              /\ imp[p].pos <= TxnCount(imp[p].file) + VestCount(imp[p].file)
        /\ imp[p].phase = "adopt" => imp[p].cand # NoRow
        /\ imp[p].phase = "security" => IsinOf[CurTxn(p).key] # NoIsin

TypeInv == TypeOK /\ CursorOK

-----------------------------------------------------------------------------
(* The first query at any cursor position is one the cursor allows.        *)
LEMMA PhaseAtType ==
    ASSUME NEW f \in File, NEW n \in Nat \ {0}
    PROVE  /\ PhaseAt(f, n) \in Phase \ {"adopt", "vest"}
           /\ PhaseAt(f, n) \in RowPhases => n <= TxnCount(f)
           /\ PhaseAt(f, n) \in VestPhases =>
                 n > TxnCount(f) /\ n <= TxnCount(f) + VestCount(f)
           /\ PhaseAt(f, n) = "security" => IsinOf[f.txns[n].key] # NoIsin
<1>1. TxnCount(f) \in Nat /\ VestCount(f) \in Nat
  BY ImportAssumption DEF TxnCount, VestCount
<1>2. CASE n <= TxnCount(f)
  <2>1. PhaseAt(f, n) \in {"security", "lookup"}
    BY <1>2 DEF PhaseAt
  <2>2. PhaseAt(f, n) = "security" => IsinOf[f.txns[n].key] # NoIsin
    BY <1>2 DEF PhaseAt, FirstOfIsin
  <2>3. QED
    BY <1>2, <2>1, <2>2 DEF Phase, RowPhases, VestPhases
<1>3. CASE n > TxnCount(f) /\ n <= TxnCount(f) + VestCount(f)
  <2>1. PhaseAt(f, n) \in {"clearVests", "link"}
    BY <1>1, <1>3 DEF PhaseAt
  <2>2. QED
    BY <1>3, <2>1 DEF Phase, RowPhases, VestPhases
<1>4. CASE n > TxnCount(f) + VestCount(f)
  <2>1. ~(n <= TxnCount(f)) /\ ~(n <= TxnCount(f) + VestCount(f))
    BY <1>1, <1>4
  <2>2. PhaseAt(f, n) = "history"
    BY <2>1 DEF PhaseAt
  <2>3. /\ PhaseAt(f, n) \in Phase \ {"adopt", "vest"}
        /\ PhaseAt(f, n) \notin RowPhases
        /\ PhaseAt(f, n) \notin VestPhases
        /\ PhaseAt(f, n) # "security"
    BY <2>2 DEF Phase, RowPhases, VestPhases
  <2>4. QED
    BY <2>3
<1>5. \/ n <= TxnCount(f)
      \/ n > TxnCount(f) /\ n <= TxnCount(f) + VestCount(f)
      \/ n > TxnCount(f) + VestCount(f)
  BY <1>1
<1>6. QED
  BY <1>2, <1>3, <1>4, <1>5

(* A request in progress is a Request, and what its cursor points at is a  *)
(* transaction or a vest.                                                  *)
LEMMA ActiveRequest ==
    ASSUME TypeInv, NEW p \in Importer, imp[p].phase # "idle"
    PROVE  /\ imp[p] \in Request
           /\ imp[p].phase \in RowPhases => CurTxn(p) \in Txn
           /\ imp[p].phase \in VestPhases => CurVest(p) \in Vest
<1>1. imp[p] \in Request
  BY DEF TypeInv, TypeOK, Idle
<1>2. imp[p].file.txns \in Seq(Txn) /\ imp[p].file.vests \in Seq(Vest)
  BY <1>1, ImportAssumption DEF Request
<1>3. /\ imp[p].pos \in Nat \ {0}
      /\ TxnCount(imp[p].file) \in Nat
      /\ VestCount(imp[p].file) \in Nat
  BY <1>1, <1>2 DEF Request, TxnCount, VestCount
<1>4. ASSUME imp[p].phase \in RowPhases PROVE CurTxn(p) \in Txn
  <2>1. imp[p].pos <= TxnCount(imp[p].file)
    BY <1>4 DEF TypeInv, CursorOK
  <2>2. imp[p].pos \in 1 .. TxnCount(imp[p].file)
    BY <1>3, <2>1
  <2>3. QED
    BY <2>2, <1>2 DEF CurTxn, TxnCount
<1>5. ASSUME imp[p].phase \in VestPhases PROVE CurVest(p) \in Vest
  <2>1. /\ imp[p].pos > TxnCount(imp[p].file)
        /\ imp[p].pos <= TxnCount(imp[p].file) + VestCount(imp[p].file)
    BY <1>5 DEF TypeInv, CursorOK
  <2>2. imp[p].pos - TxnCount(imp[p].file) \in 1 .. VestCount(imp[p].file)
    BY <1>3, <2>1
  <2>3. QED
    BY <2>2, <1>2 DEF CurVest, VestCount
<1>6. QED
  BY <1>1, <1>4, <1>5

(* Three ways a step may change the request p: to the next row, to another *)
(* query of the same row, and to the end.  Each keeps the requests typed.  *)
LEMMA NextRowType ==
    ASSUME TypeInv, NEW p \in Importer, imp[p].phase # "idle",
           NEW c \in SUBSET RowId, NextRow(p, c)
    PROVE  imp' \in [Importer -> Request \cup {Idle}] /\ CursorOK'
<1>1. imp[p] \in Request
  BY ActiveRequest
<1>2. imp[p].file \in File /\ imp[p].pos + 1 \in Nat \ {0}
  BY <1>1 DEF Request
<1> DEFINE ph == PhaseAt(imp[p].file, imp[p].pos + 1)
<1>3. /\ ph \in Phase \ {"adopt"}
      /\ ph \in RowPhases => imp[p].pos + 1 <= TxnCount(imp[p].file)
      /\ ph \in VestPhases =>
            /\ imp[p].pos + 1 > TxnCount(imp[p].file)
            /\ imp[p].pos + 1 <= TxnCount(imp[p].file) + VestCount(imp[p].file)
      /\ ph = "security" =>
            IsinOf[imp[p].file.txns[imp[p].pos + 1].key] # NoIsin
  BY <1>2, PhaseAtType
<1>4. imp \in [Importer -> Request \cup {Idle}]
  BY DEF TypeInv, TypeOK
<1>5. /\ imp'[p].phase = ph
      /\ imp'[p].pos = imp[p].pos + 1
      /\ imp'[p].file = imp[p].file
      /\ imp'[p].cand = NoRow
      /\ imp'[p].claimed = c
      /\ imp'[p] \in Request
  <2>1. imp'[p] = [imp[p] EXCEPT !.pos = imp[p].pos + 1, !.phase = ph,
                                 !.cand = NoRow, !.claimed = c]
    BY <1>4 DEF NextRow
  <2>2. QED
    BY <1>1, <1>2, <1>3, <2>1 DEF Request
<1>6. \A q \in Importer \ {p} : imp'[q] = imp[q]
  BY <1>4 DEF NextRow
<1>7. imp' \in [Importer -> Request \cup {Idle}]
  BY <1>4, <1>5 DEF NextRow
<1>8. ASSUME NEW q \in Importer
      PROVE  /\ imp'[q].phase \in RowPhases =>
                    imp'[q].pos <= TxnCount(imp'[q].file)
             /\ imp'[q].phase \in VestPhases =>
                    /\ imp'[q].pos > TxnCount(imp'[q].file)
                    /\ imp'[q].pos <= TxnCount(imp'[q].file)
                                        + VestCount(imp'[q].file)
             /\ imp'[q].phase = "adopt" => imp'[q].cand # NoRow
             /\ imp'[q].phase = "security" =>
                    IsinOf[imp'[q].file.txns[imp'[q].pos].key] # NoIsin
  <2>1. CASE q = p
    BY <1>3, <1>5, <2>1
  <2>2. CASE q # p
    BY <1>6, <2>2 DEF TypeInv, CursorOK, CurTxn
  <2>3. QED
    BY <2>1, <2>2
<1>9. QED
  BY <1>7, <1>8 DEF CursorOK, CurTxn

(* A request that moves to another query keeps its type.                   *)
LEMMA MoveType ==
    ASSUME TypeInv, NEW p \in Importer, imp[p].phase # "idle",
           NEW ph \in Phase \ {"security"}, NEW c \in RowId \cup {NoRow},
           \/ Goto(p, ph) /\ c = imp[p].cand
           \/ imp' = [imp EXCEPT ![p].cand = c, ![p].phase = ph],
           ph \in RowPhases => imp[p].phase \in RowPhases,
           ph \in VestPhases => imp[p].phase \in VestPhases,
           ph = "adopt" => c # NoRow
    PROVE  imp' \in [Importer -> Request \cup {Idle}] /\ CursorOK'
<1>1. imp[p] \in Request
  BY ActiveRequest
<1>2. imp \in [Importer -> Request \cup {Idle}]
  BY DEF TypeInv, TypeOK
<1>3. /\ imp'[p].phase = ph
      /\ imp'[p].pos = imp[p].pos
      /\ imp'[p].file = imp[p].file
      /\ imp'[p].cand = c
      /\ imp'[p] \in Request
  <2>1. \/ imp'[p] = [imp[p] EXCEPT !.phase = ph] /\ c = imp[p].cand
        \/ imp'[p] = [imp[p] EXCEPT !.cand = c, !.phase = ph]
    BY <1>2 DEF Goto
  <2>2. QED
    BY <1>1, <2>1 DEF Request
<1>4. \A q \in Importer \ {p} : imp'[q] = imp[q]
  BY <1>2 DEF Goto
<1>5. imp' \in [Importer -> Request \cup {Idle}]
  BY <1>2, <1>3 DEF Goto
<1>6. ASSUME NEW q \in Importer
      PROVE  /\ imp'[q].phase \in RowPhases =>
                    imp'[q].pos <= TxnCount(imp'[q].file)
             /\ imp'[q].phase \in VestPhases =>
                    /\ imp'[q].pos > TxnCount(imp'[q].file)
                    /\ imp'[q].pos <= TxnCount(imp'[q].file)
                                        + VestCount(imp'[q].file)
             /\ imp'[q].phase = "adopt" => imp'[q].cand # NoRow
             /\ imp'[q].phase = "security" =>
                    IsinOf[imp'[q].file.txns[imp'[q].pos].key] # NoIsin
  <2>1. CASE q = p
    BY <1>3, <2>1 DEF TypeInv, CursorOK
  <2>2. CASE q # p
    BY <1>4, <2>2 DEF TypeInv, CursorOK, CurTxn
  <2>3. QED
    BY <2>1, <2>2
<1>7. QED
  BY <1>5, <1>6 DEF CursorOK, CurTxn

(* So does one that changes its phase only.                                *)
LEMMA GotoType ==
    ASSUME TypeInv, NEW p \in Importer, imp[p].phase # "idle",
           NEW ph \in Phase \ {"security", "adopt"}, Goto(p, ph),
           ph \in RowPhases => imp[p].phase \in RowPhases,
           ph \in VestPhases => imp[p].phase \in VestPhases
    PROVE  imp' \in [Importer -> Request \cup {Idle}] /\ CursorOK'
<1>1. imp[p].cand \in RowId \cup {NoRow}
  BY ActiveRequest DEF Request
<1>2. QED
  BY <1>1, MoveType

(* And one that answers.                                                   *)
LEMMA RespondType ==
    ASSUME TypeInv, NEW p \in Importer, Respond(p)
    PROVE  imp' \in [Importer -> Request \cup {Idle}] /\ CursorOK'
<1>1. imp \in [Importer -> Request \cup {Idle}]
  BY DEF TypeInv, TypeOK
<1>2. imp'[p].phase = "idle" /\ imp'[p] = Idle
  BY <1>1 DEF Respond, Idle
<1>3. \A q \in Importer \ {p} : imp'[q] = imp[q]
  BY <1>1 DEF Respond
<1>4. imp' \in [Importer -> Request \cup {Idle}]
  BY <1>1 DEF Respond
<1>5. "idle" \notin RowPhases /\ "idle" \notin VestPhases
  BY DEF RowPhases, VestPhases
<1>6. QED
  BY <1>2, <1>3, <1>4, <1>5 DEF TypeInv, CursorOK, CurTxn

(* ORDER BY id has a first row. *)
LEMMA LeastElement ==
    ASSUME NEW S \in SUBSET Nat, S # {}
    PROVE  \E i \in S : \A j \in S : i <= j
<1> DEFINE R == {ss \in Nat \X Nat : ss[1] < ss[2]}
<1>1. IsWellFoundedOn(R, Nat)
  BY NatLessThanWellFounded DEF OpToRel
<1>2. PICK i \in S : \A j \in S : <<j, i>> \notin R
  <2> HIDE DEF R
  <2> QED
    BY <1>1, WFMin
<1>3. ASSUME NEW j \in S PROVE i <= j
  <2>1. <<j, i>> \in Nat \X Nat /\ <<j, i>>[1] = j /\ <<j, i>>[2] = i
    OBVIOUS
  <2>2. ~(j < i)
    BY <1>2, <2>1
  <2>3. QED
    BY <2>2
<1>4. QED
  BY <1>3

(* The candidate is eligible, and without one nothing is. *)
LEMMA PickEligible ==
    ASSUME NEW table, NEW t, NEW batch, NEW claimed
    PROVE  LET c == PickAdoptable(table, t, batch, claimed)
               eligible == {i \in Similar(table, t) :
                              table[i].hash \notin batch /\ i \notin claimed}
           IN  /\ c = NoRow => eligible = {}
               /\ c # NoRow => c \in eligible
<1> DEFINE eligible == {i \in Similar(table, t) :
                          table[i].hash \notin batch /\ i \notin claimed}
<1>1. eligible \subseteq RowId /\ RowId \subseteq Nat \ {0}
  BY ImportAssumption DEF Similar, Live
<1>2. CASE eligible = {}
  BY <1>2 DEF PickAdoptable
<1>3. CASE eligible # {}
  <2>1. \E i \in eligible : \A j \in eligible : i <= j
    BY <1>1, <1>3, LeastElement
  <2>2. PickAdoptable(table, t, batch, claimed) \in eligible
    BY <1>3, <2>1 DEF PickAdoptable
  <2>3. NoRow \notin eligible
    BY <1>1 DEF NoRow
  <2>4. QED
    BY <2>2, <2>3
<1>4. QED
  BY <1>2, <1>3

(* The candidate is a row, chosen among the similar ones. *)
LEMMA PickInRows ==
    ASSUME NEW table, NEW t, NEW batch, NEW claimed
    PROVE  LET c == PickAdoptable(table, t, batch, claimed)
           IN  c # NoRow => c \in Similar(table, t) /\ c \in RowId
<1>1. Similar(table, t) \subseteq RowId
  BY DEF Similar, Live
<1>2. QED
  BY <1>1, PickEligible

-----------------------------------------------------------------------------
(* Type correctness. *)
LEMMA InitType == Init => TypeInv
<1> SUFFICES ASSUME Init PROVE TypeInv
  OBVIOUS
<1>1. PICK old \in SUBSET Txn :
        /\ rows \in [RowId -> {LegacyRow(t) : t \in old} \cup {Unused}]
        /\ securities = {IsinOf[t.key] : t \in old} \ {NoIsin}
        /\ known = old
  BY DEF Init
<1>2. \A t \in old : LegacyRow(t) \in Row /\ IsinOf[t.key] \in Isin \cup {NoIsin}
  BY <1>1, ImportAssumption DEF TxnType, Row, LegacyRow
<1>3. rows \in [RowId -> Row \cup {Unused, Deleted}]
  BY <1>1, <1>2
<1>4. view \subseteq RowId \X Kind
  BY <1>3 DEF Init, ViewOf, Live, Row
<1>5. /\ imp \in [Importer -> Request \cup {Idle}]
      /\ \A p \in Importer : imp[p].phase = "idle"
  BY DEF Init, Idle
<1>6. CursorOK
  BY <1>5 DEF CursorOK, RowPhases, VestPhases
<1>7. TypeOK
  BY <1>1, <1>2, <1>3, <1>4, <1>5, ImportAssumption DEF Init, TypeOK
<1>8. QED
  BY <1>6, <1>7 DEF TypeInv

(* The view has a type for each of its rows.                               *)
LEMMA ViewType ==
    ASSUME TypeOK PROVE ViewOf(rows) \subseteq RowId \X Kind
BY DEF TypeOK, ViewOf, Live, Row

(* What a step leaves of the requests untouched stays typed. *)
LEMMA CursorKept ==
    ASSUME TypeInv, UNCHANGED imp PROVE CursorOK'
BY DEF TypeInv, CursorOK, CurTxn

(* Every step keeps the types and the cursors.                             *)
LEMMA StepType == TypeInv /\ [Next]_vars => TypeInv'
<1> SUFFICES ASSUME TypeInv, [Next]_vars PROVE TypeInv'
  OBVIOUS
<1> USE DEF tables, ghosts
<1>1. ASSUME NEW p \in Importer, NEW f \in File, StartImport(p, f)
      PROVE  TypeInv'
  <2>1. /\ PhaseAt(f, 1) \in Phase \ {"adopt", "vest"}
        /\ PhaseAt(f, 1) \in RowPhases => 1 <= TxnCount(f)
        /\ PhaseAt(f, 1) \in VestPhases =>
              1 > TxnCount(f) /\ 1 <= TxnCount(f) + VestCount(f)
        /\ PhaseAt(f, 1) = "security" => IsinOf[f.txns[1].key] # NoIsin
    BY PhaseAtType
  <2>2. imp \in [Importer -> Request \cup {Idle}]
    BY DEF TypeInv, TypeOK
  <2>3. /\ imp'[p].phase = PhaseAt(f, 1)
        /\ imp'[p].pos = 1
        /\ imp'[p].file = f
        /\ imp'[p] \in Request
    BY <1>1, <2>1, <2>2 DEF StartImport, Request
  <2>4. \A q \in Importer \ {p} : imp'[q] = imp[q]
    BY <1>1, <2>2 DEF StartImport
  <2>5. imp' \in [Importer -> Request \cup {Idle}]
    BY <1>1, <2>2, <2>3 DEF StartImport
  <2>6. CursorOK'
    BY <2>1, <2>3, <2>4 DEF TypeInv, CursorOK, CurTxn
  <2>7. {f.txns[n] : n \in 1 .. TxnCount(f)} \subseteq Txn
    BY ImportAssumption DEF TxnCount
  <2>8. started' \in 0 .. MaxImports
    BY <1>1, ImportAssumption DEF StartImport, TypeInv, TypeOK
  <2>9. QED
    BY <1>1, <2>5, <2>6, <2>7, <2>8 DEF StartImport, TypeInv, TypeOK
<1>2. ASSUME NEW p \in Importer, ImportStep(p) PROVE TypeInv'
  <2> USE DEF At
  <2>1. imp[p].phase # "idle" => imp[p] \in Request
    BY ActiveRequest
  <2>2. CASE EnsureSecurity(p)
    <3>1. imp[p].phase # "idle" /\ imp[p].phase \in RowPhases
      BY <2>2 DEF EnsureSecurity, RowPhases
    <3>2. imp' \in [Importer -> Request \cup {Idle}] /\ CursorOK'
      BY <2>2, <3>1, GotoType DEF EnsureSecurity, Phase, RowPhases, VestPhases
    <3>3. IsinOf[CurTxn(p).key] \in Isin
      BY <2>2, <3>1, ActiveRequest, ImportAssumption
         DEF EnsureSecurity, TypeInv, CursorOK, TxnType
    <3>4. QED
      BY <2>2, <3>2, <3>3 DEF EnsureSecurity, TypeInv, TypeOK
  <2>3. CASE SecurityFails(p)
    BY <2>3, RespondType DEF SecurityFails, TypeInv, TypeOK
  <2>4. CASE LookupHash(p)
    <3>1. imp' \in [Importer -> Request \cup {Idle}] /\ CursorOK'
      BY <2>4, GotoType DEF LookupHash, Phase, RowPhases, VestPhases
    <3>2. QED
      BY <2>4, <3>1 DEF LookupHash, TypeInv, TypeOK
  <2>5. CASE ListSimilar(p)
    <3> DEFINE pick == PickAdoptable(rows, CurTxn(p), BatchHashes(imp[p].file),
                                     imp[p].claimed)
               ph   == IF pick = NoRow THEN "insert" ELSE "adopt"
    <3>1. pick \in RowId \cup {NoRow}
      BY PickInRows
    <3>2. imp' \in [Importer -> Request \cup {Idle}] /\ CursorOK'
      <4>1. imp' = [imp EXCEPT ![p].cand = pick, ![p].phase = ph]
        BY <2>5 DEF ListSimilar
      <4>2. ph \in Phase \ {"security"} /\ ph \notin VestPhases
        BY DEF Phase, VestPhases
      <4>3. imp[p].phase # "idle" /\ imp[p].phase \in RowPhases
        BY <2>5 DEF ListSimilar, RowPhases
      <4>4. ph = "adopt" => pick # NoRow
        OBVIOUS
      <4> HIDE DEF pick, ph
      <4>5. QED
        BY <3>1, <4>1, <4>2, <4>3, <4>4, MoveType
    <3>3. QED
      BY <2>5, <3>2 DEF ListSimilar, TypeInv, TypeOK
  <2>6. CASE ListFails(p)
    <3>1. imp' \in [Importer -> Request \cup {Idle}] /\ CursorOK'
      BY <2>6, GotoType DEF ListFails, Phase, RowPhases, VestPhases
    <3>2. QED
      BY <2>6, <3>1 DEF ListFails, TypeInv, TypeOK
  <2>7. CASE Adopt(p)
    <3>1. imp[p].phase # "idle" /\ imp[p].phase \in RowPhases
      BY <2>7 DEF Adopt, RowPhases
    <3>2. imp[p].claimed \cup {imp[p].cand} \in SUBSET RowId
      BY <2>1, <2>7, <3>1 DEF Adopt, TypeInv, CursorOK, Request
    <3>3. imp' \in [Importer -> Request \cup {Idle}] /\ CursorOK'
      BY <2>7, <3>1, <3>2, NextRowType DEF Adopt
    <3>4. rows' \in [RowId -> Row \cup {Unused, Deleted}]
      <4>1. CurTxn(p).new \in Hash
        BY <3>1, ActiveRequest, ImportAssumption DEF TxnType
      <4>2. ASSUME NEW c \in Live(rows)
            PROVE  [rows EXCEPT ![c].hash = CurTxn(p).new]
                      \in [RowId -> Row \cup {Unused, Deleted}]
        <5>1. rows[c] \in Row /\ rows \in [RowId -> Row \cup {Unused, Deleted}]
          BY DEF Live, TypeInv, TypeOK
        <5>2. [rows[c] EXCEPT !.hash = CurTxn(p).new] \in Row
          BY <4>1, <5>1 DEF Row
        <5>3. QED
          BY <5>1, <5>2
      <4>3. QED
        BY <2>7, <4>2 DEF Adopt, TypeInv, TypeOK
    <3>5. QED
      BY <2>7, <3>3, <3>4 DEF Adopt, TypeInv, TypeOK
  <2>8. CASE AdoptFails(p)
    <3>1. imp' \in [Importer -> Request \cup {Idle}] /\ CursorOK'
      BY <2>8, GotoType DEF AdoptFails, Phase, RowPhases, VestPhases
    <3>2. QED
      BY <2>8, <3>1 DEF AdoptFails, TypeInv, TypeOK
  <2>9. CASE InsertRow(p)
    <3>1. imp[p].phase # "idle" /\ imp[p].phase \in RowPhases
      BY <2>9 DEF InsertRow, RowPhases
    <3>2. imp' \in [Importer -> Request \cup {Idle}] /\ CursorOK'
      BY <2>1, <2>9, <3>1, NextRowType DEF InsertRow, Request
    <3>3. CurTxn(p) \in TxnType
      BY <3>1, ActiveRequest, ImportAssumption
    <3>4. rows' \in [RowId -> Row \cup {Unused, Deleted}]
      BY <2>9, <3>3 DEF InsertRow, TypeInv, TypeOK, IdsByHash, Live, Row, TxnType
    <3>5. QED
      BY <2>9, <3>2, <3>4 DEF InsertRow, TypeInv, TypeOK
  <2>10. CASE InsertFails(p)
    <3>1. imp' \in [Importer -> Request \cup {Idle}] /\ CursorOK'
      BY <2>1, <2>10, NextRowType DEF InsertFails, Request
    <3>2. QED
      BY <2>10, <3>1 DEF InsertFails, TypeInv, TypeOK
  <2>11. CASE ClearVests(p)
    <3>1. imp' \in [Importer -> Request \cup {Idle}] /\ CursorOK'
      BY <2>11, GotoType DEF ClearVests, Phase, RowPhases, VestPhases
    <3>2. QED
      BY <2>11, <3>1 DEF ClearVests, TypeInv, TypeOK
  <2>12. CASE ResolveLink(p)
    <3>1. PICK c \in RowId \cup {NoRow} :
            imp' = [imp EXCEPT ![p].cand = c, ![p].phase = "vest"]
      BY <2>12 DEF ResolveLink, IdsByHash, Live
    <3>2. imp' \in [Importer -> Request \cup {Idle}] /\ CursorOK'
      BY <2>12, <3>1, MoveType DEF ResolveLink, Phase, RowPhases, VestPhases
    <3>3. QED
      BY <2>12, <3>2 DEF ResolveLink, TypeInv, TypeOK
  <2>13. CASE InsertVest(p)
    <3>1. imp' \in [Importer -> Request \cup {Idle}] /\ CursorOK'
      BY <2>1, <2>13, NextRowType DEF InsertVest, Request
    <3>2. imp[p].cand \in RowId \cup {NoRow}
      BY <2>1, <2>13 DEF InsertVest, Request
    <3>3. vests' \in [Vest -> RowId \cup {NoRow, Absent}]
      BY <2>13, <3>2 DEF InsertVest, TypeInv, TypeOK
    <3>4. QED
      BY <2>13, <3>1, <3>3 DEF InsertVest, TypeInv, TypeOK
  <2>14. CASE InsertVestFails(p)
    <3>1. imp' \in [Importer -> Request \cup {Idle}] /\ CursorOK'
      BY <2>1, <2>14, NextRowType DEF InsertVestFails, Request
    <3>2. QED
      BY <2>14, <3>1 DEF InsertVestFails, TypeInv, TypeOK
  <2>15. CASE LogHistory(p)
    <3>1. imp' \in [Importer -> Request \cup {Idle}] /\ CursorOK'
      BY <2>15, GotoType DEF LogHistory, Phase, RowPhases, VestPhases
    <3>2. QED
      BY <2>15, <3>1 DEF LogHistory, TypeInv, TypeOK
  <2>16. CASE FinishImport(p)
    <3>1. imp' \in [Importer -> Request \cup {Idle}] /\ CursorOK'
      BY <2>16, RespondType DEF FinishImport
    <3>2. imp[p].file \in File
      BY <2>1, <2>16 DEF FinishImport, Request
    <3>3. view' \subseteq RowId \X Kind
      BY <2>16, ViewType DEF FinishImport, TypeInv, TypeOK
    <3>4. QED
      BY <2>16, <3>1, <3>2, <3>3 DEF FinishImport, TypeInv, TypeOK
  <2>17. QED
    BY <1>2, <2>2, <2>3, <2>4, <2>5, <2>6, <2>7, <2>8, <2>9, <2>10, <2>11,
       <2>12, <2>13, <2>14, <2>15, <2>16 DEF ImportStep
<1>3. CASE (\E p \in Importer : TimeOut(p)) \/ Crash
  <2>1. ASSUME NEW p \in Importer, TimeOut(p) PROVE TypeInv'
    <3>1. imp[p] \in Request
      BY <2>1 DEF TimeOut, TypeInv, TypeOK
    <3>2. imp[p].file \in File
      BY <3>1 DEF Request
    <3>3. QED
      BY <2>1, <3>2, RespondType DEF TimeOut, TypeInv, TypeOK
  <2>2. CASE Crash
    <3>1. \A p \in Importer : imp'[p].phase = "idle"
      BY <2>2 DEF Crash, Idle
    <3>2. CursorOK'
      BY <3>1 DEF CursorOK, RowPhases, VestPhases
    <3>3. QED
      BY <2>2, <3>2 DEF Crash, TypeInv, TypeOK
  <2>3. QED
    BY <1>3, <2>1, <2>2
<1>4. CASE StartDelete
  BY <1>4, CursorKept DEF StartDelete, DelStep, TypeInv, TypeOK
<1>5. CASE DeleteStep
  <2> USE DEF DelStep
  <2>1. CASE DeleteVests
    BY <2>1, CursorKept DEF DeleteVests, TypeInv, TypeOK
  <2>2. CASE DeleteTxns
    BY <2>2, CursorKept DEF DeleteTxns, TypeInv, TypeOK
  <2>3. CASE DeleteHistory
    BY <2>3, CursorKept DEF DeleteHistory, TypeInv, TypeOK
  <2>4. CASE DeleteAccountRow
    BY <2>4, CursorKept DEF DeleteAccountRow, TypeInv, TypeOK
  <2>5. CASE DeleteFails
    BY <2>5, CursorKept DEF DeleteFails, TypeInv, TypeOK
  <2>6. CASE FinishDelete
    BY <2>6, CursorKept, ViewType DEF FinishDelete, TypeInv, TypeOK
  <2>7. QED
    BY <1>5, <2>1, <2>2, <2>3, <2>4, <2>5, <2>6 DEF DeleteStep
<1>6. CASE ScheduledRefresh
  BY <1>6, CursorKept, ViewType DEF ScheduledRefresh, TypeInv, TypeOK
<1>7. CASE UNCHANGED vars
  BY <1>7, CursorKept DEF vars, TypeInv, TypeOK
<1>8. QED
  BY <1>1, <1>2, <1>3, <1>4, <1>5, <1>6, <1>7 DEF Next

(* However many requests run and whatever fails, the tables, the requests' *)
(* cursors and the deletion stay well-typed.                               *)
THEOREM TypeCorrect == Spec => []TypeOK
<1>1. Spec => []TypeInv
  BY InitType, StepType, PTL DEF Spec
<1>2. TypeInv => TypeOK
  BY DEF TypeInv
<1>3. QED
  BY <1>1, <1>2, PTL

-----------------------------------------------------------------------------
(* Neither adoption nor the linking of vests confuses two contents.        *)

(* A row a request has picked is listed and not touched again until one or *)
(* two queries later.  Meanwhile it may be deleted, but it does not become *)
(* a row of another content.                                               *)
PickedOK ==
    \A p \in Importer :
        /\ imp[p].phase = "adopt" =>
              /\ rows[imp[p].cand] # Unused
              /\ imp[p].cand \in Live(rows) =>
                    rows[imp[p].cand].key = CurTxn(p).key
        /\ HashesSeparateContent /\ imp[p].phase = "vest" /\ imp[p].cand # NoRow =>
              /\ rows[imp[p].cand] # Unused
              /\ imp[p].cand \in Live(rows) =>
                    rows[imp[p].cand].key = LinkOf[CurVest(p)].key

ContentInv == TypeInv /\ PickedOK /\ HashMatchesContent

(* The steps that write transactions. *)
LEMMA RowsWriters ==
    ASSUME [Next]_vars, rows' # rows
    PROVE  (\E p \in Importer : Adopt(p) \/ InsertRow(p)) \/ DeleteTxns
<1> USE DEF tables, ghosts
<1>1. CASE \E p \in Importer, f \in File : StartImport(p, f)
  BY <1>1 DEF StartImport
<1>2. ASSUME NEW p \in Importer, ImportStep(p)
      PROVE  Adopt(p) \/ InsertRow(p)
  BY <1>2 DEF ImportStep, EnsureSecurity, SecurityFails, LookupHash,
     ListSimilar, ListFails, AdoptFails, InsertFails, ClearVests,
     ResolveLink, InsertVest, InsertVestFails, LogHistory, FinishImport
<1>3. CASE (\E p \in Importer : TimeOut(p)) \/ Crash
  BY <1>3 DEF TimeOut, Crash
<1>4. CASE StartDelete
  BY <1>4 DEF StartDelete
<1>5. CASE DeleteStep
  BY <1>5 DEF DeleteStep, DeleteVests, DeleteHistory,
     DeleteAccountRow, DeleteFails, FinishDelete
<1>6. CASE ScheduledRefresh
  BY <1>6 DEF ScheduledRefresh
<1>7. CASE UNCHANGED vars
  BY <1>7 DEF vars
<1>8. QED
  BY <1>1, <1>2, <1>3, <1>4, <1>5, <1>6, <1>7 DEF Next

(* No step brings a deleted row back or changes a row's content. *)
LEMMA RowsKept ==
    ASSUME TypeInv, [Next]_vars, NEW i \in RowId, rows[i] # Unused
    PROVE  /\ rows'[i] # Unused
           /\ i \in Live(rows') => i \in Live(rows) /\ rows'[i].key = rows[i].key
<1> USE DEF tables, ghosts
<1>1. rows \in [RowId -> Row \cup {Unused, Deleted}]
  BY DEF TypeInv, TypeOK
<1>2. CASE rows' = rows
  BY <1>2
<1>3. ASSUME NEW p \in Importer, Adopt(p), rows' # rows
      PROVE  /\ rows'[i] # Unused
             /\ i \in Live(rows') => i \in Live(rows) /\ rows'[i].key = rows[i].key
  <2> DEFINE c == imp[p].cand
  <2>1. /\ c \in Live(rows)
        /\ rows' = [rows EXCEPT ![c].hash = CurTxn(p).new]
    BY <1>3 DEF Adopt
  <2>2. rows[c] \in Row
    BY <1>1, <2>1 DEF Live
  <2>3. CurTxn(p).new \in Hash
    BY <1>3, ActiveRequest, ImportAssumption DEF Adopt, At, RowPhases, TxnType
  <2>4. rows'[c] \in Row /\ rows'[c].key = rows[c].key
    BY <1>1, <2>1, <2>2, <2>3 DEF Row, Live
  <2>5. QED
    BY <1>1, <2>1, <2>4, ImportAssumption DEF Live
<1>4. ASSUME NEW p \in Importer, InsertRow(p)
      PROVE  /\ rows'[i] # Unused
             /\ i \in Live(rows') => i \in Live(rows) /\ rows'[i].key = rows[i].key
  <2> DEFINE t == CurTxn(p)
  <2>1. CASE \E k \in IdsByHash(rows, t.new) :
                 rows' = [rows EXCEPT ![k].kind = t.newKind]
    <3>1. PICK k \in IdsByHash(rows, t.new) :
              rows' = [rows EXCEPT ![k].kind = t.newKind]
      BY <2>1
    <3>2. k \in Live(rows) /\ rows[k] \in Row
      BY <1>1 DEF IdsByHash, Live
    <3>3. t.newKind \in Kind
      BY <1>4, ActiveRequest, ImportAssumption DEF InsertRow, At, RowPhases, TxnType
    <3>4. rows'[k] \in Row /\ rows'[k].key = rows[k].key
      BY <1>1, <3>1, <3>2, <3>3 DEF Row, Live
    <3>5. QED
      BY <1>1, <3>1, <3>2, <3>4, ImportAssumption DEF Live
  <2>2. CASE \E k \in RowId :
                 /\ rows[k] = Unused
                 /\ rows' = [rows EXCEPT ![k] =
                       [hash |-> t.new, kind |-> t.newKind, key |-> t.key]]
    BY <1>1, <2>2 DEF Live
  <2>3. QED
    BY <1>4, <2>1, <2>2 DEF InsertRow
<1>5. CASE DeleteTxns
  <2>1. rows' = [k \in RowId |-> IF k \in Live(rows) THEN Deleted ELSE rows[k]]
    BY <1>5 DEF DeleteTxns
  <2>2. i \notin Live(rows')
    BY <2>1 DEF Live
  <2>3. QED
    BY <2>1, <2>2, ImportAssumption
<1>6. QED
  BY <1>2, <1>3, <1>4, <1>5, RowsWriters

(* Which steps change which request, and which ones pick a row. *)
LEMMA RequestsKept ==
    ASSUME TypeInv, [Next]_vars, NEW q \in Importer,
           imp'[q].phase \in {"adopt", "vest"}
    PROVE  \/ imp'[q] = imp[q]
           \/ ListSimilar(q)
           \/ ResolveLink(q)
<1> USE DEF tables, ghosts
<1>1. imp \in [Importer -> Request \cup {Idle}]
  BY DEF TypeInv, TypeOK
<1>2. ASSUME NEW p \in Importer, NEW f \in File, StartImport(p, f)
      PROVE  imp'[q] = imp[q]
  <2>1. PhaseAt(f, 1) \notin {"adopt", "vest"}
    BY PhaseAtType
  <2>2. QED
    BY <1>1, <1>2, <2>1 DEF StartImport
<1>3. ASSUME NEW p \in Importer, ImportStep(p)
      PROVE  imp'[q] = imp[q] \/ ListSimilar(q) \/ ResolveLink(q)
  <2>1. CASE q # p
    BY <1>1, <1>3, <2>1 DEF ImportStep, EnsureSecurity, SecurityFails,
       LookupHash, ListSimilar, ListFails, Adopt, AdoptFails, InsertRow,
       InsertFails, ClearVests, ResolveLink, InsertVest, InsertVestFails,
       LogHistory, FinishImport, Goto, NextRow, Respond
  <2>2. CASE q = p /\ ~ListSimilar(p) /\ ~ResolveLink(p)
    <3>1. imp[p].phase # "idle"
      BY <1>3 DEF ImportStep, EnsureSecurity, SecurityFails, LookupHash,
         ListSimilar, ListFails, Adopt, AdoptFails, InsertRow, InsertFails,
         ClearVests, ResolveLink, InsertVest, InsertVestFails, LogHistory,
         FinishImport, At
    <3>2. /\ imp[p] \in Request
          /\ imp[p].file \in File
          /\ imp[p].pos + 1 \in Nat \ {0}
      BY <3>1, ActiveRequest DEF Request
    <3>3. PhaseAt(imp[p].file, imp[p].pos + 1) \notin {"adopt", "vest"}
      BY <3>2, PhaseAtType
    <3>4. imp'[p].phase \notin {"adopt", "vest"}
      <4>1. \/ \E ph \in {"lookup", "similar", "insert", "link", "refresh"} :
                  Goto(p, ph)
            \/ \E c : NextRow(p, c)
            \/ Respond(p)
        BY <1>3, <2>2 DEF ImportStep, EnsureSecurity, SecurityFails,
           LookupHash, ListFails, Adopt, AdoptFails, InsertRow, InsertFails,
           ClearVests, InsertVest, InsertVestFails, LogHistory, FinishImport
      <4>2. ASSUME NEW ph \in {"lookup", "similar", "insert", "link", "refresh"},
                   Goto(p, ph)
            PROVE  imp'[p].phase \notin {"adopt", "vest"}
        <5>1. imp'[p] = [imp[p] EXCEPT !.phase = ph]
          BY <1>1, <4>2 DEF Goto
        <5>2. imp'[p].phase = ph
          BY <3>2, <5>1 DEF Request
        <5>3. QED
          BY <5>2
      <4>3. ASSUME NEW c, NextRow(p, c)
            PROVE  imp'[p].phase \notin {"adopt", "vest"}
        <5>1. imp'[p] = [imp[p] EXCEPT
                           !.pos = imp[p].pos + 1,
                           !.phase = PhaseAt(imp[p].file, imp[p].pos + 1),
                           !.cand = NoRow, !.claimed = c]
          BY <1>1, <4>3 DEF NextRow
        <5>2. imp'[p].phase = PhaseAt(imp[p].file, imp[p].pos + 1)
          BY <3>2, <5>1 DEF Request
        <5>3. QED
          BY <3>3, <5>2
      <4>4. CASE Respond(p)
        BY <1>1, <4>4 DEF Respond, Idle
      <4>5. QED
        BY <4>1, <4>2, <4>3, <4>4
    <3>5. QED
      BY <2>2, <3>4
  <2>3. QED
    BY <2>1, <2>2
<1>4. CASE (\E p \in Importer : TimeOut(p)) \/ Crash
  BY <1>1, <1>4 DEF TimeOut, Crash, Respond, Idle
<1>5. CASE UNCHANGED imp
  BY <1>5
<1>6. QED
  BY <1>2, <1>3, <1>4, <1>5 DEF Next, StartDelete, DeleteStep, DeleteVests,
     DeleteTxns, DeleteHistory, DeleteAccountRow, DeleteFails, FinishDelete,
     ScheduledRefresh, vars

(* Looking a row up by hash finds the content the hash stands for. *)
LEMMA HashFindsContent ==
    ASSUME HashesSeparateContent, HashMatchesContent, NEW t \in Txn,
           NEW i \in IdsByHash(rows, t.new)
    PROVE  rows[i].key = t.key
BY DEF HashesSeparateContent, HashMatchesContent, IdsByHash

(* A row picked for adoption keeps its content until it is adopted.        *)
LEMMA PickedKept ==
    ASSUME ContentInv, [Next]_vars PROVE PickedOK'
<1>1. TypeInv /\ PickedOK /\ HashMatchesContent /\ TypeInv'
  BY StepType DEF ContentInv
<1> SUFFICES ASSUME NEW q \in Importer
             PROVE  /\ imp'[q].phase = "adopt" =>
                          /\ rows'[imp'[q].cand] # Unused
                          /\ imp'[q].cand \in Live(rows') =>
                                rows'[imp'[q].cand].key = CurTxn(q)'.key
                    /\ /\ HashesSeparateContent
                       /\ imp'[q].phase = "vest"
                       /\ imp'[q].cand # NoRow
                       =>
                          /\ rows'[imp'[q].cand] # Unused
                          /\ imp'[q].cand \in Live(rows') =>
                                rows'[imp'[q].cand].key
                                  = LinkOf[CurVest(q)'].key
  BY DEF PickedOK
<1>2. CASE imp'[q].phase \notin {"adopt", "vest"}
  BY <1>2
<1>3. CASE imp'[q].phase \in {"adopt", "vest"} /\ imp'[q] = imp[q]
  <2>1. imp[q].phase # "idle" /\ imp[q] \in Request
    BY <1>1, <1>3, ActiveRequest
  <2>2. imp[q].cand \in RowId \cup {NoRow}
    BY <2>1 DEF Request
  <2>3. imp[q].phase = "adopt" => imp[q].cand # NoRow
    BY <1>1 DEF TypeInv, CursorOK
  <2>4. CurTxn(q)' = CurTxn(q) /\ CurVest(q)' = CurVest(q)
    BY <1>3 DEF CurTxn, CurVest
  <2>5. CASE imp[q].cand = NoRow
    BY <1>3, <2>3, <2>5
  <2>6. CASE imp[q].cand \in RowId
    <3>1. rows[imp[q].cand] # Unused =>
            /\ rows'[imp[q].cand] # Unused
            /\ imp[q].cand \in Live(rows') =>
                 /\ imp[q].cand \in Live(rows)
                 /\ rows'[imp[q].cand].key = rows[imp[q].cand].key
      BY <1>1, <2>6, RowsKept
    <3>2. imp[q].cand # NoRow
      BY <2>6, ImportAssumption DEF NoRow
    <3>3. QED
      BY <1>1, <1>3, <2>4, <3>1, <3>2 DEF PickedOK
  <2>7. QED
    BY <2>2, <2>5, <2>6
<1>4. CASE ListSimilar(q)
  <2> DEFINE pick == PickAdoptable(rows, CurTxn(q), BatchHashes(imp[q].file),
                                   imp[q].claimed)
  <2>1. imp' = [imp EXCEPT ![q].cand = pick,
                           ![q].phase = IF pick = NoRow
                                        THEN "insert" ELSE "adopt"]
    BY <1>4 DEF ListSimilar
  <2>2. pick # NoRow => pick \in Similar(rows, CurTxn(q)) /\ pick \in RowId
    BY PickInRows
  <2> HIDE DEF pick
  <2>3. /\ imp'[q].cand = pick
        /\ imp'[q].phase = IF pick = NoRow THEN "insert" ELSE "adopt"
        /\ CurTxn(q)' = CurTxn(q)
        /\ rows' = rows
    <3>1. imp \in [Importer -> Request \cup {Idle}]
      BY <1>1 DEF TypeInv, TypeOK
    <3>2. imp[q] \in Request
      BY <1>1, <1>4, ActiveRequest DEF ListSimilar, At
    <3>3. imp'[q] = [imp[q] EXCEPT !.cand = pick,
                                   !.phase = IF pick = NoRow
                                             THEN "insert" ELSE "adopt"]
      BY <2>1, <3>1
    <3>4. rows' = rows
      BY <1>4 DEF ListSimilar, tables
    <3>5. /\ imp'[q].cand = pick
          /\ imp'[q].phase = IF pick = NoRow THEN "insert" ELSE "adopt"
          /\ imp'[q].file = imp[q].file
          /\ imp'[q].pos = imp[q].pos
      BY <3>2, <3>3 DEF Request
    <3>6. QED
      BY <3>4, <3>5 DEF CurTxn
  <2>4. pick # NoRow =>
          /\ rows[pick] # Unused
          /\ rows[pick].key = CurTxn(q).key
    BY <2>2 DEF Similar, Live
  <2>5. QED
    BY <2>3, <2>4
<1>5. CASE ResolveLink(q)
  <2> DEFINE t   == LinkOf[CurVest(q)]
             ids == IF t = NoTxn THEN {} ELSE IdsByHash(rows, t.new)
  <2>1. CurVest(q) \in Vest /\ imp[q] \in Request
    BY <1>1, <1>5, ActiveRequest DEF ResolveLink, At, VestPhases
  <2>2. t \in Txn \cup {NoTxn}
    BY <2>1, ImportAssumption
  <2>3. PICK c \in ids \cup {NoRow} :
          imp' = [imp EXCEPT ![q].cand = c, ![q].phase = "vest"]
    BY <1>5 DEF ResolveLink
  <2>4. HashesSeparateContent /\ c # NoRow =>
          rows[c] # Unused /\ rows[c].key = t.key
    BY <1>1, <2>2, <2>3, HashFindsContent DEF IdsByHash, Live
  <2>5. /\ imp'[q].cand = c
        /\ imp'[q].phase = "vest"
        /\ CurVest(q)' = CurVest(q)
        /\ rows' = rows
    <3>1. imp \in [Importer -> Request \cup {Idle}]
      BY <1>1 DEF TypeInv, TypeOK
    <3>2. imp'[q] = [imp[q] EXCEPT !.cand = c, !.phase = "vest"]
      BY <2>3, <3>1
    <3>3. QED
      BY <1>5, <2>1, <3>2 DEF ResolveLink, tables, CurVest, Request
  <2>6. QED
    BY <2>4, <2>5
<1>6. QED
  BY <1>1, <1>2, <1>3, <1>4, <1>5, RequestsKept

(* Every step keeps hashes and contents together.                          *)
LEMMA ContentKept ==
    ASSUME ContentInv, [Next]_vars
    PROVE  HashMatchesContent'
<1> USE DEF tables, ghosts
<1>1. TypeInv /\ PickedOK /\ HashMatchesContent /\ TypeInv'
  BY StepType DEF ContentInv
<1>2. rows \in [RowId -> Row \cup {Unused, Deleted}]
  BY <1>1 DEF TypeInv, TypeOK
<1> SUFFICES ASSUME NEW i \in Live(rows')
             PROVE  \E t \in Txn : /\ rows'[i].hash \in {t.old, t.new}
                                   /\ rows'[i].key = t.key
  BY DEF HashMatchesContent, Live
<1>3. CASE i \in Live(rows) /\ rows'[i] \in Row /\ rows'[i].hash = rows[i].hash
  <2>1. rows'[i].key = rows[i].key
    BY <1>1, <1>3, RowsKept DEF Live
  <2>2. QED
    BY <1>1, <1>3, <2>1 DEF HashMatchesContent
<1>4. ASSUME NEW p \in Importer, Adopt(p), imp[p].cand = i, i \in Live(rows)
      PROVE  \E t \in Txn : /\ rows'[i].hash \in {t.old, t.new}
                            /\ rows'[i].key = t.key
  <2>1. CurTxn(p) \in Txn /\ rows[i].key = CurTxn(p).key
    BY <1>1, <1>4, ActiveRequest DEF Adopt, At, RowPhases, PickedOK
  <2>2. rows'[i].hash = CurTxn(p).new /\ rows'[i].key = rows[i].key
    BY <1>2, <1>4 DEF Adopt, Live, Row
  <2>3. QED
    BY <2>1, <2>2
<1>5. ASSUME NEW p \in Importer, InsertRow(p), i \notin Live(rows)
      PROVE  \E t \in Txn : /\ rows'[i].hash \in {t.old, t.new}
                            /\ rows'[i].key = t.key
  <2>1. CurTxn(p) \in Txn
    BY <1>1, <1>5, ActiveRequest DEF InsertRow, At, RowPhases
  <2>2. rows'[i].hash = CurTxn(p).new /\ rows'[i].key = CurTxn(p).key
    BY <1>2, <1>5 DEF InsertRow, IdsByHash, Live
  <2>3. QED
    BY <2>1, <2>2
<1>6. ASSUME NEW p \in Importer, Adopt(p), ~(imp[p].cand = i /\ i \in Live(rows))
      PROVE  rows'[i] = rows[i]
  BY <1>2, <1>6 DEF Adopt, Live
<1>7. ASSUME NEW p \in Importer, InsertRow(p), i \in Live(rows)
      PROVE  rows'[i].hash = rows[i].hash
  BY <1>2, <1>7 DEF InsertRow, IdsByHash, Live, Row
<1>8. ~DeleteTxns
  <2>1. i \in RowId /\ rows'[i] # Deleted
    BY DEF Live
  <2>2. rows'[i] # Unused
    BY DEF Live
  <2>3. QED
    BY <2>1, <2>2 DEF DeleteTxns, Live
<1>9. rows'[i] \in Row
  BY <1>1 DEF TypeInv, TypeOK, Live
<1>10. rows'[i] = rows[i] => i \in Live(rows)
  BY DEF Live
<1>11. QED
  BY <1>3, <1>4, <1>5, <1>6, <1>7, <1>8, <1>9, <1>10, RowsWriters

(* A legacy database pairs hashes and contents.                            *)
LEMMA InitContent == Init => ContentInv
<1> SUFFICES ASSUME Init PROVE ContentInv
  OBVIOUS
<1>1. TypeInv
  BY InitType
<1>2. PICK old \in SUBSET Txn :
        rows \in [RowId -> {LegacyRow(t) : t \in old} \cup {Unused}]
  BY DEF Init
<1>3. HashMatchesContent
  BY <1>2 DEF HashMatchesContent, Live, LegacyRow
<1>4. PickedOK
  BY DEF Init, Idle, PickedOK
<1>5. QED
  BY <1>1, <1>3, <1>4 DEF ContentInv

(* However imports and deletions interleave and whatever fails, every row  *)
(* carries the hash of a transaction of its own content: the row adopted   *)
(* two queries after it was listed is still a row of that content.         *)
THEOREM ContentSafe == Spec => []HashMatchesContent
<1>1. Init => ContentInv
  BY InitContent
<1>2. ContentInv /\ [Next]_vars => ContentInv'
  BY StepType, PickedKept, ContentKept DEF ContentInv
<1>3. ContentInv => HashMatchesContent
  BY DEF ContentInv
<1>4. QED
  BY <1>1, <1>2, <1>3, PTL DEF Spec

(* Every step keeps vests linked to their siblings.                        *)
LEMMA LinksKept ==
    ASSUME HashesSeparateContent, ContentInv, VestLinksSibling, [Next]_vars
    PROVE  VestLinksSibling'
<1> USE DEF tables, ghosts
<1>1. TypeInv /\ PickedOK /\ TypeInv'
  BY StepType DEF ContentInv
<1> SUFFICES ASSUME NEW v \in Vest, vests'[v] \in RowId
             PROVE  /\ vests'[v] \in Live(rows')
                    /\ rows'[vests'[v]].key = LinkOf[v].key
  BY DEF VestLinksSibling
<1>2. vests \in [Vest -> RowId \cup {NoRow, Absent}]
  BY <1>1 DEF TypeInv, TypeOK
<1>3. CASE vests'[v] = vests[v] /\ ~DeleteTxns
  <2>1. vests[v] \in Live(rows) /\ rows[vests[v]].key = LinkOf[v].key
    BY <1>3 DEF VestLinksSibling
  <2>2. vests[v] \in Live(rows')
    <3>1. CASE rows' = rows
      BY <2>1, <3>1
    <3>2. ASSUME NEW p \in Importer, Adopt(p)
          PROVE  vests[v] \in Live(rows')
      <4>1. CurTxn(p).new \in Hash
        BY <1>1, <3>2, ActiveRequest, ImportAssumption
           DEF Adopt, At, RowPhases, TxnType
      <4>2. rows'[vests[v]] \in Row
        BY <1>1, <2>1, <3>2, <4>1 DEF Adopt, TypeInv, TypeOK, Live, Row
      <4>3. QED
        BY <2>1, <4>2, ImportAssumption DEF Live
    <3>3. ASSUME NEW p \in Importer, InsertRow(p)
          PROVE  vests[v] \in Live(rows')
      <4>1. CurTxn(p).newKind \in Kind
        BY <1>1, <3>3, ActiveRequest, ImportAssumption
           DEF InsertRow, At, RowPhases, TxnType
      <4>2. rows'[vests[v]] \in Row
        BY <1>1, <2>1, <3>3, <4>1
           DEF InsertRow, TypeInv, TypeOK, IdsByHash, Live, Row
      <4>3. QED
        BY <2>1, <4>2, ImportAssumption DEF Live
    <3>4. QED
      BY <1>3, <3>1, <3>2, <3>3, RowsWriters
  <2>3. rows'[vests[v]].key = rows[vests[v]].key
    BY <1>1, <2>1, <2>2, RowsKept DEF Live
  <2>4. QED
    BY <1>3, <2>1, <2>2, <2>3
<1>4. ASSUME NEW p \in Importer, InsertVest(p), vests'[v] # vests[v]
      PROVE  /\ vests'[v] \in Live(rows')
             /\ rows'[vests'[v]].key = LinkOf[v].key
  <2>1. v = CurVest(p) /\ vests'[v] = imp[p].cand
    BY <1>2, <1>4 DEF InsertVest
  <2>2. imp[p].cand # NoRow
    BY <2>1, ImportAssumption DEF NoRow
  <2>3. imp[p].cand \in Live(rows)
    BY <1>4, <2>2 DEF InsertVest, VestRefsExist
  <2>4. rows[imp[p].cand].key = LinkOf[v].key
    BY <1>1, <1>4, <2>1, <2>2, <2>3 DEF InsertVest, At, PickedOK
  <2>5. QED
    BY <1>4, <2>1, <2>3, <2>4 DEF InsertVest
<1>5. ASSUME vests'[v] # vests[v]
      PROVE  \E p \in Importer : InsertVest(p)
  <2>1. ~(vests'[v] = Absent)
    BY ImportAssumption DEF Absent
  <2>2. ASSUME NEW p \in Importer, NEW f \in File, StartImport(p, f)
        PROVE  FALSE
    BY <1>5, <2>2 DEF StartImport
  <2>3. ASSUME NEW p \in Importer, ImportStep(p) PROVE InsertVest(p)
    <3>1. ~ClearVests(p)
      BY <1>5, <2>1 DEF ClearVests
    <3>2. QED
      BY <1>5, <2>3, <3>1 DEF ImportStep, EnsureSecurity, SecurityFails,
         LookupHash, ListSimilar, ListFails, Adopt, AdoptFails, InsertRow,
         InsertFails, ResolveLink, InsertVestFails, LogHistory, FinishImport
  <2>4. ~Crash /\ ~\E p \in Importer : TimeOut(p)
    BY <1>5 DEF TimeOut, Crash
  <2>5. ~StartDelete
    BY <1>5 DEF StartDelete
  <2>6. ~DeleteStep
    BY <1>5, <2>1 DEF DeleteStep, DeleteVests, DeleteTxns, DeleteHistory,
       DeleteAccountRow, DeleteFails, FinishDelete
  <2>7. ~ScheduledRefresh /\ ~UNCHANGED vars
    BY <1>5 DEF ScheduledRefresh, vars
  <2>8. QED
    BY <2>2, <2>3, <2>4, <2>5, <2>6, <2>7 DEF Next
<1>6. DeleteTxns => vests'[v] = vests[v] /\ vests[v] \notin RowId
  BY DEF DeleteTxns, TxnsReferenced
<1>7. QED
  BY <1>3, <1>4, <1>5, <1>6

(* Provided hashes tell contents apart, a vest linked to its sibling keeps *)
(* naming an existing row of the sibling's content: imports only relabel   *)
(* rows within a content and the deletion stops at linked vests.           *)
THEOREM LinksSafe ==
    ASSUME HashesSeparateContent PROVE Spec => []VestLinksSibling
<1> DEFINE LinkInv == ContentInv /\ VestLinksSibling
<1>1. Init => LinkInv
  <2>1. Init => VestLinksSibling
    BY ImportAssumption DEF Init, VestLinksSibling, Absent
  <2>2. QED
    BY <2>1, InitContent
<1>2. LinkInv /\ [Next]_vars => LinkInv'
  BY StepType, PickedKept, ContentKept, LinksKept, HashesSeparateContent
     DEF ContentInv
<1>3. LinkInv => VestLinksSibling
  OBVIOUS
<1> HIDE DEF LinkInv
<1>4. QED
  BY <1>1, <1>2, <1>3, PTL DEF Spec

-----------------------------------------------------------------------------
(* Imports that are repeated or overlap neither duplicate nor lose rows.   *)

(* A hash belongs to one transaction, whichever release computed it.       *)
HashesTellTxns ==
    \A t, u \in Txn : {t.old, t.new} \cap {u.old, u.new} # {} => t = u

(* An export that lists a transaction lists all of the same content.       *)
WholeDays ==
    \A f \in File : \A t \in Entries(f) : \A u \in Txn :
        u.key = t.key => u \in Entries(f)

(* Two exports list the transactions of one content in the same order.     *)
SameOrder ==
    \A f, g \in File : \A m \in 1 .. TxnCount(f), n \in 1 .. TxnCount(g) :
        f.txns[m].key = g.txns[n].key /\ f.txns[m] # g.txns[n] =>
            \/ \E i \in 1 .. m - 1 : f.txns[i] = g.txns[n]
            \/ \E j \in 1 .. n - 1 : g.txns[j] = f.txns[m]

OneAtATime == \A p, q \in Importer : p = q

(* What got a new hash kept its type, and no query that adopts a row fails. *)
RehashKeepsKind == \A t \in Txn : t.old # t.new => t.oldKind = t.newKind

Careful == RehashKeepsKind /\ "list" \notin Faults /\ "update" \notin Faults

(* No row is deleted and no row of a file is skipped. *)
Lossless == ~Deletes /\ "insert" \notin Faults

Ordered == /\ HashesTellTxns /\ WholeDays
           /\ SameOrder \/ OneAtATime
           /\ Lossless \/ Careful

(* Transactions that may adopt each other's rows. *)
Alike(t, u) == t.key = u.key /\ (RehashKeepsKind => t.newKind = u.newKind)

Taken(t) == HashTaken(rows, t.new)

(* No row that t could adopt is left under a hash of the previous release. *)
Clean(t) == \A i \in Live(rows), u \in Txn :
                Alike(t, u) /\ u.old # u.new => rows[i].hash # u.old

(* t has its row, or may have lost it but finds none to adopt. *)
Settled(t) == Taken(t) \/ (~Lossless /\ Clean(t))

(* Every row is of a transaction that somebody told of; the type follows   *)
(* when the hash does.                                                     *)
RowsOK ==
    \A i \in Live(rows) : \E u \in known :
        /\ rows[i].key = u.key
        /\ rows[i].hash \in {u.old, u.new}
        /\ rows[i].hash # u.new => rows[i].kind = u.oldKind

UniqueHash == \A i, j \in Live(rows) : rows[i].hash = rows[j].hash => i = j

Active(p) == imp[p].phase # "idle"

KnownOK == \A p \in Importer : Active(p) => Entries(imp[p].file) \subseteq known

(* What a request has passed is settled. *)
PassedBy(p) ==
    /\ \A m \in 1 .. imp[p].pos - 1 :
          m <= TxnCount(imp[p].file) => Settled(imp[p].file.txns[m])
    /\ imp[p].phase \notin RowPhases => imp[p].pos > TxnCount(imp[p].file)

PassedOK == \A p \in Importer : Active(p) => PassedBy(p)

ClaimedOK ==
    \A p \in Importer : Active(p) =>
        \A i \in imp[p].claimed :
            i \in Live(rows) => \E u \in Txn : rows[i].hash = u.new

(* A row picked for adoption is still under an old hash, or has been taken *)
(* by the transaction it was picked for or once that one was settled.      *)
AdoptOK ==
    \A p \in Importer : imp[p].phase = "adopt" =>
        /\ imp[p].cand \notin Live(rows) => Settled(CurTxn(p))
        /\ imp[p].cand \in Live(rows) =>
              \E u \in Txn :
                  /\ rows[imp[p].cand].hash \in {u.old, u.new}
                  /\ Alike(u, CurTxn(p))
                  /\ \/ rows[imp[p].cand].hash # u.new
                     \/ rows[imp[p].cand].hash = CurTxn(p).new
                     \/ Settled(CurTxn(p))

(* Only what finds nothing to adopt is inserted. *)
InsertOK ==
    Careful => \A p \in Importer :
        imp[p].phase = "insert" => Taken(CurTxn(p)) \/ Clean(CurTxn(p))

AccountOK == ~Deletes => account /\ del = "idle"

OrderInv == /\ ContentInv /\ RowsOK /\ UniqueHash /\ KnownOK /\ PassedOK
            /\ ClaimedOK /\ AdoptOK /\ InsertOK /\ AccountOK

(* The transaction a hash belongs to. *)
LEMMA HashTells ==
    ASSUME Ordered, NEW t \in Txn, NEW u \in Txn, NEW h,
           h \in {t.old, t.new}, h \in {u.old, u.new}
    PROVE  t = u
BY DEF Ordered, HashesTellTxns

(* Being alike is an equivalence.                                          *)
LEMMA AlikeEquiv ==
    /\ \A t : Alike(t, t)
    /\ \A t, u : Alike(t, u) => Alike(u, t)
    /\ \A t, u, v : Alike(t, u) /\ Alike(u, v) => Alike(t, v)
BY DEF Alike

(* What one transaction cannot find to adopt, its likes cannot either.     *)
LEMMA CleanAlike ==
    ASSUME NEW t, NEW u, Alike(t, u), Clean(t)
    PROVE  Clean(u)
BY AlikeEquiv DEF Clean

(* What a step may do to the rows: nothing, relabel one, set the type of   *)
(* one, add one, or delete all.                                            *)
SameRow(i) == rows'[i] = rows[i]

Relabels(p) ==
    LET c == imp[p].cand
        t == CurTxn(p)
    IN  /\ Adopt(p) /\ t \in Txn
        /\ c \in Live(rows) /\ Live(rows') = Live(rows)
        /\ rows'[c].hash = t.new
        /\ rows'[c].kind = rows[c].kind /\ rows'[c].key = rows[c].key
        /\ \A i \in Live(rows) \ {c} : SameRow(i)
        /\ \A i \in Live(rows) \ {c} : rows[i].hash # t.new

Retypes(p) ==
    LET t == CurTxn(p)
    IN  /\ InsertRow(p) /\ t \in Txn
        /\ Live(rows') = Live(rows)
        /\ \E c \in Live(rows) :
              /\ rows[c].hash = t.new /\ rows'[c].hash = t.new
              /\ rows'[c].kind = t.newKind /\ rows'[c].key = rows[c].key
              /\ \A i \in Live(rows) \ {c} : SameRow(i)

Adds(p) ==
    LET t == CurTxn(p)
    IN  /\ InsertRow(p) /\ t \in Txn /\ ~Taken(t)
        /\ \E c \in RowId \ Live(rows) :
              /\ Live(rows') = Live(rows) \cup {c}
              /\ rows'[c] = [hash |-> t.new, kind |-> t.newKind, key |-> t.key]
              /\ \A i \in Live(rows) : SameRow(i)

Empties == DeleteTxns /\ Live(rows') = {}

KeepsRows == Live(rows') = Live(rows) /\ \A i \in Live(rows) : SameRow(i)

(* No step does anything else to the rows.                                 *)
LEMMA RowCases ==
    ASSUME TypeInv, [Next]_vars
    PROVE  \/ KeepsRows
           \/ \E p \in Importer : Relabels(p) \/ Retypes(p) \/ Adds(p)
           \/ Empties
<1>1. rows \in [RowId -> Row \cup {Unused, Deleted}]
  BY DEF TypeInv, TypeOK
<1>2. CASE rows' = rows
  BY <1>2 DEF KeepsRows, SameRow
<1>3. ASSUME NEW p \in Importer, Adopt(p), rows' # rows
      PROVE  Relabels(p)
  <2> DEFINE c == imp[p].cand
             t == CurTxn(p)
  <2>1. t \in Txn
    BY <1>3, ActiveRequest DEF Adopt, At, RowPhases
  <2>2. /\ c \in Live(rows)
        /\ rows' = [rows EXCEPT ![c].hash = t.new]
        /\ ~Clash(c, t.new)
    BY <1>3 DEF Adopt
  <2>3. rows[c] \in Row /\ c \in RowId /\ t.new \in Hash
    BY <1>1, <2>1, <2>2, ImportAssumption DEF Live, TxnType
  <2>4. rows'[c] = [rows[c] EXCEPT !.hash = t.new]
    BY <1>1, <2>2, <2>3
  <2>5. /\ rows'[c] \in Row /\ rows'[c].hash = t.new
        /\ rows'[c].kind = rows[c].kind /\ rows'[c].key = rows[c].key
    BY <2>3, <2>4 DEF Row
  <2>6. \A i \in RowId \ {c} : rows'[i] = rows[i]
    BY <1>1, <2>2
  <2>7. Live(rows') = Live(rows)
    BY <2>2, <2>3, <2>5, <2>6, ImportAssumption DEF Live
  <2>8. \A i \in Live(rows) \ {c} : rows[i].hash # t.new
    BY <2>2 DEF Clash, IdsByHash
  <2>9. \A i \in Live(rows) \ {c} : SameRow(i)
    BY <2>6 DEF SameRow, Live
  <2>10. QED
    BY <1>3, <2>1, <2>2, <2>5, <2>7, <2>8, <2>9 DEF Relabels
<1>4. ASSUME NEW p \in Importer, InsertRow(p)
      PROVE  Retypes(p) \/ Adds(p)
  <2> DEFINE t == CurTxn(p)
  <2>1. t \in Txn /\ t \in TxnType
    BY <1>4, ActiveRequest, ImportAssumption DEF InsertRow, At, RowPhases
  <2>2. ASSUME NEW c \in IdsByHash(rows, t.new),
               rows' = [rows EXCEPT ![c].kind = t.newKind]
        PROVE  Retypes(p)
    <3>1. c \in Live(rows) /\ rows[c].hash = t.new
      BY DEF IdsByHash
    <3>2. rows[c] \in Row /\ c \in RowId
      BY <1>1, <3>1 DEF Live
    <3>3. rows'[c] = [rows[c] EXCEPT !.kind = t.newKind]
      BY <1>1, <2>2, <3>2
    <3>4. /\ rows'[c] \in Row /\ rows'[c].hash = t.new
          /\ rows'[c].kind = t.newKind /\ rows'[c].key = rows[c].key
      BY <2>1, <3>1, <3>2, <3>3 DEF Row, TxnType
    <3>5. \A i \in RowId \ {c} : rows'[i] = rows[i]
      BY <1>1, <2>2
    <3>6. Live(rows') = Live(rows)
      BY <3>1, <3>2, <3>4, <3>5, ImportAssumption DEF Live
    <3>7. \A i \in Live(rows) \ {c} : SameRow(i)
      BY <3>5 DEF SameRow, Live
    <3>8. QED
      BY <1>4, <2>1, <3>1, <3>4, <3>6, <3>7 DEF Retypes
  <2>3. ASSUME ~HashTaken(rows, t.new), NEW c \in RowId, rows[c] = Unused,
               rows' = [rows EXCEPT ![c] =
                          [hash |-> t.new, kind |-> t.newKind, key |-> t.key]]
        PROVE  Adds(p)
    <3> DEFINE r == [hash |-> t.new, kind |-> t.newKind, key |-> t.key]
    <3>1. r \in Row
      BY <2>1 DEF Row, TxnType
    <3>2. rows'[c] = r /\ \A i \in RowId \ {c} : rows'[i] = rows[i]
      BY <1>1, <2>3
    <3> HIDE DEF r
    <3>3. c \notin Live(rows) /\ Live(rows') = Live(rows) \cup {c}
      BY <2>3, <3>1, <3>2, ImportAssumption DEF Live
    <3>4. \A i \in Live(rows) : SameRow(i)
      BY <3>2, <3>3 DEF SameRow, Live
    <3>5. QED
      BY <1>4, <2>1, <2>3, <3>2, <3>3, <3>4 DEF Adds, Taken, r
  <2>4. QED
    BY <1>4, <2>2, <2>3 DEF InsertRow
<1>5. CASE DeleteTxns
  <2>1. rows' = [i \in RowId |-> IF i \in Live(rows) THEN Deleted ELSE rows[i]]
    BY <1>5 DEF DeleteTxns
  <2>2. QED
    BY <1>5, <2>1 DEF Empties, Live
<1>6. QED
  BY <1>2, <1>3, <1>4, <1>5, RowsWriters

(* An old hash never comes back. *)
LEMMA CleanStays ==
    ASSUME Ordered, TypeInv, [Next]_vars, NEW t \in Txn, Clean(t)
    PROVE  Clean(t)'
<1> SUFFICES ASSUME NEW i \in Live(rows'), NEW u \in Txn,
                    Alike(t, u), u.old # u.new, rows'[i].hash = u.old
             PROVE  FALSE
  BY DEF Clean, Alike
<1>1. i \in Live(rows) => rows[i].hash # u.old
  BY DEF Clean
<1>2. ASSUME NEW w \in Txn, rows'[i].hash = w.new PROVE FALSE
  BY <1>2, HashTells
<1>3. CASE KeepsRows
  BY <1>1, <1>3 DEF KeepsRows, SameRow
<1>4. ASSUME NEW p \in Importer, Relabels(p) PROVE FALSE
  BY <1>1, <1>2, <1>4 DEF Relabels, SameRow
<1>5. ASSUME NEW p \in Importer, Retypes(p) PROVE FALSE
  BY <1>1, <1>2, <1>5 DEF Retypes, SameRow
<1>6. ASSUME NEW p \in Importer, Adds(p) PROVE FALSE
  BY <1>1, <1>2, <1>6 DEF Adds, SameRow
<1>7. CASE Empties
  BY <1>7 DEF Empties
<1>8. QED
  BY <1>3, <1>4, <1>5, <1>6, <1>7, RowCases

(* The rows are deleted only where a loss is allowed.                      *)
LEMMA DeletesLose ==
    ASSUME AccountOK, Empties PROVE ~Lossless
BY DEF AccountOK, Empties, DeleteTxns, DelStep, Lossless

(* A transaction has its row when some row bears its new hash.             *)
LEMMA TakenIs ==
    ASSUME NEW t PROVE Taken(t) <=> \E i \in Live(rows) : rows[i].hash = t.new
BY DEF Taken, HashTaken, IdsByHash

(* A transaction loses its row only to one that was settled before, and    *)
(* then none of their kind is left to be adopted.                          *)
LEMMA TakenStays ==
    ASSUME Ordered, OrderInv, [Next]_vars, NEW t \in Txn, Taken(t)
    PROVE  Settled(t)'
<1>1. PICK i \in Live(rows) : rows[i].hash = t.new
  BY TakenIs
<1>2. TypeInv
  BY DEF OrderInv, ContentInv
<1>3. ASSUME i \in Live(rows'), rows'[i].hash = t.new PROVE Settled(t)'
  BY <1>3 DEF Settled, Taken, HashTaken, IdsByHash
<1>4. CASE KeepsRows
  BY <1>1, <1>3, <1>4 DEF KeepsRows, SameRow
<1>5. ASSUME NEW p \in Importer, Relabels(p) PROVE Settled(t)'
  <2> DEFINE c == imp[p].cand
             v == CurTxn(p)
  <2>1. CASE i # c
    BY <1>1, <1>3, <1>5, <2>1 DEF Relabels, SameRow
  <2>2. CASE i = c
    <3>1. v \in Txn /\ c \in Live(rows) /\ imp[p].phase = "adopt"
      BY <1>5 DEF Relabels, Adopt, At
    <3>2. PICK u \in Txn : /\ rows[c].hash \in {u.old, u.new}
                           /\ Alike(u, v)
                           /\ \/ rows[c].hash # u.new
                              \/ rows[c].hash = v.new
                              \/ Settled(v)
      BY <3>1 DEF OrderInv, AdoptOK
    <3>3. u = t
      BY <1>1, <2>2, <3>2, HashTells
    <3>4. CASE t = v
      BY <1>3, <1>5, <2>2, <3>4 DEF Relabels
    <3>5. CASE t # v
      <4>1. rows[c].hash # v.new
        BY <1>1, <2>2, <3>1, <3>5, HashTells
      <4>2. ~Taken(v)
        BY <1>5, <4>1, TakenIs DEF Relabels
      <4>3. ~Lossless /\ Clean(v)
        BY <1>1, <2>2, <3>2, <3>3, <4>1, <4>2 DEF Settled
      <4>4. Clean(t)
        BY <3>2, <3>3, <4>3, AlikeEquiv, CleanAlike
      <4>5. Clean(t)'
        BY <1>2, <4>4, CleanStays
      <4>6. QED
        BY <4>3, <4>5 DEF Settled
    <3>6. QED
      BY <3>4, <3>5
  <2>3. QED
    BY <2>1, <2>2
<1>6. ASSUME NEW p \in Importer, Retypes(p) PROVE Settled(t)'
  BY <1>1, <1>3, <1>6 DEF Retypes, SameRow
<1>7. ASSUME NEW p \in Importer, Adds(p) PROVE Settled(t)'
  BY <1>1, <1>3, <1>7 DEF Adds, SameRow
<1>8. CASE Empties
  <2>1. ~Lossless
    BY <1>8, DeletesLose DEF OrderInv
  <2>2. Clean(t)'
    BY <1>8 DEF Clean, Empties
  <2>3. QED
    BY <2>1, <2>2 DEF Settled
<1>9. QED
  BY <1>2, <1>4, <1>5, <1>6, <1>7, <1>8, RowCases

(* A settled transaction stays settled.                                    *)
LEMMA SettledStays ==
    ASSUME Ordered, OrderInv, [Next]_vars, NEW t \in Txn
    PROVE  /\ Settled(t) => Settled(t)'
           /\ Taken(t) \/ Clean(t) => Taken(t)' \/ Clean(t)'
<1>1. TypeInv
  BY DEF OrderInv, ContentInv
<1>2. Taken(t) => Settled(t)'
  BY TakenStays
<1>3. Clean(t) => Clean(t)'
  BY <1>1, CleanStays
<1>4. Settled(t)' <=> Taken(t)' \/ (~Lossless /\ Clean(t)')
  BY DEF Settled
<1>5. QED
  BY <1>2, <1>3, <1>4 DEF Settled

(* Known transactions stay known, and a request's are among them. *)
LEMMA KnownGrows == ASSUME [Next]_vars PROVE known \subseteq known'
<1> USE DEF tables, ghosts
<1>1. CASE \E p \in Importer, f \in File : StartImport(p, f)
  BY <1>1 DEF StartImport
<1>2. ASSUME NEW p \in Importer, ImportStep(p) PROVE known' = known
  BY <1>2 DEF ImportStep, EnsureSecurity, SecurityFails, LookupHash,
     ListSimilar, ListFails, Adopt, AdoptFails, InsertRow, InsertFails,
     ClearVests, ResolveLink, InsertVest, InsertVestFails, LogHistory,
     FinishImport
<1>3. CASE (\E p \in Importer : TimeOut(p)) \/ Crash
  BY <1>3 DEF TimeOut, Crash
<1>4. CASE StartDelete
  BY <1>4 DEF StartDelete
<1>5. CASE DeleteStep
  BY <1>5 DEF DeleteStep, DeleteVests, DeleteTxns, DeleteHistory,
     DeleteAccountRow, DeleteFails, FinishDelete
<1>6. CASE ScheduledRefresh
  BY <1>6 DEF ScheduledRefresh
<1>7. CASE UNCHANGED vars
  BY <1>7 DEF vars
<1>8. QED
  BY <1>1, <1>2, <1>3, <1>4, <1>5, <1>6, <1>7 DEF Next

(* The row a request is at was told of by its file.                        *)
LEMMA CurIsKnown ==
    ASSUME OrderInv, NEW p \in Importer, imp[p].phase \in RowPhases
    PROVE  /\ imp[p] \in Request /\ imp[p].file \in File
           /\ imp[p].pos \in 1 .. TxnCount(imp[p].file)
           /\ CurTxn(p) \in Entries(imp[p].file)
           /\ CurTxn(p) \in known /\ CurTxn(p) \in Txn
<1>1. TypeInv /\ Active(p)
  BY DEF OrderInv, ContentInv, Active, RowPhases
<1>2. imp[p] \in Request /\ CurTxn(p) \in Txn
  BY <1>1, ActiveRequest DEF Active
<1>3. imp[p].file \in File /\ imp[p].pos \in Nat \ {0}
  BY <1>2 DEF Request
<1>4. TxnCount(imp[p].file) \in Nat
  BY <1>3, ImportAssumption DEF TxnCount
<1>5. imp[p].pos \in 1 .. TxnCount(imp[p].file)
  BY <1>1, <1>3, <1>4 DEF TypeInv, CursorOK
<1>6. CurTxn(p) \in Entries(imp[p].file)
  BY <1>5 DEF CurTxn, Entries
<1>7. QED
  BY <1>1, <1>2, <1>3, <1>5, <1>6 DEF OrderInv, KnownOK

(* Every step keeps the rows owned and their hashes apart.                 *)
LEMMA RowsOKStays ==
    ASSUME Ordered, OrderInv, [Next]_vars PROVE RowsOK' /\ UniqueHash'
<1>1. TypeInv /\ RowsOK /\ UniqueHash
  BY DEF OrderInv, ContentInv
<1>2. known \subseteq known'
  BY KnownGrows
<1> DEFINE Owned(i) == \E u \in known' :
               /\ rows'[i].key = u.key
               /\ rows'[i].hash \in {u.old, u.new}
               /\ rows'[i].hash # u.new => rows'[i].kind = u.oldKind
<1>3. ASSUME NEW i \in Live(rows), SameRow(i) PROVE Owned(i)
  BY <1>1, <1>2, <1>3 DEF RowsOK, SameRow
<1>4. ASSUME NEW i, NEW u \in known, rows'[i].key = u.key, rows'[i].hash = u.new
      PROVE  Owned(i)
  BY <1>2, <1>4
<1> SUFFICES (\A i \in Live(rows') : Owned(i)) /\ UniqueHash'
  BY DEF RowsOK
<1> HIDE DEF Owned
<1>5. CASE KeepsRows
  BY <1>1, <1>3, <1>5 DEF KeepsRows, UniqueHash, SameRow
<1>6. ASSUME NEW p \in Importer, Relabels(p)
      PROVE  (\A i \in Live(rows') : Owned(i)) /\ UniqueHash'
  <2> DEFINE c == imp[p].cand
             v == CurTxn(p)
  <2>1. imp[p].phase = "adopt" /\ v \in known
    BY <1>6, CurIsKnown DEF Relabels, Adopt, At, RowPhases
  <2>2. rows'[c].key = v.key
    BY <1>6, <2>1 DEF Relabels, OrderInv, ContentInv, PickedOK
  <2>3. Owned(c)
    BY <1>4, <1>6, <2>1, <2>2 DEF Relabels
  <2>4. UniqueHash'
    BY <1>1, <1>6 DEF Relabels, UniqueHash, SameRow
  <2>5. QED
    BY <1>3, <1>6, <2>3, <2>4 DEF Relabels
<1>7. ASSUME NEW p \in Importer, Retypes(p)
      PROVE  (\A i \in Live(rows') : Owned(i)) /\ UniqueHash'
  <2>1. PICK c \in Live(rows) :
              /\ rows[c].hash = CurTxn(p).new /\ rows'[c].hash = CurTxn(p).new
              /\ rows'[c].key = rows[c].key
              /\ \A i \in Live(rows) \ {c} : SameRow(i)
    BY <1>7 DEF Retypes
  <2>2. PICK u \in known : rows[c].key = u.key /\ rows[c].hash \in {u.old, u.new}
    BY <1>1 DEF RowsOK
  <2>3. u \in Txn /\ CurTxn(p) \in Txn
    BY <1>1, <1>7 DEF Retypes, TypeInv, TypeOK
  <2>4. u = CurTxn(p)
    BY <2>1, <2>2, <2>3, HashTells
  <2>5. Owned(c)
    BY <1>4, <2>1, <2>2, <2>4
  <2>6. UniqueHash'
    BY <1>1, <1>7, <2>1 DEF Retypes, UniqueHash, SameRow
  <2>7. QED
    BY <1>3, <1>7, <2>1, <2>5, <2>6 DEF Retypes
<1>8. ASSUME NEW p \in Importer, Adds(p)
      PROVE  (\A i \in Live(rows') : Owned(i)) /\ UniqueHash'
  <2>1. PICK c \in RowId \ Live(rows) :
              /\ Live(rows') = Live(rows) \cup {c}
              /\ rows'[c] = [hash |-> CurTxn(p).new, kind |-> CurTxn(p).newKind,
                             key |-> CurTxn(p).key]
              /\ \A i \in Live(rows) : SameRow(i)
    BY <1>8 DEF Adds
  <2>2. CurTxn(p) \in known
    BY <1>8, CurIsKnown DEF Adds, InsertRow, At, RowPhases
  <2>3. rows'[c].hash = CurTxn(p).new /\ rows'[c].key = CurTxn(p).key
    BY <2>1
  <2>4. Owned(c)
    BY <1>4, <2>2, <2>3
  <2>5. \A i \in Live(rows) : rows[i].hash # CurTxn(p).new
    BY <1>8, TakenIs DEF Adds
  <2>6. UniqueHash'
    BY <1>1, <2>1, <2>3, <2>5 DEF UniqueHash, SameRow
  <2>7. QED
    BY <1>3, <2>1, <2>4, <2>6
<1>9. CASE Empties
  BY <1>9 DEF Empties, UniqueHash
<1>10. QED
  BY <1>1, <1>5, <1>6, <1>7, <1>8, <1>9, RowCases

(* What happens to a request. *)
LEMMA RequestCases ==
    ASSUME TypeInv, [Next]_vars, NEW q \in Importer
    PROVE  \/ imp'[q] = imp[q]
           \/ imp'[q] = Idle
           \/ \E f \in File : StartImport(q, f)
           \/ ImportStep(q)
<1> USE DEF tables, ghosts
<1>1. imp \in [Importer -> Request \cup {Idle}]
  BY DEF TypeInv, TypeOK
<1>2. ASSUME NEW p \in Importer, NEW f \in File, StartImport(p, f), p # q
      PROVE  imp'[q] = imp[q]
  BY <1>1, <1>2 DEF StartImport
<1>3. ASSUME NEW p \in Importer, ImportStep(p), p # q
      PROVE  imp'[q] = imp[q]
  BY <1>1, <1>3 DEF ImportStep, EnsureSecurity, SecurityFails,
     LookupHash, ListSimilar, ListFails, Adopt, AdoptFails, InsertRow,
     InsertFails, ClearVests, ResolveLink, InsertVest, InsertVestFails,
     LogHistory, FinishImport, Goto, NextRow, Respond
<1>4. CASE (\E p \in Importer : TimeOut(p)) \/ Crash
  BY <1>1, <1>4 DEF TimeOut, Crash, Respond
<1>5. CASE UNCHANGED imp
  BY <1>5
<1>6. QED
  BY <1>2, <1>3, <1>4, <1>5 DEF Next, StartDelete, DeleteStep, DeleteVests,
     DeleteTxns, DeleteHistory, DeleteAccountRow, DeleteFails, FinishDelete,
     ScheduledRefresh, vars

(* A request that stays at its row, and one that goes on to the next. *)
Stays(p, ph, c) == imp'[p] = [imp[p] EXCEPT !.phase = ph, !.cand = c]

GoesOn(p, c) == imp'[p] = [imp[p] EXCEPT
                             !.pos = imp[p].pos + 1,
                             !.phase = PhaseAt(imp[p].file, imp[p].pos + 1),
                             !.cand = NoRow, !.claimed = c]

(* Listing stays at the row, with a row to adopt or none.                  *)
LEMMA ListCase ==
    ASSUME TypeInv, NEW p \in Importer, ListSimilar(p)
    PROVE  /\ imp[p] \in Request
           /\ \E c, ph :
                /\ c = PickAdoptable(rows, CurTxn(p), BatchHashes(imp[p].file),
                                     imp[p].claimed)
                /\ ph = IF c = NoRow THEN "insert" ELSE "adopt"
                /\ Stays(p, ph, c)
<1> DEFINE c  == PickAdoptable(rows, CurTxn(p), BatchHashes(imp[p].file),
                               imp[p].claimed)
           ph == IF c = NoRow THEN "insert" ELSE "adopt"
<1>1. imp[p] \in Request /\ imp \in [Importer -> Request \cup {Idle}]
  BY ActiveRequest DEF ListSimilar, At, TypeInv, TypeOK
<1>2. imp' = [imp EXCEPT ![p].cand = c, ![p].phase = ph]
  BY DEF ListSimilar
<1> HIDE DEF c, ph
<1>3. imp'[p] = [imp[p] EXCEPT !.cand = c, !.phase = ph]
  BY <1>1, <1>2
<1>4. Stays(p, ph, c)
  BY <1>1, <1>3 DEF Stays, Request
<1>5. QED
  BY <1>1, <1>4 DEF c, ph

(* What each query of a request does to the request.                       *)
LEMMA StepCases ==
    ASSUME TypeInv, NEW p \in Importer, ImportStep(p)
    PROVE  /\ imp[p] \in Request /\ Active(p)
           /\ \/ imp'[p] = Idle /\ (SecurityFails(p) \/ FinishImport(p))
              \/ EnsureSecurity(p) /\ Stays(p, "lookup", imp[p].cand)
              \/ LookupHash(p) /\ \/ Stays(p, "similar", imp[p].cand)
                                  \/ /\ Taken(CurTxn(p))
                                     /\ Stays(p, "insert", imp[p].cand)
              \/ /\ ListSimilar(p)
                 /\ \E c, ph :
                      /\ c = PickAdoptable(rows, CurTxn(p),
                                           BatchHashes(imp[p].file),
                                           imp[p].claimed)
                      /\ ph = IF c = NoRow THEN "insert" ELSE "adopt"
                      /\ Stays(p, ph, c)
              \/ ListFails(p) /\ Stays(p, "insert", imp[p].cand)
              \/ Adopt(p) /\ GoesOn(p, imp[p].claimed \cup {imp[p].cand})
              \/ AdoptFails(p) /\ Stays(p, "insert", imp[p].cand)
              \/ (InsertRow(p) \/ InsertFails(p)) /\ GoesOn(p, imp[p].claimed)
              \/ ClearVests(p) /\ Stays(p, "link", imp[p].cand)
              \/ ResolveLink(p) /\ \E c : Stays(p, "vest", c)
              \/ (InsertVest(p) \/ InsertVestFails(p)) /\ GoesOn(p, imp[p].claimed)
              \/ LogHistory(p) /\ Stays(p, "refresh", imp[p].cand)
<1>1. Active(p)
  BY DEF ImportStep, EnsureSecurity, SecurityFails, LookupHash, ListSimilar,
     ListFails, Adopt, AdoptFails, InsertRow, InsertFails, ClearVests,
     ResolveLink, InsertVest, InsertVestFails, LogHistory, FinishImport, At,
     Active
<1>2. imp[p] \in Request
  BY <1>1, ActiveRequest DEF Active
<1>3. imp \in [Importer -> Request \cup {Idle}]
  BY DEF TypeInv, TypeOK
<1>4. ASSUME NEW ph, Goto(p, ph) PROVE Stays(p, ph, imp[p].cand)
  <2>1. imp'[p] = [imp[p] EXCEPT !.phase = ph]
    BY <1>3, <1>4 DEF Goto
  <2>2. QED
    BY <1>2, <2>1 DEF Stays, Request
<1>5. ASSUME NEW ph, NEW c, imp' = [imp EXCEPT ![p].cand = c, ![p].phase = ph]
      PROVE  Stays(p, ph, c)
  <2>1. imp'[p] = [imp[p] EXCEPT !.cand = c, !.phase = ph]
    BY <1>3, <1>5
  <2>2. QED
    BY <1>2, <2>1 DEF Stays, Request
<1>6. ASSUME NEW c, NextRow(p, c) PROVE GoesOn(p, c)
  BY <1>3, <1>6 DEF NextRow, GoesOn
<1>7. Respond(p) => imp'[p] = Idle
  BY <1>3 DEF Respond
<1>8. CASE EnsureSecurity(p)
  BY <1>1, <1>2, <1>4, <1>8 DEF EnsureSecurity
<1>9. CASE SecurityFails(p) \/ FinishImport(p)
  BY <1>1, <1>2, <1>7, <1>9 DEF SecurityFails, FinishImport
<1>10. CASE LookupHash(p)
  BY <1>1, <1>2, <1>4, <1>10 DEF LookupHash, Taken
<1>11. CASE ListSimilar(p)
  BY <1>1, <1>11, ListCase
<1>12. CASE ListFails(p)
  BY <1>1, <1>2, <1>4, <1>12 DEF ListFails
<1>13. CASE Adopt(p)
  BY <1>1, <1>2, <1>6, <1>13 DEF Adopt
<1>14. CASE AdoptFails(p)
  BY <1>1, <1>2, <1>4, <1>14 DEF AdoptFails
<1>15. CASE InsertRow(p) \/ InsertFails(p)
  BY <1>1, <1>2, <1>6, <1>15 DEF InsertRow, InsertFails
<1>16. CASE ClearVests(p)
  BY <1>1, <1>2, <1>4, <1>16 DEF ClearVests
<1>17. CASE ResolveLink(p)
  <2>1. PICK c : imp' = [imp EXCEPT ![p].cand = c, ![p].phase = "vest"]
    BY <1>17 DEF ResolveLink
  <2>2. Stays(p, "vest", c)
    BY <1>5, <2>1
  <2>3. QED
    BY <1>1, <1>2, <1>17, <2>2
<1>18. CASE InsertVest(p) \/ InsertVestFails(p)
  BY <1>1, <1>2, <1>6, <1>18 DEF InsertVest, InsertVestFails
<1>19. CASE LogHistory(p)
  BY <1>1, <1>2, <1>4, <1>19 DEF LogHistory
<1>20. QED
  BY <1>8, <1>9, <1>10, <1>11, <1>12, <1>13, <1>14, <1>15, <1>16, <1>17,
     <1>18, <1>19 DEF ImportStep

(* The fields of a request that stays at its row.                          *)
LEMMA StaysFields ==
    ASSUME NEW p, imp[p] \in Request, NEW ph, NEW c, Stays(p, ph, c)
    PROVE  /\ imp'[p].phase = ph /\ imp'[p].cand = c
           /\ imp'[p].pos = imp[p].pos /\ imp'[p].file = imp[p].file
           /\ imp'[p].claimed = imp[p].claimed
           /\ CurTxn(p)' = CurTxn(p) /\ CurVest(p)' = CurVest(p)
<1>1. /\ imp'[p].phase = ph /\ imp'[p].cand = c
      /\ imp'[p].pos = imp[p].pos /\ imp'[p].file = imp[p].file
      /\ imp'[p].claimed = imp[p].claimed
  BY DEF Stays, Request
<1>2. QED
  BY <1>1 DEF CurTxn, CurVest

(* The fields of a request that goes on to the next row.                   *)
LEMMA GoesOnFields ==
    ASSUME NEW p, imp[p] \in Request, NEW c, GoesOn(p, c)
    PROVE  /\ imp'[p].phase = PhaseAt(imp[p].file, imp[p].pos + 1)
           /\ imp'[p].phase \notin {"similar", "adopt", "insert", "vest", "idle"}
           /\ imp'[p].pos = imp[p].pos + 1 /\ imp'[p].file = imp[p].file
           /\ imp'[p].claimed = c
<1>1. /\ imp'[p].phase = PhaseAt(imp[p].file, imp[p].pos + 1)
      /\ imp'[p].pos = imp[p].pos + 1 /\ imp'[p].file = imp[p].file
      /\ imp'[p].claimed = c
  BY DEF GoesOn, Request
<1>2. \A f, n : PhaseAt(f, n) \notin {"similar", "adopt", "insert", "vest", "idle"}
  BY DEF PhaseAt
<1>3. QED
  BY <1>1, <1>2

(* The fields of a request that starts.                                    *)
LEMMA StartFields ==
    ASSUME TypeInv, NEW p \in Importer, NEW f \in File, StartImport(p, f)
    PROVE  /\ imp'[p].phase = PhaseAt(f, 1)
           /\ imp'[p].phase \notin {"similar", "adopt", "insert", "vest", "idle"}
           /\ imp'[p].pos = 1 /\ imp'[p].file = f /\ imp'[p].claimed = {}
           /\ known' = known \cup Entries(f)
<1>1. imp'[p] = [phase |-> PhaseAt(f, 1), file |-> f, pos |-> 1,
                 claimed |-> {}, cand |-> NoRow]
  BY DEF TypeInv, TypeOK, StartImport
<1>2. PhaseAt(f, 1) \notin {"similar", "adopt", "insert", "vest", "idle"}
  BY DEF PhaseAt
<1>3. QED
  BY <1>1, <1>2 DEF StartImport, Entries

(* The file of a request in progress, and what a step does to it.          *)
LEMMA FileKept ==
    ASSUME TypeInv, [Next]_vars, NEW p \in Importer, Active(p)'
    PROVE  \/ /\ Active(p) /\ imp'[p].file = imp[p].file
              /\ imp[p] \in Request
           \/ \E f \in File : StartImport(p, f)
<1>1. ASSUME Active(p) PROVE imp[p] \in Request
  BY <1>1, ActiveRequest DEF Active
<1>2. CASE imp'[p] = imp[p]
  BY <1>1, <1>2 DEF Active
<1>3. CASE imp'[p] = Idle
  BY <1>3 DEF Active, Idle
<1>4. CASE ImportStep(p) /\ imp'[p] # Idle
  <2>1. Active(p) /\ imp[p] \in Request
    BY <1>4, StepCases
  <2>2. (\E ph, c : Stays(p, ph, c)) \/ (\E c : GoesOn(p, c))
    BY <1>4, StepCases
  <2>3. QED
    BY <2>1, <2>2, StaysFields, GoesOnFields
<1>5. QED
  BY <1>2, <1>3, <1>4, RequestCases

(* A request keeps to a file that has been told of.                        *)
LEMMA KnownOKStays ==
    ASSUME OrderInv, [Next]_vars PROVE KnownOK'
<1>1. TypeInv /\ KnownOK /\ known \subseteq known'
  BY KnownGrows DEF OrderInv, ContentInv
<1> SUFFICES ASSUME NEW p \in Importer, Active(p)'
             PROVE  Entries(imp'[p].file) \subseteq known'
  BY DEF KnownOK, Active
<1>2. QED
  BY <1>1, FileKept, StartFields DEF KnownOK

(* Without deletions the account stays.                                    *)
LEMMA AccountOKStays ==
    ASSUME AccountOK, [Next]_vars PROVE AccountOK'
<1> USE DEF tables, ghosts
<1> SUFFICES ASSUME ~Deletes PROVE account' /\ del' = "idle"
  BY DEF AccountOK
<1>1. account /\ del = "idle"
  BY DEF AccountOK
<1>2. CASE \E p \in Importer, f \in File : StartImport(p, f)
  BY <1>1, <1>2 DEF StartImport
<1>3. ASSUME NEW p \in Importer, ImportStep(p)
      PROVE  account' = account /\ del' = del
  BY <1>3 DEF ImportStep, EnsureSecurity, SecurityFails, LookupHash,
     ListSimilar, ListFails, Adopt, AdoptFails, InsertRow, InsertFails,
     ClearVests, ResolveLink, InsertVest, InsertVestFails, LogHistory,
     FinishImport
<1>4. CASE (\E p \in Importer : TimeOut(p)) \/ Crash
  BY <1>1, <1>4 DEF TimeOut, Crash
<1>5. ~StartDelete /\ ~DeleteStep
  BY <1>1 DEF StartDelete, DeleteStep, DeleteVests, DeleteTxns, DeleteHistory,
     DeleteAccountRow, DeleteFails, FinishDelete, DelStep
<1>6. CASE ScheduledRefresh
  BY <1>1, <1>6 DEF ScheduledRefresh
<1>7. CASE UNCHANGED vars
  BY <1>1, <1>7 DEF vars
<1>8. QED
  BY <1>1, <1>2, <1>3, <1>4, <1>5, <1>6, <1>7 DEF Next

(* An entry of a file is a transaction. *)
LEMMA EntryIsTxn ==
    ASSUME NEW f \in File
    PROVE  /\ TxnCount(f) \in Nat
           /\ \A m \in 1 .. TxnCount(f) : f.txns[m] \in Txn /\ f.txns[m] \in Entries(f)
           /\ Entries(f) \subseteq Txn
BY ImportAssumption DEF TxnCount, Entries

(* The transaction a request leaves is settled. *)
LEMMA LeftSettled ==
    ASSUME Ordered, OrderInv, [Next]_vars, NEW p \in Importer,
           Adopt(p) \/ InsertRow(p) \/ InsertFails(p)
    PROVE  imp[p].phase \in RowPhases /\ \A t : t = CurTxn(p) => Settled(t)'
<1>1. imp[p].phase \in {"adopt", "insert"} /\ imp[p].phase \in RowPhases
  BY DEF Adopt, InsertRow, InsertFails, At, RowPhases
<1>2. CurTxn(p) \in Txn /\ TypeInv
  BY <1>1, CurIsKnown DEF OrderInv, ContentInv
<1> SUFFICES ASSUME NEW t \in Txn, t = CurTxn(p) PROVE Settled(t)'
  BY <1>1, <1>2
<1>3. ASSUME NEW i \in Live(rows'), rows'[i].hash = t.new PROVE Settled(t)'
  BY <1>3 DEF Settled, Taken, HashTaken, IdsByHash
<1>4. ASSUME Settled(t) PROVE Settled(t)'
  BY <1>4, SettledStays
<1>5. CASE Adopt(p) /\ imp[p].cand \notin Live(rows)
  BY <1>4, <1>5 DEF OrderInv, AdoptOK, Adopt, At
<1>6. CASE Adopt(p) /\ imp[p].cand \in Live(rows)
  <2> DEFINE c == imp[p].cand
  <2>1. rows' = [rows EXCEPT ![c].hash = t.new]
    BY <1>6 DEF Adopt
  <2>2. rows \in [RowId -> Row \cup {Unused, Deleted}] /\ c \in RowId
    BY <1>2, <1>6 DEF TypeInv, TypeOK, Live
  <2>3. rows[c] \in Row /\ t.new \in Hash
    BY <1>2, <1>6, <2>2, ImportAssumption DEF Live, TxnType
  <2>4. rows'[c] = [rows[c] EXCEPT !.hash = t.new]
    BY <2>1, <2>2
  <2>5. rows'[c] \in Row /\ rows'[c].hash = t.new
    BY <2>3, <2>4 DEF Row
  <2>6. c \in Live(rows')
    BY <2>2, <2>5, ImportAssumption DEF Live
  <2>7. QED
    BY <1>3, <2>5, <2>6
<1>7. CASE InsertRow(p)
  <2>1. rows \in [RowId -> Row \cup {Unused, Deleted}]
    BY <1>2 DEF TypeInv, TypeOK
  <2>2. t \in TxnType
    BY <1>2, ImportAssumption
  <2>3. ASSUME NEW c \in IdsByHash(rows, t.new),
               rows' = [rows EXCEPT ![c].kind = t.newKind]
        PROVE  Settled(t)'
    <3>1. c \in RowId /\ rows[c] \in Row /\ rows[c].hash = t.new
      BY <2>1 DEF IdsByHash, Live
    <3>2. rows'[c] = [rows[c] EXCEPT !.kind = t.newKind]
      BY <2>1, <2>3, <3>1
    <3>3. rows'[c] \in Row /\ rows'[c].hash = t.new
      BY <2>2, <3>1, <3>2 DEF Row, TxnType
    <3>4. c \in Live(rows')
      BY <3>1, <3>3, ImportAssumption DEF Live
    <3>5. QED
      BY <1>3, <3>3, <3>4
  <2>4. ASSUME NEW c \in RowId,
               rows' = [rows EXCEPT ![c] =
                          [hash |-> t.new, kind |-> t.newKind, key |-> t.key]]
        PROVE  Settled(t)'
    <3>1. rows'[c] = [hash |-> t.new, kind |-> t.newKind, key |-> t.key]
      BY <2>1, <2>4
    <3>2. rows'[c] \in Row /\ rows'[c].hash = t.new
      BY <2>2, <3>1 DEF Row, TxnType
    <3>3. c \in Live(rows')
      BY <3>2, ImportAssumption DEF Live
    <3>4. QED
      BY <1>3, <3>2, <3>3
  <2>5. QED
    BY <1>7, <2>3, <2>4 DEF InsertRow
<1>8. CASE InsertFails(p)
  <2>1. imp[p].phase = "insert"
    BY <1>8 DEF InsertFails, At
  <2>2. ~Lossless
    BY <1>8 DEF InsertFails, OrderInv, AccountOK, Lossless
  <2>3. Taken(t) \/ Clean(t)
    BY <2>1, <2>2 DEF Ordered, OrderInv, InsertOK
  <2>4. QED
    BY <1>4, <2>2, <2>3 DEF Settled
<1>9. QED
  BY <1>5, <1>6, <1>7, <1>8

(* A request past its transactions has passed them all.                    *)
LEMMA PhaseAfterRows ==
    ASSUME NEW f \in File, NEW n \in Nat \ {0}, PhaseAt(f, n) \notin RowPhases
    PROVE  n > TxnCount(f)
<1>1. TxnCount(f) \in Nat
  BY EntryIsTxn
<1>2. ~(n <= TxnCount(f))
  BY DEF PhaseAt, RowPhases
<1>3. QED
  BY <1>1, <1>2

(* What is settled in the next state is passed there.                      *)
LEMMA PassedNext ==
    ASSUME NEW p,
           \A m \in 1 .. imp'[p].pos - 1 :
               m <= TxnCount(imp'[p].file) =>
                   \E t \in Txn : t = imp'[p].file.txns[m] /\ Settled(t)',
           imp'[p].phase \notin RowPhases => imp'[p].pos > TxnCount(imp'[p].file)
    PROVE  PassedBy(p)'
<1>1. ASSUME NEW m, NEW t \in Txn, t = imp'[p].file.txns[m], Settled(t)'
      PROVE  Settled(imp[p].file.txns[m])'
  BY <1>1 DEF Settled, Taken, HashTaken, IdsByHash, Clean, Alike
<1>2. QED
  BY <1>1 DEF PassedBy

(* A request leaves only settled transactions behind.                      *)
LEMMA PassedOKStays ==
    ASSUME Ordered, OrderInv, [Next]_vars PROVE PassedOK'
<1>1. TypeInv /\ PassedOK
  BY DEF OrderInv, ContentInv
<1> SUFFICES ASSUME NEW p \in Importer, Active(p)'
             PROVE  PassedBy(p)'
  BY DEF PassedOK, Active
<1>2. ASSUME Active(p), NEW m \in 1 .. imp[p].pos - 1,
             m <= TxnCount(imp[p].file)
      PROVE  \E t \in Txn : t = imp[p].file.txns[m] /\ Settled(t)'
  <2>1. imp[p].file \in File /\ imp[p].pos \in Nat \ {0}
    BY <1>1, <1>2, ActiveRequest DEF Request, Active
  <2>2. m \in 1 .. TxnCount(imp[p].file)
    BY <1>2, <2>1, EntryIsTxn
  <2>3. imp[p].file.txns[m] \in Txn /\ Settled(imp[p].file.txns[m])
    BY <1>1, <1>2, <2>1, <2>2, EntryIsTxn DEF PassedOK, PassedBy
  <2>4. \A t \in Txn : Settled(t) => Settled(t)'
    BY SettledStays
  <2>5. QED
    BY <2>3, <2>4
<1>3. CASE imp'[p] = imp[p]
  <2>1. Active(p)
    BY <1>3 DEF Active
  <2>2. QED
    BY <1>1, <1>2, <1>3, <2>1, PassedNext DEF PassedOK, PassedBy
<1>4. ASSUME NEW f \in File, StartImport(p, f) PROVE PassedBy(p)'
  <2>1. /\ imp'[p].pos = 1 /\ imp'[p].file = f
        /\ imp'[p].phase \notin RowPhases => 1 > TxnCount(f)
    BY <1>1, <1>4, StartFields, PhaseAfterRows
  <2>2. QED
    BY <2>1, PassedNext
<1>5. ASSUME NEW ph, NEW c, Stays(p, ph, c), imp[p] \in Request, Active(p),
             ph \in RowPhases \/ imp[p].phase \notin RowPhases
      PROVE  PassedBy(p)'
  <2>1. /\ imp'[p].pos = imp[p].pos /\ imp'[p].file = imp[p].file
        /\ imp'[p].phase = ph
    BY <1>5, StaysFields
  <2>2. QED
    BY <1>1, <1>2, <1>5, <2>1, PassedNext DEF PassedOK, PassedBy
<1>6. ASSUME NEW c, GoesOn(p, c), imp[p] \in Request, Active(p),
             \/ Adopt(p) \/ InsertRow(p) \/ InsertFails(p)
             \/ imp[p].phase \notin RowPhases
      PROVE  PassedBy(p)'
  <2>1. imp[p].file \in File /\ imp[p].pos \in Nat \ {0}
    BY <1>6 DEF Request
  <2>2. /\ imp'[p].phase = PhaseAt(imp[p].file, imp[p].pos + 1)
        /\ imp'[p].pos = imp[p].pos + 1 /\ imp'[p].file = imp[p].file
    BY <1>6, GoesOnFields
  <2>3. imp'[p].phase \notin RowPhases => imp'[p].pos > TxnCount(imp'[p].file)
    BY <2>1, <2>2, PhaseAfterRows
  <2>4. ASSUME NEW m \in 1 .. imp'[p].pos - 1, m <= TxnCount(imp'[p].file)
        PROVE  \E t \in Txn : t = imp'[p].file.txns[m] /\ Settled(t)'
    <3>1. CASE m \in 1 .. imp[p].pos - 1
      BY <1>2, <1>6, <2>2, <2>4, <3>1
    <3>2. CASE m = imp[p].pos
      <4>1. imp[p].phase \in RowPhases
        BY <1>1, <1>6, <2>1, <2>2, <2>4, <3>2, EntryIsTxn
           DEF PassedOK, PassedBy
      <4>2. CurTxn(p) \in Txn /\ \A t : t = CurTxn(p) => Settled(t)'
        BY <1>6, <4>1, LeftSettled, CurIsKnown
      <4>3. imp'[p].file.txns[m] = CurTxn(p)
        BY <2>2, <3>2 DEF CurTxn
      <4>4. QED
        BY <4>2, <4>3
    <3>3. QED
      BY <2>1, <2>2, <2>4, <3>1, <3>2
  <2>5. QED
    BY <2>3, <2>4, PassedNext
<1>7. CASE ImportStep(p) /\ imp'[p] # Idle
  <2> USE DEF At
  <2>1. imp[p] \in Request /\ Active(p)
    BY <1>1, <1>7, StepCases
  <2>2. {"lookup", "similar", "adopt", "insert"} \subseteq RowPhases
        /\ {"clearVests", "link", "vest", "history"} \cap RowPhases = {}
    BY DEF RowPhases
  <2>3. \/ \E ph, c : Stays(p, ph, c) /\ ph \in RowPhases
        \/ (\E ph, c : Stays(p, ph, c)) /\ imp[p].phase \notin RowPhases
        \/ (\E c : GoesOn(p, c)) /\ (Adopt(p) \/ InsertRow(p) \/ InsertFails(p))
        \/ (\E c : GoesOn(p, c)) /\ imp[p].phase \notin RowPhases
    BY <1>1, <1>7, <2>1, <2>2, StepCases
       DEF ClearVests, ResolveLink, InsertVest, InsertVestFails, LogHistory
  <2>4. QED
    BY <1>5, <1>6, <2>1, <2>3
<1>8. CASE imp'[p] = Idle
  BY <1>8 DEF Active, Idle
<1>9. CASE \E f \in File : StartImport(p, f)
  BY <1>4, <1>9
<1>10. QED
  BY <1>1, <1>3, <1>7, <1>8, <1>9, RequestCases

(* Adopting leaves the row under the new hash, if it is still there. *)
LEMMA AdoptedHash ==
    ASSUME TypeInv, [Next]_vars, NEW p \in Importer, Adopt(p),
           imp[p].cand \in Live(rows')
    PROVE  CurTxn(p) \in Txn /\ rows'[imp[p].cand].hash = CurTxn(p).new
<1> DEFINE c == imp[p].cand
<1>1. CurTxn(p) \in Txn
  BY ActiveRequest DEF Adopt, At, RowPhases
<1>2. c \in Live(rows)
  BY DEF Adopt
<1>3. rows \in [RowId -> Row \cup {Unused, Deleted}]
  BY DEF TypeInv, TypeOK
<1>4. rows[c] \in Row /\ c \in RowId
  BY <1>2, <1>3 DEF Live
<1>5. rows'[c] = [rows[c] EXCEPT !.hash = CurTxn(p).new]
  BY <1>2, <1>3, <1>4 DEF Adopt
<1>6. QED
  BY <1>1, <1>4, <1>5 DEF Row

(* A row that is under a new hash stays so, and so is one that appears.    *)
LEMMA NewHashStays ==
    ASSUME TypeInv, [Next]_vars, NEW i \in Live(rows'),
           i \in Live(rows) => \E u \in Txn : rows[i].hash = u.new
    PROVE  \E u \in Txn : rows'[i].hash = u.new
<1>1. CASE KeepsRows
  BY <1>1 DEF KeepsRows, SameRow
<1>2. ASSUME NEW p \in Importer, Relabels(p)
      PROVE  \E u \in Txn : rows'[i].hash = u.new
  BY <1>2 DEF Relabels, SameRow
<1>3. ASSUME NEW p \in Importer, Retypes(p)
      PROVE  \E u \in Txn : rows'[i].hash = u.new
  BY <1>3 DEF Retypes, SameRow
<1>4. ASSUME NEW p \in Importer, Adds(p)
      PROVE  \E u \in Txn : rows'[i].hash = u.new
  BY <1>4 DEF Adds, SameRow
<1>5. QED
  BY <1>1, <1>2, <1>3, <1>4, RowCases DEF Empties

(* A request claims only rows under a new hash.                            *)
LEMMA ClaimedOKStays ==
    ASSUME OrderInv, [Next]_vars PROVE ClaimedOK'
<1>1. TypeInv /\ ClaimedOK
  BY DEF OrderInv, ContentInv
<1> SUFFICES ASSUME NEW p \in Importer, Active(p)',
                    NEW i \in imp'[p].claimed, i \in Live(rows')
             PROVE  \E u \in Txn : rows'[i].hash = u.new
  BY DEF ClaimedOK, Active
<1>2. ASSUME Active(p), i \in imp[p].claimed
      PROVE  \E u \in Txn : rows'[i].hash = u.new
  BY <1>1, <1>2, NewHashStays DEF ClaimedOK
<1>3. CASE imp'[p] = imp[p]
  BY <1>2, <1>3 DEF Active
<1>4. CASE imp'[p] = Idle
  BY <1>4 DEF Active, Idle
<1>5. CASE \E f \in File : StartImport(p, f)
  BY <1>1, <1>5, StartFields
<1>6. CASE ImportStep(p) /\ imp'[p] # Idle
  <2>1. imp[p] \in Request /\ Active(p)
    BY <1>1, <1>6, StepCases
  <2>2. CASE \E ph, c : Stays(p, ph, c)
    BY <1>2, <2>1, <2>2, StaysFields
  <2>3. CASE GoesOn(p, imp[p].claimed)
    BY <1>2, <2>1, <2>3, GoesOnFields
  <2>4. CASE Adopt(p) /\ GoesOn(p, imp[p].claimed \cup {imp[p].cand})
    <3>1. i \in imp[p].claimed \/ i = imp[p].cand
      BY <2>1, <2>4, GoesOnFields
    <3>2. QED
      BY <1>1, <1>2, <2>1, <2>4, <3>1, AdoptedHash
  <2>5. QED
    BY <1>1, <1>6, <2>2, <2>3, <2>4, StepCases
<1>7. QED
  BY <1>1, <1>3, <1>4, <1>5, <1>6, RequestCases

(* What the list offers, seen from the hashes.                             *)
LEMMA PickMeans ==
    ASSUME Ordered, OrderInv, NEW p \in Importer, imp[p].phase = "similar",
           NEW c, c = PickAdoptable(rows, CurTxn(p), BatchHashes(imp[p].file),
                                    imp[p].claimed)
    PROVE  /\ c # NoRow =>
                /\ c \in Live(rows)
                /\ \E u \in Txn : /\ rows[c].hash \in {u.old, u.new}
                                  /\ Alike(u, CurTxn(p)) /\ rows[c].hash # u.new
           /\ c = NoRow /\ Careful => Clean(CurTxn(p))
<1> DEFINE v == CurTxn(p)
           f == imp[p].file
           eligible == {i \in Similar(rows, v) :
                          rows[i].hash \notin BatchHashes(f)
                          /\ i \notin imp[p].claimed}
<1>1. /\ imp[p].phase \in RowPhases /\ Active(p)
      /\ f \in File /\ v \in Entries(f) /\ v \in Txn
      /\ known \subseteq Txn /\ RowsOK
  BY CurIsKnown DEF RowPhases, Active, OrderInv, ContentInv, TypeInv, TypeOK
<1>2. (c = NoRow => eligible = {}) /\ (c # NoRow => c \in eligible)
  BY PickEligible
<1>3. \A u \in Txn : u.key = v.key => u.new \in BatchHashes(f)
  BY <1>1 DEF Ordered, WholeDays, Entries, BatchHashes
<1>4. ASSUME NEW i \in eligible
      PROVE  /\ i \in Live(rows)
             /\ \E u \in Txn : /\ rows[i].hash \in {u.old, u.new}
                               /\ Alike(u, v) /\ rows[i].hash # u.new
  <2>1. i \in Live(rows) /\ rows[i].key = v.key /\ rows[i].kind = v.newKind
    BY DEF Similar
  <2>2. PICK u \in known :
          /\ rows[i].key = u.key
          /\ rows[i].hash \in {u.old, u.new}
          /\ rows[i].hash # u.new => rows[i].kind = u.oldKind
    BY <1>1, <2>1 DEF RowsOK
  <2>3. u \in Txn /\ rows[i].hash # u.new
    BY <1>1, <1>3, <2>1, <2>2
  <2>4. u.old # u.new /\ u.oldKind = v.newKind
    BY <2>1, <2>2, <2>3
  <2>5. Alike(u, v)
    BY <2>1, <2>2, <2>3, <2>4 DEF Alike, RehashKeepsKind
  <2>6. QED
    BY <2>1, <2>2, <2>3, <2>5
<1>5. ASSUME eligible = {}, Careful PROVE Clean(v)
  <2> SUFFICES ASSUME NEW i \in Live(rows), NEW u \in Txn, Alike(v, u),
                      u.old # u.new, rows[i].hash = u.old
               PROVE  FALSE
    BY DEF Clean
  <2>1. PICK w \in known :
          /\ rows[i].key = w.key
          /\ rows[i].hash \in {w.old, w.new}
          /\ rows[i].hash # w.new => rows[i].kind = w.oldKind
    BY <1>1 DEF RowsOK
  <2>2. w = u
    BY <1>1, <2>1, HashTells
  <2>3. rows[i].key = v.key /\ rows[i].kind = v.newKind
    BY <1>5, <2>1, <2>2 DEF Careful, RehashKeepsKind, Alike
  <2>4. i \in Similar(rows, v)
    BY <2>3 DEF Similar
  <2>5. rows[i].hash \notin BatchHashes(f)
    <3> SUFFICES ASSUME NEW m \in 1 .. TxnCount(f),
                        rows[i].hash = f.txns[m].new
                 PROVE  FALSE
      BY DEF BatchHashes
    <3>1. f.txns[m] \in Txn
      BY <1>1, EntryIsTxn
    <3>2. f.txns[m] = u
      BY <3>1, HashTells
    <3>3. QED
      BY <3>2
  <2>6. i \notin imp[p].claimed
    <3> SUFFICES ASSUME i \in imp[p].claimed PROVE FALSE
      OBVIOUS
    <3>1. PICK x \in Txn : rows[i].hash = x.new
      BY <1>1 DEF OrderInv, ClaimedOK
    <3>2. x = u
      BY <3>1, HashTells
    <3>3. QED
      BY <3>1, <3>2
  <2>7. QED
    BY <1>5, <2>4, <2>5, <2>6
<1> HIDE DEF eligible
<1>6. QED
  BY <1>2, <1>4, <1>5

(* A request inserts only what finds nothing to adopt.                     *)
LEMMA InsertOKStays ==
    ASSUME Ordered, OrderInv, [Next]_vars PROVE InsertOK'
<1>1. TypeInv /\ InsertOK
  BY DEF OrderInv, ContentInv
<1>2. ASSUME NEW q, NEW t, t = CurTxn(q)', Taken(t)' \/ Clean(t)'
      PROVE  (Taken(CurTxn(q)) \/ Clean(CurTxn(q)))'
  BY <1>2 DEF Taken, HashTaken, IdsByHash, Clean, Alike
<1> SUFFICES ASSUME Careful, NEW p \in Importer, imp'[p].phase = "insert"
             PROVE  \E t \in Txn : t = CurTxn(p)' /\ (Taken(t)' \/ Clean(t)')
  BY <1>2 DEF InsertOK
<1>3. ASSUME imp[p].phase \in RowPhases, CurTxn(p)' = CurTxn(p),
             Taken(CurTxn(p)) \/ Clean(CurTxn(p))
      PROVE  \E t \in Txn : t = CurTxn(p)' /\ (Taken(t)' \/ Clean(t)')
  BY <1>3, CurIsKnown, SettledStays
<1>4. CASE imp'[p] = imp[p]
  BY <1>1, <1>3, <1>4 DEF InsertOK, CurTxn, RowPhases
<1>5. imp'[p] # Idle
  BY DEF Idle
<1>6. ~\E f \in File : StartImport(p, f)
  BY <1>1, StartFields
<1>7. CASE ImportStep(p)
  <2>1. imp[p] \in Request /\ ~\E c : GoesOn(p, c)
    BY <1>1, <1>7, StepCases, GoesOnFields
  <2>2. PICK ph, c : Stays(p, ph, c)
    BY <1>1, <1>5, <1>7, <2>1, StepCases
  <2>3. ph = "insert" /\ CurTxn(p)' = CurTxn(p)
    BY <2>1, <2>2, StaysFields
  <2>4. \A phase, d : Stays(p, phase, d) => phase = "insert"
    BY <2>1, StaysFields
  <2>5. CASE LookupHash(p) /\ Taken(CurTxn(p))
    BY <1>3, <2>3, <2>5 DEF LookupHash, At, RowPhases
  <2>6. CASE ListSimilar(p) /\ PickAdoptable(rows, CurTxn(p),
                                             BatchHashes(imp[p].file),
                                             imp[p].claimed) = NoRow
    BY <1>3, <2>3, <2>6, PickMeans DEF ListSimilar, At, RowPhases
  <2>7. ~ListFails(p)
    BY DEF ListFails, Careful
  <2>8. CASE AdoptFails(p)
    <3>1. Taken(CurTxn(p))
      BY <2>8 DEF AdoptFails, Careful, Clash, Taken, HashTaken
    <3>2. QED
      BY <1>3, <2>3, <2>8, <3>1 DEF AdoptFails, At, RowPhases
  <2>9. QED
    BY <1>1, <1>5, <1>7, <2>1, <2>4, <2>5, <2>6, <2>7, <2>8, StepCases
<1>8. QED
  BY <1>1, <1>4, <1>5, <1>6, <1>7, RequestCases

(* Of two requests at rows of one content, one has passed what the other   *)
(* is about.                                                               *)
LEMMA OnePassed ==
    ASSUME Ordered, OrderInv, NEW p \in Importer, NEW q \in Importer, p # q,
           imp[p].phase \in RowPhases, imp[q].phase \in RowPhases,
           CurTxn(p).key = CurTxn(q).key, CurTxn(p) # CurTxn(q)
    PROVE  Settled(CurTxn(p)) \/ Settled(CurTxn(q))
<1> DEFINE f == imp[p].file
           g == imp[q].file
           m == imp[p].pos
           n == imp[q].pos
<1>1. /\ f \in File /\ m \in 1 .. TxnCount(f) /\ CurTxn(p) = f.txns[m]
      /\ g \in File /\ n \in 1 .. TxnCount(g) /\ CurTxn(q) = g.txns[n]
      /\ Active(p) /\ Active(q)
  BY CurIsKnown DEF CurTxn, Active, RowPhases
<1>2. f.txns[m].key = g.txns[n].key /\ f.txns[m] # g.txns[n]
  BY <1>1
<1>3. SameOrder
  BY DEF Ordered, OneAtATime
<1>4. TxnCount(f) \in Nat /\ TxnCount(g) \in Nat
  BY <1>1, EntryIsTxn
<1>5. \/ \E i \in 1 .. m - 1 : f.txns[i] = g.txns[n]
      \/ \E j \in 1 .. n - 1 : g.txns[j] = f.txns[m]
  <2> HIDE DEF f, g, m, n
  <2>1. QED
    BY <1>1, <1>2, <1>3 DEF SameOrder
<1>6. PassedBy(p) /\ PassedBy(q)
  BY <1>1 DEF OrderInv, PassedOK
<1>7. CASE \E i \in 1 .. m - 1 : f.txns[i] = g.txns[n]
  <2>1. PICK i \in 1 .. m - 1 : f.txns[i] = g.txns[n]
    BY <1>7
  <2>2. i <= TxnCount(f)
    BY <1>1, <1>4
  <2>3. QED
    BY <1>1, <1>6, <2>1, <2>2 DEF PassedBy
<1>8. CASE \E j \in 1 .. n - 1 : g.txns[j] = f.txns[m]
  <2>1. PICK j \in 1 .. n - 1 : g.txns[j] = f.txns[m]
    BY <1>8
  <2>2. j <= TxnCount(g)
    BY <1>1, <1>4
  <2>3. QED
    BY <1>1, <1>6, <2>1, <2>2 DEF PassedBy
<1>9. QED
  BY <1>5, <1>7, <1>8

(* What AdoptOK says of the row c picked for v. *)
PickFor(c, v) ==
    /\ c \notin Live(rows) => Settled(v)
    /\ c \in Live(rows) =>
          \E u \in Txn :
              /\ rows[c].hash \in {u.old, u.new}
              /\ Alike(u, v)
              /\ \/ rows[c].hash # u.new
                 \/ rows[c].hash = v.new
                 \/ Settled(v)

(* Whatever a step of another request does, a picked row stays so.         *)
LEMMA PickForStays ==
    ASSUME Ordered, OrderInv, [Next]_vars, NEW q \in Importer,
           imp[q].phase = "adopt", imp'[q] = imp[q]
    PROVE  \E v \in Txn : v = CurTxn(q) /\ PickFor(imp[q].cand, v)'
<1> DEFINE c == imp[q].cand
<1>1. TypeInv /\ imp[q].phase \in RowPhases /\ CurTxn(q) \in Txn
  BY CurIsKnown DEF OrderInv, ContentInv, RowPhases
<1> SUFFICES ASSUME NEW v \in Txn, v = CurTxn(q)
             PROVE  \E d : d = c /\ PickFor(d, v)'
  <2>1. ASSUME NEW d, d = c, NEW v, PickFor(d, v)' PROVE PickFor(imp[q].cand, v)'
    <3>1. d = imp'[q].cand
      BY <2>1
    <3>2. QED
      BY <2>1, <3>1 DEF PickFor, Settled, Taken, HashTaken, IdsByHash, Clean, Alike
  <2>2. QED
    BY <1>1, <2>1
<1> SUFFICES ASSUME NEW d, d = c PROVE PickFor(d, v)'
  OBVIOUS
<1>2. PickFor(d, v)
  BY DEF OrderInv, AdoptOK, PickFor
<1>3. Settled(v) => Settled(v)'
  BY SettledStays
<1>4. ASSUME NEW u \in Txn, rows'[d].hash \in {u.old, u.new}, Alike(u, v),
             \/ rows'[d].hash # u.new
             \/ rows'[d].hash = v.new
             \/ Settled(v)',
             d \in Live(rows')
      PROVE  PickFor(d, v)'
  BY <1>4 DEF PickFor, Alike
<1>5. ASSUME d \notin Live(rows'), Settled(v)' PROVE PickFor(d, v)'
  BY <1>5 DEF PickFor
<1>6. CASE d \notin Live(rows)
  <2>1. rows[d] # Unused /\ d \in RowId
    BY <1>1, ActiveRequest
       DEF OrderInv, ContentInv, PickedOK, TypeInv, CursorOK, Request
  <2>2. d \notin Live(rows')
    BY <1>1, <1>6, <2>1, RowsKept
  <2>3. QED
    BY <1>2, <1>3, <1>5, <1>6, <2>2 DEF PickFor
<1>7. CASE d \in Live(rows)
  <2>1. PICK u \in Txn :
          /\ rows[d].hash \in {u.old, u.new}
          /\ Alike(u, v)
          /\ \/ rows[d].hash # u.new
             \/ rows[d].hash = v.new
             \/ Settled(v)
    BY <1>2, <1>7 DEF PickFor
  <2>2. ASSUME d \in Live(rows'), rows'[d].hash = rows[d].hash PROVE PickFor(d, v)'
    BY <1>3, <1>4, <2>1, <2>2
  <2>3. CASE KeepsRows
    BY <1>7, <2>2, <2>3 DEF KeepsRows, SameRow
  <2>4. ASSUME NEW p \in Importer, Retypes(p) PROVE PickFor(d, v)'
    BY <1>7, <2>2, <2>4 DEF Retypes, SameRow
  <2>5. ASSUME NEW p \in Importer, Adds(p) PROVE PickFor(d, v)'
    BY <1>7, <2>2, <2>5 DEF Adds, SameRow
  <2>6. CASE Empties
    <3>1. ~Lossless /\ d \notin Live(rows')
      BY <2>6, DeletesLose DEF OrderInv, Empties
    <3>2. Clean(v)'
      BY <2>6 DEF Clean, Empties
    <3>3. Settled(v)'
      BY <3>1, <3>2 DEF Settled
    <3>4. QED
      BY <1>5, <3>1, <3>3
  <2>7. ASSUME NEW p \in Importer, Relabels(p) PROVE PickFor(d, v)'
    <3> DEFINE w == CurTxn(p)
    <3>1. CASE d # imp[p].cand
      BY <1>7, <2>2, <2>7, <3>1 DEF Relabels, SameRow
    <3>2. CASE d = imp[p].cand
      <4>1. imp[p].phase = "adopt" /\ imp[p].phase \in RowPhases /\ w \in Txn
        BY <2>7 DEF Relabels, Adopt, At, RowPhases
      <4>2. PICK x \in Txn :
              /\ rows[d].hash \in {x.old, x.new}
              /\ Alike(x, w)
        BY <1>7, <3>2, <4>1 DEF OrderInv, AdoptOK
      <4>3. x = u /\ Alike(w, v)
        BY <2>1, <4>2, HashTells, AlikeEquiv
      <4>4. d \in Live(rows') /\ rows'[d].hash = w.new
        BY <2>7, <3>2 DEF Relabels
      <4>5. CASE w = v
        BY <1>4, <4>1, <4>3, <4>4, <4>5
      <4>6. CASE w # v
        <5>1. p # q
          BY <4>6
        <5>2. Settled(w) \/ Settled(v)
          BY <1>1, <4>1, <4>3, <4>6, <5>1, OnePassed DEF Alike
        <5>3. ASSUME Taken(w), ~Settled(v) PROVE FALSE
          <6>1. rows[d].hash = w.new
            BY <2>7, <3>2, <5>3, TakenIs DEF Relabels
          <6>2. u = w
            BY <2>1, <4>1, <6>1, HashTells
          <6>3. w.new = v.new
            BY <2>1, <5>3, <6>1, <6>2
          <6>4. QED
            BY <4>1, <4>6, <6>3, HashTells
        <5>4. ASSUME ~Lossless, Clean(w) PROVE Settled(v)
          BY <4>3, <5>4, CleanAlike DEF Settled
        <5>5. Settled(v)
          BY <5>2, <5>3, <5>4 DEF Settled
        <5>6. QED
          BY <1>3, <1>4, <4>1, <4>3, <4>4, <5>5
      <4>7. QED
        BY <4>5, <4>6
    <3>3. QED
      BY <3>1, <3>2
  <2>8. QED
    BY <1>1, <2>3, <2>4, <2>5, <2>6, <2>7, RowCases
<1>8. QED
  BY <1>6, <1>7

(* A row picked for adoption stays fit for it.                             *)
LEMMA AdoptOKStays ==
    ASSUME Ordered, OrderInv, [Next]_vars PROVE AdoptOK'
<1>1. TypeInv
  BY DEF OrderInv, ContentInv
<1>2. AdoptOK <=> \A p \in Importer :
                     imp[p].phase = "adopt" => PickFor(imp[p].cand, CurTxn(p))
  BY DEF AdoptOK, PickFor
<1>3. ASSUME NEW p, NEW c, NEW v, c = imp'[p].cand, v = CurTxn(p)', PickFor(c, v)'
      PROVE  PickFor(imp[p].cand, CurTxn(p))'
  BY <1>3 DEF PickFor, Settled, Taken, HashTaken, IdsByHash, Clean, Alike
<1> SUFFICES ASSUME NEW p \in Importer, imp'[p].phase = "adopt"
             PROVE  \E c, v : c = imp'[p].cand /\ v = CurTxn(p)' /\ PickFor(c, v)'
  BY <1>3 DEF AdoptOK, PickFor
<1>4. CASE imp'[p] = imp[p]
  <2>1. \E v \in Txn : v = CurTxn(p) /\ PickFor(imp[p].cand, v)'
    BY <1>4, PickForStays
  <2>2. CurTxn(p)' = CurTxn(p)
    BY <1>4 DEF CurTxn
  <2>3. PICK v \in Txn : v = CurTxn(p) /\ PickFor(imp[p].cand, v)'
    BY <2>1
  <2>4. PICK c : c = imp'[p].cand
    OBVIOUS
  <2>5. PickFor(c, v)'
    BY <2>3, <2>4 DEF PickFor, Settled, Taken, HashTaken, IdsByHash, Clean, Alike
  <2>6. QED
    BY <2>2, <2>3, <2>4, <2>5
<1>5. CASE ListSimilar(p)
  <2>1. imp[p].phase = "similar" /\ imp[p].phase \in RowPhases /\ rows' = rows
    BY <1>5 DEF ListSimilar, At, RowPhases, tables
  <2>2. imp[p] \in Request /\ CurTxn(p) \in Txn
    BY <2>1, CurIsKnown
  <2>3. PICK c, ph : /\ c = PickAdoptable(rows, CurTxn(p),
                                          BatchHashes(imp[p].file),
                                          imp[p].claimed)
                     /\ ph = IF c = NoRow THEN "insert" ELSE "adopt"
                     /\ Stays(p, ph, c)
    BY <1>1, <1>5, ListCase
  <2>4. /\ imp'[p].phase = ph /\ imp'[p].cand = c /\ CurTxn(p)' = CurTxn(p)
        /\ c # NoRow
    BY <2>2, <2>3, StaysFields
  <2>5. /\ c \in Live(rows)
        /\ \E u \in Txn : /\ rows[c].hash \in {u.old, u.new}
                          /\ Alike(u, CurTxn(p)) /\ rows[c].hash # u.new
    BY <2>1, <2>3, <2>4, PickMeans
  <2>6. PICK v : v = CurTxn(p)
    OBVIOUS
  <2>7. PickFor(c, v)'
    BY <2>1, <2>5, <2>6 DEF PickFor, Alike
  <2>8. QED
    BY <2>4, <2>6, <2>7
<1>6. ~ResolveLink(p)
  <2> SUFFICES ASSUME ResolveLink(p) PROVE FALSE
    OBVIOUS
  <2>1. imp[p] \in Request /\ imp \in [Importer -> Request \cup {Idle}]
    BY <1>1, ActiveRequest DEF ResolveLink, At, TypeInv, TypeOK
  <2>2. PICK c : imp' = [imp EXCEPT ![p].cand = c, ![p].phase = "vest"]
    BY DEF ResolveLink
  <2>3. imp'[p] = [imp[p] EXCEPT !.cand = c, !.phase = "vest"]
    BY <2>1, <2>2
  <2>4. imp'[p].phase = "vest"
    BY <2>1, <2>3 DEF Request
  <2>5. QED
    BY <2>4
<1>7. QED
  BY <1>1, <1>4, <1>5, <1>6, RequestsKept

(* What the previous release left is in order. *)
LEMMA InitOrder ==
    ASSUME Ordered, Init
    PROVE  OrderInv
<1>1. ContentInv
  BY InitContent
<1>2. PICK old \in SUBSET Txn :
        /\ rows \in [RowId -> {LegacyRow(t) : t \in old} \cup {Unused}]
        /\ \A i, j \in Live(rows) : rows[i].hash = rows[j].hash => i = j
        /\ known = old
  BY DEF Init
<1>3. RowsOK
  BY <1>2 DEF RowsOK, Live, LegacyRow
<1>4. UniqueHash
  BY <1>2 DEF UniqueHash
<1>5. \A p \in Importer : imp[p].phase = "idle"
  BY DEF Init, Idle
<1>6. KnownOK /\ PassedOK /\ ClaimedOK
  BY <1>5 DEF KnownOK, PassedOK, ClaimedOK, Active
<1>7. AdoptOK /\ InsertOK
  BY <1>5 DEF AdoptOK, InsertOK
<1>8. AccountOK
  BY DEF Init, AccountOK
<1>9. QED
  BY <1>1, <1>3, <1>4, <1>6, <1>7, <1>8 DEF OrderInv

(* Every step keeps the invariant.                                         *)
LEMMA OrderStays ==
    ASSUME Ordered, OrderInv, [Next]_vars PROVE OrderInv'
<1>1. ContentInv'
  BY StepType, PickedKept, ContentKept DEF OrderInv, ContentInv
<1>2. RowsOK' /\ UniqueHash' /\ KnownOK' /\ PassedOK'
  BY RowsOKStays, KnownOKStays, PassedOKStays
<1>3. ClaimedOK' /\ AdoptOK' /\ InsertOK' /\ AccountOK'
  BY ClaimedOKStays, AdoptOKStays, InsertOKStays, AccountOKStays DEF OrderInv
<1>4. QED
  BY <1>1, <1>2, <1>3 DEF OrderInv

(* Every row stands for a known transaction of its own. *)
Stands(g, i) == \A u \in Txn : rows[i].hash \in {u.old, u.new} => Alike(g[i], u)

OwnOK ==
    Careful => \E g \in [Live(rows) -> known] :
        /\ \A i, j \in Live(rows) : g[i] = g[j] => i = j
        /\ \A i \in Live(rows) : Stands(g, i)

(* A legacy row stands for the transaction it was made from.               *)
LEMMA InitOwn ==
    ASSUME Ordered, Init
    PROVE  OwnOK
<1>1. PICK old \in SUBSET Txn :
        /\ rows \in [RowId -> {LegacyRow(t) : t \in old} \cup {Unused}]
        /\ \A i, j \in Live(rows) : rows[i].hash = rows[j].hash => i = j
        /\ known = old
  BY DEF Init
<1>2. \A i \in Live(rows) : \E t \in old : rows[i] = LegacyRow(t)
  BY <1>1 DEF Live
<1> DEFINE g == [i \in Live(rows) |-> CHOOSE t \in old : rows[i] = LegacyRow(t)]
<1>3. \A i \in Live(rows) : g[i] \in old /\ rows[i] = LegacyRow(g[i])
  BY <1>2
<1>4. g \in [Live(rows) -> known]
  BY <1>1, <1>3
<1> HIDE DEF g
<1>5. \A i \in Live(rows) : rows[i].hash = g[i].old
  <2>1. \A t : LegacyRow(t).hash = t.old
    BY DEF LegacyRow
  <2>2. QED
    BY <1>3, <2>1
<1>6. \A i, j \in Live(rows) : g[i] = g[j] => i = j
  BY <1>1, <1>5
<1>7. ASSUME NEW i \in Live(rows), NEW u \in Txn, rows[i].hash \in {u.old, u.new}
      PROVE  Alike(g[i], u)
  <2>1. g[i] \in Txn
    BY <1>1, <1>3, <1>7
  <2>2. g[i] = u
    BY <1>5, <1>7, <2>1, HashTells
  <2>3. QED
    BY <2>2, AlikeEquiv
<1>8. QED
  BY <1>4, <1>6, <1>7 DEF OwnOK, Stands

(* A new row takes its own transaction; a row of the same kind that        *)
(* stood for it moves on to the transaction whose hash it bears.           *)
LEMMA OwnStays ==
    ASSUME Ordered, OrderInv, OwnOK, [Next]_vars PROVE OwnOK'
<1>1. TypeInv /\ RowsOK /\ UniqueHash /\ known \subseteq known' /\ known \subseteq Txn
  BY KnownGrows DEF OrderInv, ContentInv, TypeInv, TypeOK
<1> SUFFICES ASSUME Careful
             PROVE  \E h \in [Live(rows') -> known'] :
                      /\ \A i, j \in Live(rows') : h[i] = h[j] => i = j
                      /\ \A i \in Live(rows'), u \in Txn :
                            rows'[i].hash \in {u.old, u.new} => Alike(h[i], u)
  BY DEF OwnOK, Stands, Alike
<1>2. PICK g \in [Live(rows) -> known] :
        /\ \A i, j \in Live(rows) : g[i] = g[j] => i = j
        /\ \A i \in Live(rows) : Stands(g, i)
  BY DEF OwnOK
<1>3. ASSUME Live(rows') = Live(rows),
             \A i \in Live(rows), u \in Txn :
                rows'[i].hash \in {u.old, u.new} => Alike(g[i], u)
      PROVE  \E h \in [Live(rows') -> known'] :
               /\ \A i, j \in Live(rows') : h[i] = h[j] => i = j
               /\ \A i \in Live(rows'), u \in Txn :
                     rows'[i].hash \in {u.old, u.new} => Alike(h[i], u)
  <2>1. g \in [Live(rows') -> known']
    BY <1>1, <1>3
  <2>2. QED
    BY <1>2, <1>3, <2>1
<1>4. CASE KeepsRows
  BY <1>2, <1>3, <1>4 DEF KeepsRows, SameRow, Stands
<1>5. ASSUME NEW p \in Importer, Relabels(p)
      PROVE  \A i \in Live(rows), u \in Txn :
                rows'[i].hash \in {u.old, u.new} => Alike(g[i], u)
  <2> SUFFICES ASSUME NEW i \in Live(rows), NEW u \in Txn,
                      rows'[i].hash \in {u.old, u.new}
               PROVE  Alike(g[i], u)
    OBVIOUS
  <2>1. CASE i # imp[p].cand
    BY <1>2, <1>5, <2>1 DEF Relabels, SameRow, Stands
  <2>2. CASE i = imp[p].cand
    <3>1. imp[p].phase = "adopt" /\ CurTxn(p) \in Txn
      BY <1>5 DEF Relabels, Adopt, At
    <3>2. PICK w \in Txn : /\ rows[i].hash \in {w.old, w.new}
                           /\ Alike(w, CurTxn(p))
      BY <2>2, <3>1 DEF OrderInv, AdoptOK
    <3>3. Alike(g[i], w)
      BY <1>2, <3>2 DEF Stands
    <3>4. u = CurTxn(p)
      BY <1>5, <2>2, <3>1, HashTells DEF Relabels
    <3>5. QED
      BY <3>2, <3>3, <3>4, AlikeEquiv
  <2>3. QED
    BY <2>1, <2>2
<1>6. ASSUME NEW p \in Importer, Retypes(p)
      PROVE  \A i \in Live(rows), u \in Txn :
                rows'[i].hash \in {u.old, u.new} => Alike(g[i], u)
  BY <1>2, <1>6 DEF Retypes, SameRow, Stands
<1>7. ASSUME NEW p \in Importer, Adds(p)
      PROVE  \E h \in [Live(rows') -> known'] :
               /\ \A i, j \in Live(rows') : h[i] = h[j] => i = j
               /\ \A i \in Live(rows'), u \in Txn :
                     rows'[i].hash \in {u.old, u.new} => Alike(h[i], u)
  <2> DEFINE t == CurTxn(p)
  <2>1. PICK c \in RowId \ Live(rows) :
              /\ Live(rows') = Live(rows) \cup {c}
              /\ rows'[c] = [hash |-> t.new, kind |-> t.newKind, key |-> t.key]
              /\ \A i \in Live(rows) : SameRow(i)
    BY <1>7 DEF Adds
  <2>2. t \in known /\ t \in Txn /\ imp[p].phase = "insert"
    BY <1>7, CurIsKnown DEF Adds, InsertRow, At, RowPhases
  <2>3. ~Taken(t) /\ Clean(t)
    BY <1>7, <2>2 DEF Adds, OrderInv, InsertOK
  <2> DEFINE Owner(i) == CHOOSE u \in known : rows[i].hash = u.new
             h == [i \in Live(rows) \cup {c} |->
                     IF i = c THEN t
                     ELSE IF Alike(g[i], t) THEN Owner(i) ELSE g[i]]
  <2> HIDE DEF t
  <2>4. ASSUME NEW i \in Live(rows), Alike(g[i], t)
        PROVE  /\ Owner(i) \in known /\ rows[i].hash = Owner(i).new
               /\ Alike(Owner(i), t)
    <3>1. PICK u \in known : rows[i].hash \in {u.old, u.new}
      BY <1>1 DEF RowsOK
    <3>2. Alike(g[i], u)
      BY <1>1, <1>2, <3>1 DEF Stands
    <3>3. Alike(t, u)
      BY <2>4, <3>2, AlikeEquiv
    <3>4. rows[i].hash = u.new
      BY <1>1, <2>3, <3>1, <3>3 DEF Clean
    <3>5. Owner(i) \in known /\ rows[i].hash = Owner(i).new
      BY <3>4
    <3>6. Owner(i) = u
      BY <1>1, <3>4, <3>5, HashTells
    <3>7. QED
      BY <3>3, <3>5, <3>6, AlikeEquiv
  <2> HIDE DEF Owner
  <2>5. h \in [Live(rows') -> known']
    BY <1>1, <2>1, <2>2, <2>4
  <2>6. /\ h[c] = t
        /\ \A i \in Live(rows) :
              h[i] = IF Alike(g[i], t) THEN Owner(i) ELSE g[i]
    BY <2>1
  <2> HIDE DEF h
  <2>7. ASSUME NEW i \in Live(rows) PROVE h[i] # h[c]
    <3>1. CASE Alike(g[i], t)
      <4>1. h[i] = Owner(i) /\ rows[i].hash = Owner(i).new
        BY <2>4, <2>6, <3>1
      <4>2. rows[i].hash # t.new
        BY <2>3, TakenIs
      <4>3. QED
        BY <2>6, <4>1, <4>2
    <3>2. CASE ~Alike(g[i], t)
      BY <2>6, <3>2, AlikeEquiv
    <3>3. QED
      BY <3>1, <3>2
  <2>8. ASSUME NEW i \in Live(rows), NEW j \in Live(rows), h[i] = h[j]
        PROVE  i = j
    <3>1. CASE Alike(g[i], t) /\ Alike(g[j], t)
      BY <1>1, <2>4, <2>6, <2>8, <3>1 DEF UniqueHash
    <3>2. CASE Alike(g[i], t) /\ ~Alike(g[j], t)
      BY <2>4, <2>6, <2>8, <3>2
    <3>3. CASE ~Alike(g[i], t) /\ Alike(g[j], t)
      BY <2>4, <2>6, <2>8, <3>3
    <3>4. CASE ~Alike(g[i], t) /\ ~Alike(g[j], t)
      BY <1>2, <2>6, <2>8, <3>4
    <3>5. QED
      BY <3>1, <3>2, <3>3, <3>4
  <2>9. ASSUME NEW i \in Live(rows'), NEW u \in Txn,
               rows'[i].hash \in {u.old, u.new}
        PROVE  Alike(h[i], u)
    <3>1. CASE i = c
      <4>1. rows'[i].hash = t.new
        BY <2>1, <3>1
      <4>2. u = t
        BY <2>2, <2>9, <4>1, HashTells
      <4>3. QED
        BY <2>6, <3>1, <4>2, AlikeEquiv
    <3>2. CASE i \in Live(rows)
      <4>1. Alike(g[i], u)
        BY <1>2, <2>1, <2>9, <3>2 DEF SameRow, Stands
      <4>2. CASE Alike(g[i], t)
        <5>1. h[i] = Owner(i) /\ Alike(Owner(i), t)
          BY <2>4, <2>6, <3>2, <4>2
        <5>2. QED
          BY <4>1, <4>2, <5>1, AlikeEquiv
      <4>3. CASE ~Alike(g[i], t)
        BY <2>6, <3>2, <4>1, <4>3
      <4>4. QED
        BY <4>2, <4>3
    <3>3. QED
      BY <2>1, <3>1, <3>2
  <2>10. \A i, j \in Live(rows') : h[i] = h[j] => i = j
    BY <2>1, <2>7, <2>8
  <2>11. QED
    BY <2>5, <2>9, <2>10
<1>8. CASE Empties
  <2> DEFINE h == [i \in {} |-> i]
  <2>1. h \in [Live(rows') -> known']
    BY <1>8 DEF Empties
  <2>2. QED
    BY <1>8, <2>1 DEF Empties
<1>9. QED
  BY <1>1, <1>3, <1>4, <1>5, <1>6, <1>7, <1>8, RowCases DEF Relabels, Retypes

(* Rows that stand for distinct transactions are at most as many.          *)
LEMMA OwnersCount ==
    ASSUME Ordered, OrderInv, OwnOK, Careful, IsFiniteSet(Txn)
    PROVE  NoDuplicates
<1> SUFFICES ASSUME NEW k \in Key
             PROVE  Cardinality({i \in Live(rows) : rows[i].key = k})
                       <= Cardinality({t \in known : t.key = k})
  BY DEF NoDuplicates
<1>1. RowsOK /\ known \subseteq Txn
  BY DEF OrderInv, ContentInv, TypeInv, TypeOK
<1>2. PICK g \in [Live(rows) -> known] :
        /\ \A i, j \in Live(rows) : g[i] = g[j] => i = j
        /\ \A i \in Live(rows) : Stands(g, i)
  BY DEF OwnOK
<1> DEFINE S == {i \in Live(rows) : rows[i].key = k}
           T == {t \in known : t.key = k}
           h == [i \in S |-> g[i]]
<1>3. ASSUME NEW i \in S PROVE g[i] \in T
  <2>1. PICK u \in known : /\ rows[i].key = u.key
                           /\ rows[i].hash \in {u.old, u.new}
    BY <1>1, <1>3 DEF RowsOK
  <2>2. Alike(g[i], u)
    BY <1>1, <1>2, <1>3, <2>1 DEF Stands
  <2>3. QED
    BY <1>2, <1>3, <2>1, <2>2 DEF Alike
<1>4. h \in [S -> T]
  BY <1>3
<1>5. \A i, j \in S : h[i] = h[j] => i = j
  BY <1>2
<1>6. h \in Injection(S, T)
  BY <1>4, <1>5 DEF Injection, IsInjective
<1>7. IsFiniteSet(T)
  BY <1>1, FS_Subset
<1> HIDE DEF S, T, h
<1>8. Cardinality(S) <= Cardinality(T)
  BY <1>6, <1>7, FS_Injection
<1>9. QED
  BY <1>8 DEF S, T

(* However imports of whole days repeat and are cut short, one at a time   *)
(* or overlapping with exports in one order, a content never gets more     *)
(* rows than transactions the files and the previous release told of, as   *)
(* long as the two queries that find and relabel a row do not fail         *)
(* (import.go, the adoption before InsertTransaction).                     *)
THEOREM ImportsNeverDuplicate ==
    ASSUME Ordered, Careful, IsFiniteSet(Txn)
    PROVE  Spec => []NoDuplicates
<1>1. Init => OrderInv /\ OwnOK
  BY InitOrder, InitOwn
<1>2. OrderInv /\ OwnOK /\ [Next]_vars => OrderInv' /\ OwnOK'
  BY OrderStays, OwnStays
<1>3. OrderInv /\ OwnOK => NoDuplicates
  BY OwnersCount
<1>4. QED
  BY <1>1, <1>2, <1>3, PTL DEF Spec

(* What was answered 200 is there, unless rows may have been deleted or    *)
(* skipped.                                                                *)
AckedOK == Lossless /\ "timeout" \notin Faults =>
              \A f \in acked : \A t \in Entries(f) : Taken(t)

(* What an import has acknowledged stays there.                            *)
LEMMA AckedStays ==
    ASSUME Ordered, OrderInv, AckedOK, [Next]_vars
    PROVE  AckedOK'
<1> SUFFICES ASSUME Lossless, "timeout" \notin Faults,
                    NEW f \in acked', NEW t \in Entries(f)
             PROVE  Taken(t)'
  BY DEF AckedOK, Entries, TxnCount
<1>1. TypeInv /\ PassedOK
  BY DEF OrderInv, ContentInv
<1>2. f \in File /\ t \in Txn
  <2>1. TypeInv'
    BY <1>1, StepType
  <2>2. f \in File
    BY <2>1 DEF TypeInv, TypeOK
  <2>3. QED
    BY <2>2, EntryIsTxn
<1>3. ASSUME Taken(t) PROVE Taken(t)'
  BY <1>2, <1>3, TakenStays DEF Settled
<1>4. CASE f \in acked
  BY <1>3, <1>4 DEF AckedOK
<1>5. CASE f \notin acked
  <2>1. PICK p \in Importer : FinishImport(p) /\ f = imp[p].file
    BY <1>5 DEF Next, vars, ImportStep, DeleteStep, StartImport, EnsureSecurity,
      SecurityFails, LookupHash, ListSimilar, ListFails, Adopt, AdoptFails,
      InsertRow, InsertFails, ClearVests, ResolveLink, InsertVest,
      InsertVestFails, LogHistory, FinishImport, TimeOut, Crash, StartDelete,
      DeleteVests, DeleteTxns, DeleteHistory, DeleteAccountRow, DeleteFails,
      FinishDelete, ScheduledRefresh, ghosts
  <2>2. PassedBy(p) /\ imp[p].phase \notin RowPhases
    BY <1>1, <2>1 DEF PassedOK, Active, FinishImport, At, RowPhases
  <2>3. PICK m \in 1 .. TxnCount(f) : t = f.txns[m]
    BY DEF Entries
  <2>4. imp[p].pos \in Nat /\ TxnCount(f) \in Nat
    <3>1. imp[p] \in Request
      BY <1>1, <2>1, ActiveRequest DEF FinishImport, At
    <3>2. QED
      BY <1>2, <3>1, EntryIsTxn DEF Request
  <2>5. m \in 1 .. imp[p].pos - 1 /\ m <= TxnCount(f)
    BY <2>1, <2>2, <2>4 DEF PassedBy
  <2>6. QED
    BY <1>3, <2>1, <2>2, <2>3, <2>5 DEF PassedBy, Settled
<1>6. QED
  BY <1>4, <1>5

(* A transaction whose file was imported with answer 200 keeps its row,    *)
(* however imports of whole days repeat, fail at a security or end with    *)
(* the process, one at a time or overlapping with exports in one order: a  *)
(* row is adopted only from a transaction that no longer needs it.  A      *)
(* request out of time answers 200 for rows it could not insert.           *)
THEOREM ImportsLoseNothing ==
    ASSUME Ordered, Lossless, "timeout" \notin Faults
    PROVE  Spec => []NoLoss
<1>1. Init => OrderInv /\ AckedOK
  <2>1. Init => AckedOK
    BY DEF Init, AckedOK
  <2>2. QED
    BY <2>1, InitOrder
<1>2. OrderInv /\ AckedOK /\ [Next]_vars => OrderInv' /\ AckedOK'
  BY OrderStays, AckedStays
<1>3. AckedOK => NoLoss
  BY DEF AckedOK, NoLoss, Taken
<1>4. QED
  BY <1>1, <1>2, <1>3, PTL DEF Spec

-----------------------------------------------------------------------------
(* The schedule of vests to come is the one of a single file.              *)
OnlyOf(f) ==
    \A v \in Vest \ Vested :
        vests[v] # Absent => \E n \in DOMAIN f.vests : f.vests[n] = v

NoneOpen == \A v \in Vest \ Vested : vests[v] = Absent

(* A request that has cleared the schedule refills it from its own file. *)
FreshOK ==
    /\ NoneOpen \/ \E f \in File : OnlyOf(f)
    /\ \A p \in Importer :
          imp[p].phase \in {"link", "vest"} /\ HasUnvested(imp[p].file) =>
              OnlyOf(imp[p].file)

FreshInv == TypeInv /\ FreshOK

(* The first vest of a file with unvested rows comes after the clearing. *)
LEMMA FirstClears ==
    ASSUME NEW f \in File, NEW n \in Nat, n <= TxnCount(f) + 1,
           PhaseAt(f, n) \in {"link", "vest"}
    PROVE  ~HasUnvested(f)
<1>1. TxnCount(f) \in Nat
  BY EntryIsTxn
<1>2. ~(n <= TxnCount(f))
  BY DEF PhaseAt
<1>3. n = TxnCount(f) + 1
  BY <1>1, <1>2
<1>4. QED
  BY <1>2, <1>3 DEF PhaseAt

(* A step opens at most the vest a request inserts. *)
LEMMA VestsWriters ==
    ASSUME TypeInv, [Next]_vars, "vest" \notin Faults
    PROVE  \/ \A v \in Vest \ Vested : vests'[v] \in {vests[v], Absent}
           \/ \E p \in Importer :
                /\ InsertVest(p)
                /\ CurVest(p) \in Vest \ Vested
                /\ \A v \in Vest \ {CurVest(p)} : vests'[v] = vests[v]
<1> USE DEF tables, ghosts
<1>1. vests \in [Vest -> RowId \cup {NoRow, Absent}]
  BY DEF TypeInv, TypeOK
<1>2. CASE vests' = vests
  BY <1>2
<1>3. ASSUME NEW p \in Importer, ClearVests(p)
      PROVE  \A v \in Vest \ Vested : vests'[v] \in {vests[v], Absent}
  BY <1>1, <1>3 DEF ClearVests
<1>4. CASE DeleteVests
  BY <1>1, <1>4 DEF DeleteVests
<1>5. ASSUME NEW p \in Importer, InsertVest(p)
      PROVE  /\ CurVest(p) \in Vest
             /\ \A v \in Vest \ {CurVest(p)} : vests'[v] = vests[v]
  <2>1. CurVest(p) \in Vest
    BY <1>5, ActiveRequest DEF InsertVest, At, VestPhases
  <2>2. QED
    BY <1>1, <1>5, <2>1 DEF InsertVest
<1>6. CASE \E p \in Importer, f \in File : StartImport(p, f)
  BY <1>2, <1>6 DEF StartImport
<1>7. ASSUME NEW p \in Importer, ImportStep(p)
      PROVE  vests' = vests \/ ClearVests(p) \/ InsertVest(p)
  BY <1>7 DEF ImportStep, EnsureSecurity, SecurityFails, LookupHash,
     ListSimilar, ListFails, Adopt, AdoptFails, InsertRow, InsertFails,
     ResolveLink, InsertVestFails, LogHistory, FinishImport
<1>8. CASE (\E p \in Importer : TimeOut(p)) \/ Crash
  BY <1>2, <1>8 DEF TimeOut, Crash
<1>9. QED
  BY <1>2, <1>3, <1>4, <1>5, <1>6, <1>7, <1>8 DEF Next, StartDelete,
     DeleteStep, DeleteTxns, DeleteHistory, DeleteAccountRow, DeleteFails,
     FinishDelete, ScheduledRefresh, vars

(* A request inserts the vests of its file only. *)
LEMMA InsertsOwn ==
    ASSUME FreshInv, NEW p \in Importer, InsertVest(p),
           CurVest(p) \in Vest \ Vested,
           \A v \in Vest \ {CurVest(p)} : vests'[v] = vests[v]
    PROVE  \E f \in File :
              f = imp[p].file /\ f = imp'[p].file /\ OnlyOf(f)'
<1>1. imp[p] \in Request /\ imp[p].phase = "vest" /\ TypeInv
  BY ActiveRequest DEF InsertVest, At, FreshInv
<1> DEFINE f == imp[p].file
           k == imp[p].pos - TxnCount(f)
<1>2. f \in File /\ imp[p].pos \in Nat
  BY <1>1 DEF Request
<1>3. TxnCount(f) \in Nat /\ VestCount(f) \in Nat /\ f.vests \in Seq(Vest)
  BY <1>2, ImportAssumption DEF TxnCount, VestCount
<1>4. k \in 1 .. VestCount(f)
  BY <1>1, <1>2, <1>3 DEF TypeInv, CursorOK, VestPhases
<1>5. k \in DOMAIN f.vests /\ CurVest(p) = f.vests[k]
  BY <1>3, <1>4 DEF VestCount, CurVest
<1>6. HasUnvested(f)
  BY <1>4, <1>5 DEF HasUnvested
<1>7. OnlyOf(f)
  BY <1>1, <1>6 DEF FreshInv, FreshOK
<1>8. ASSUME NEW v \in Vest \ Vested, vests'[v] # Absent
      PROVE  \E n \in DOMAIN f.vests : f.vests[n] = v
  BY <1>5, <1>7, <1>8 DEF OnlyOf
<1> HIDE DEF k
<1>9. imp'[p].file = f
  <2>1. imp \in [Importer -> Request \cup {Idle}] /\ NextRow(p, imp[p].claimed)
    BY <1>1 DEF TypeInv, TypeOK, InsertVest
  <2>2. GoesOn(p, imp[p].claimed)
    BY <2>1 DEF NextRow, GoesOn
  <2>3. QED
    BY <1>1, <2>2, GoesOnFields
<1>10. \A g : g = f => OnlyOf(g)'
  BY <1>8 DEF OnlyOf
<1>11. QED
  BY <1>2, <1>9, <1>10

(* Every step keeps the schedule of a single file.                         *)
LEMMA FreshStays ==
    ASSUME OneAtATime, "vest" \notin Faults, FreshInv, [Next]_vars
    PROVE  FreshInv'
<1>1. TypeInv /\ FreshOK /\ TypeInv'
  BY StepType DEF FreshInv
<1>2. CASE \E p \in Importer :
             /\ InsertVest(p)
             /\ CurVest(p) \in Vest \ Vested
             /\ \A v \in Vest \ {CurVest(p)} : vests'[v] = vests[v]
  <2>1. PICK p \in Importer :
             /\ InsertVest(p)
             /\ CurVest(p) \in Vest \ Vested
             /\ \A v \in Vest \ {CurVest(p)} : vests'[v] = vests[v]
    BY <1>2
  <2>2. PICK f \in File : f = imp[p].file /\ f = imp'[p].file /\ OnlyOf(f)'
    BY <2>1, InsertsOwn
  <2>3. \A q \in Importer : q = p
    BY DEF OneAtATime
  <2>4. ASSUME NEW q \in Importer PROVE OnlyOf(imp[q].file)'
    <3>1. imp'[q].file = f
      BY <2>2, <2>3
    <3>2. QED
      BY <2>2, <3>1 DEF OnlyOf
  <2>5. QED
    BY <1>1, <2>2, <2>4 DEF FreshInv, FreshOK
<1>3. CASE \A v \in Vest \ Vested : vests'[v] \in {vests[v], Absent}
  <2>1. ASSUME NEW f, OnlyOf(f) PROVE OnlyOf(f)'
    BY <1>3, <2>1 DEF OnlyOf
  <2>2. NoneOpen => NoneOpen'
    BY <1>3 DEF NoneOpen
  <2>3. NoneOpen' \/ \E f \in File : OnlyOf(f)'
    BY <1>1, <2>1, <2>2 DEF FreshOK
  <2>4. ASSUME NEW p \in Importer, NEW f \in File, f = imp'[p].file,
               imp'[p].phase \in {"link", "vest"}, HasUnvested(f)
        PROVE  OnlyOf(f)'
    <3>1. CASE imp[p].file = f /\ imp[p].phase \in {"link", "vest"}
      BY <1>1, <2>1, <2>4, <3>1 DEF FreshOK
    <3>2. CASE ClearVests(p)
      <4>1. \A v \in Vest \ Vested : vests'[v] = Absent
        BY <3>2 DEF ClearVests
      <4>2. QED
        BY <4>1 DEF OnlyOf
    <3>3. ASSUME NEW g \in File, StartImport(p, g) PROVE FALSE
      <4>1. imp'[p].phase = PhaseAt(g, 1) /\ g = f
        BY <1>1, <2>4, <3>3, StartFields
      <4>2. 1 \in Nat /\ 1 <= TxnCount(f) + 1
        BY EntryIsTxn
      <4>3. QED
        BY <2>4, <4>1, <4>2, FirstClears
    <3>4. ASSUME NEW c, GoesOn(p, c), imp[p] \in Request,
                 imp[p].phase \in RowPhases
          PROVE  FALSE
      <4>1. /\ imp'[p].phase = PhaseAt(f, imp[p].pos + 1)
            /\ imp[p].file = f
        BY <2>4, <3>4, GoesOnFields
      <4>2. imp[p].pos \in Nat /\ imp[p].pos <= TxnCount(f)
        BY <1>1, <3>4, <4>1 DEF TypeInv, CursorOK, Request
      <4>3. imp[p].pos + 1 \in Nat /\ imp[p].pos + 1 <= TxnCount(f) + 1
        BY <4>2, EntryIsTxn
      <4>4. QED
        BY <2>4, <4>1, <4>3, FirstClears
    <3>5. ASSUME NEW ph, NEW c, Stays(p, ph, c), imp[p] \in Request,
                 ph \in {"link", "vest"} => imp[p].phase \in {"link", "vest"}
          PROVE  OnlyOf(f)'
      BY <2>4, <3>1, <3>5, StaysFields
    <3>6. ASSUME NEW c, GoesOn(p, c), imp[p] \in Request, At(p, "vest")
          PROVE  OnlyOf(f)'
      BY <2>4, <3>1, <3>6, GoesOnFields DEF At
    <3>7. CASE ImportStep(p)
      <4>1. imp'[p] # Idle
        BY <2>4 DEF Idle
      <4>2. /\ Adopt(p) \/ InsertRow(p) \/ InsertFails(p) =>
                  imp[p].phase \in RowPhases
            /\ ResolveLink(p) => imp[p].phase = "link"
            /\ InsertVest(p) \/ InsertVestFails(p) => At(p, "vest")
        BY DEF Adopt, InsertRow, InsertFails, ResolveLink, InsertVest,
           InsertVestFails, At, RowPhases
      <4>3. /\ imp[p] \in Request
            /\ \/ ClearVests(p)
               \/ \E ph, c : Stays(p, ph, c) /\ ph \notin {"link", "vest"}
               \/ \E c : Stays(p, "vest", c) /\ imp[p].phase = "link"
               \/ \E c : GoesOn(p, c) /\ imp[p].phase \in RowPhases
               \/ \E c : GoesOn(p, c) /\ At(p, "vest")
        <5> DEFINE Other == \E ph, c : /\ Stays(p, ph, c)
                                       /\ ph \notin {"link", "vest"}
        <5>1. ASSUME NEW ph, NEW c, Stays(p, ph, c),
                     ph \in {"lookup", "similar", "insert", "adopt", "refresh"}
              PROVE  Other
          BY <5>1
        <5>2. \A c : (IF c = NoRow THEN "insert" ELSE "adopt")
                        \in {"insert", "adopt"}
          OBVIOUS
        <5> HIDE DEF Other
        <5>3. /\ imp[p] \in Request
              /\ \/ ClearVests(p) \/ Other
                 \/ \E c : Stays(p, "vest", c) /\ imp[p].phase = "link"
                 \/ \E c : GoesOn(p, c) /\ imp[p].phase \in RowPhases
                 \/ \E c : GoesOn(p, c) /\ At(p, "vest")
          BY <1>1, <3>7, <4>1, <4>2, <5>1, <5>2, StepCases
        <5>4. QED
          BY <5>3 DEF Other
      <4>4. QED
        BY <3>2, <3>4, <3>5, <3>6, <4>3
    <3>8. QED
      BY <1>1, <2>4, <3>1, <3>3, <3>7, RequestCases DEF Idle
  <2>5. \A p \in Importer : imp'[p].phase \in {"link", "vest"} =>
            imp'[p].file \in File
    BY <1>1 DEF TypeInv, TypeOK, Idle, Request
  <2>6. \A f, g : f = g => (OnlyOf(f)' <=> OnlyOf(g)')
    OBVIOUS
  <2>7. QED
    BY <1>1, <2>3, <2>4, <2>5 DEF FreshInv, FreshOK
<1>4. QED
  BY <1>1, <1>2, <1>3, VestsWriters

(* "so the schedule is always fresh": with one import at a time, whatever  *)
(* fails except the vest queries themselves, and however the uploads and   *)
(* the deletion of the account are cut short, the vests to come are those  *)
(* of a single file (insertRSUVests clears before it inserts).             *)
THEOREM ScheduleStaysFresh ==
    ASSUME OneAtATime, "vest" \notin Faults
    PROVE  Spec => []ScheduleFresh
<1>1. Init => FreshInv
  <2>1. ASSUME Init PROVE FreshOK
    <3>1. NoneOpen
      BY <2>1 DEF Init, NoneOpen
    <3>2. \A p \in Importer : imp[p].phase \notin {"link", "vest"}
      BY <2>1 DEF Init, Idle
    <3>3. QED
      BY <3>1, <3>2 DEF FreshOK
  <2>2. QED
    BY <2>1, InitType DEF FreshInv
<1>2. FreshInv /\ [Next]_vars => FreshInv'
  BY FreshStays
<1>3. FreshInv => ScheduleFresh
  BY DEF FreshInv, FreshOK, ScheduleFresh, NoneOpen, OnlyOf
<1>4. QED
  BY <1>1, <1>2, <1>3, PTL DEF Spec
=============================================================================
