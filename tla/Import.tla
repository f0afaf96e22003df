------------------------------- MODULE Import -------------------------------
(***************************************************************************)
(* CSV imports into one account, the deletion of that account, and the     *)
(* current_holdings view both of them refresh                              *)
(* (internal/handler/import.go, internal/handler/settings.go,              *)
(* internal/database/queries.sql).                                         *)
(*                                                                         *)
(* Neither handler opens a database transaction: every query commits on    *)
(* its own, so every query is an action here and any number of requests    *)
(* interleave between two queries.  Import hashes embed the account id and *)
(* every query is restricted to one account, so accounts do not interact   *)
(* and the module follows a single one.                                    *)
(*                                                                         *)
(* A CSV row is abstracted to the fields deduplication tells apart: the    *)
(* hash it had under the previous importer release and the hash it has     *)
(* now, the type it was and is classified as, and its remaining economic   *)
(* content (date, ISIN, quantity, amount, fee, tax, currency) as one key.  *)
(***************************************************************************)
EXTENDS Integers, Sequences, FiniteSets

CONSTANTS
    Hash,       \* values of transactions.import_hash
    Kind,       \* values of transactions.type
    Key,        \* economic content apart from the type
    Isin,       \* security identifiers
    NoIsin,     \* NULL security_isin
    IsinOf,     \* the security a key is about, or NoIsin
    Txn,        \* what a statement says of one transaction, see TxnType
    NoTxn,      \* a vest without a sibling transaction
    Vest,       \* RSU vesting events, one per rsu_vests.import_hash
    Vested,     \* the ones that have vested
    VestIsin,   \* the security a vest row names
    LinkOf,     \* the transaction a vest row links to, or NoTxn
    File,       \* the files a user may upload
    RowId,      \* transactions.id, compared by ORDER BY id
    Unused,     \* an id not handed out yet
    Deleted,    \* an id whose row was deleted (ids are never reused)
    TickerMap,  \* ISINs the seed file maps to a ticker symbol
    Importer,   \* concurrent import requests
    MaxImports, \* bound: how many imports are started
    Deletes,    \* whether the user asks for the account to be deleted
    GoalFunds,  \* whether a financial goal may name the account as its funding
    Faults      \* the queries that may fail

NoRow  == 0     \* NULL transaction_id, no candidate
Absent == -1    \* no rsu_vests row under this hash

TxnType == [old: Hash, new: Hash, oldKind: Kind, newKind: Kind, key: Key]

Row == [hash: Hash, kind: Kind, key: Key]

FaultKind == {"security", "lookup", "list", "update", "insert", "vest",
              "history", "refresh", "timeout", "crash"}

ASSUME ImportAssumption ==
    /\ IsinOf \in [Key -> Isin \cup {NoIsin}]
    /\ NoIsin \notin Isin
    /\ Txn \subseteq TxnType
    /\ NoTxn \notin Txn
    /\ Vested \subseteq Vest
    /\ VestIsin \in [Vest -> Isin \cup {NoIsin}]
    /\ LinkOf \in [Vest -> Txn \cup {NoTxn}]
    /\ \A f \in File : f.txns \in Seq(Txn) /\ f.vests \in Seq(Vest)
    /\ RowId \subseteq Nat \ {0}
    /\ Unused \notin Row /\ Deleted \notin Row /\ Unused # Deleted
    /\ TickerMap \subseteq Isin
    /\ MaxImports \in Nat
    /\ Deletes \in BOOLEAN /\ GoalFunds \in BOOLEAN
    /\ Faults \subseteq FaultKind

VARIABLES
    account,    \* whether the accounts row exists
    rows,       \* table transactions
    vests,      \* table rsu_vests: transaction_id of each vest, or Absent
    securities, \* table securities
    history,    \* number of import_history rows
    view,       \* materialized view current_holdings
    imp,        \* the import requests
    del,        \* the account deletion request: its next query
    started,    \* imports started so far
    known,      \* ghost: transactions some file or the legacy data told of
    acked       \* ghost: files whose import answered 200

vars == <<account, rows, vests, securities, history, view, imp, del, started,
          known, acked>>

tables == <<account, rows, vests, securities, history, view>>
ghosts == <<known, acked>>

(* The ids of the rows a SELECT sees. *)
Live(table) == {i \in RowId : table[i] \notin {Unused, Deleted}}

(* SELECT id WHERE import_hash = h.  The column is UNIQUE. *)
IdsByHash(table, h) == {i \in Live(table) : table[i].hash = h}

HashTaken(table, h) == IdsByHash(table, h) # {}

(* What current_holdings aggregates: every row with a security, by its     *)
(* type.  The sums of the view are functions of this set.                  *)
ViewOf(table) == {<<i, table[i].kind>> :
                    i \in {j \in Live(table) : IsinOf[table[j].key] # NoIsin}}

(* Mutant: similarity by type alone. *)
SimilarType(table, t) == {i \in Live(table) : table[i].kind = t.newKind}

(* Rows of the same account, date, type, ISIN, quantity, amount, fee, tax  *)
(* and currency.                                                           *)
Similar(table, t) ==
    {i \in Live(table) : table[i].key = t.key /\ table[i].kind = t.newKind}

TxnCount(f)  == Len(f.txns)
VestCount(f) == Len(f.vests)

(* The hashes of the whole batch. *)
BatchHashes(f) == {f.txns[n].new : n \in 1 .. TxnCount(f)}

(* Mutants: an importer that only knows exact hashes; one that adopts rows *)
(* of its own batch; one that looks at the first similar row only.         *)
PickNever(table, t, batch, claimed) == NoRow

PickOwned(table, t, batch, claimed) ==
    LET eligible == Similar(table, t) \ claimed
    IN  IF eligible = {} THEN NoRow
        ELSE CHOOSE i \in eligible : \A j \in eligible : i <= j

(* The first similar row the batch does not account for otherwise. *)
PickAdoptable(table, t, batch, claimed) ==
    LET eligible == {i \in Similar(table, t) :
                        table[i].hash \notin batch /\ i \notin claimed}
    IN  IF eligible = {} THEN NoRow
        ELSE CHOOSE i \in eligible : \A j \in eligible : i <= j

-----------------------------------------------------------------------------
(* The cursor of an import: rows 1 .. Len(txns) are its transactions, the  *)
(* ones after them its vests.                                              *)

(* seenSecurities: an ISIN is looked up at its first row only. *)
FirstOfIsin(f, n) ==
    LET isin == IsinOf[f.txns[n].key]
    IN  /\ isin # NoIsin
        /\ \A m \in 1 .. n - 1 : IsinOf[f.txns[m].key] # isin

HasUnvested(f) == \E n \in 1 .. VestCount(f) : f.vests[n] \notin Vested

(* The first query the handler makes at cursor n. *)
PhaseAt(f, n) ==
    IF n <= TxnCount(f)
    THEN IF FirstOfIsin(f, n) THEN "security" ELSE "lookup"
    ELSE IF n <= TxnCount(f) + VestCount(f)
         THEN IF n = TxnCount(f) + 1 /\ HasUnvested(f)
              THEN "clearVests" ELSE "link"
         ELSE "history"

Phase == {"security", "lookup", "similar", "adopt", "insert", "clearVests",
          "link", "vest", "history", "refresh"}

Idle == [phase |-> "idle"]

Request == [phase: Phase, file: File, pos: Nat \ {0},
            claimed: SUBSET RowId, cand: RowId \cup {NoRow}]

CurTxn(p)  == imp[p].file.txns[imp[p].pos]
CurVest(p) == imp[p].file.vests[imp[p].pos - TxnCount(imp[p].file)]

At(p, phase) == imp[p].phase = phase

Goto(p, phase) == imp' = [imp EXCEPT ![p].phase = phase]

(* continue: the next row, with what this one claimed. *)
NextRow(p, claimed) ==
    imp' = [imp EXCEPT ![p].pos     = @ + 1,
                       ![p].phase   = PhaseAt(imp[p].file, imp[p].pos + 1),
                       ![p].cand    = NoRow,
                       ![p].claimed = claimed]

Respond(p) == imp' = [imp EXCEPT ![p] = Idle]

-----------------------------------------------------------------------------
TypeOK ==
    /\ account \in BOOLEAN
    /\ rows \in [RowId -> Row \cup {Unused, Deleted}]
    /\ vests \in [Vest -> RowId \cup {NoRow, Absent}]
    /\ securities \subseteq Isin
    /\ history \in Nat
    /\ view \subseteq RowId \X Kind
    /\ imp \in [Importer -> Request \cup {Idle}]
    /\ del \in {"idle", "vests", "txns", "history", "account", "refresh"}
    /\ started \in 0 .. MaxImports
    /\ known \subseteq Txn
    /\ acked \subseteq File

(* A database the previous release may leave: any of the transactions,     *)
(* each under the hash and the type that release gave it.                  *)
LegacyRow(t) == [hash |-> t.old, kind |-> t.oldKind, key |-> t.key]

Init ==
    /\ account = TRUE
    /\ \E old \in SUBSET Txn :
        /\ rows \in [RowId -> {LegacyRow(t) : t \in old} \cup {Unused}]
        /\ \A t \in old : \E i \in RowId : rows[i] = LegacyRow(t)
        /\ \A i, j \in Live(rows) : rows[i].hash = rows[j].hash => i = j
        /\ securities = {IsinOf[t.key] : t \in old} \ {NoIsin}
        /\ known = old
    /\ vests = [v \in Vest |-> Absent]
    /\ history = 0
    /\ view = ViewOf(rows)
    /\ imp = [p \in Importer |-> Idle]
    /\ del = "idle"
    /\ started = 0
    /\ acked = {}

-----------------------------------------------------------------------------
(* HandleImport *)

(* The account is found, the file parsed and its type accepted.  Every     *)
(* earlier return changes nothing.                                         *)
StartImport(p, f) ==
    /\ imp[p] = Idle
    /\ started < MaxImports
    /\ account
    /\ started' = started + 1
    /\ imp' = [imp EXCEPT ![p] = [phase |-> PhaseAt(f, 1), file |-> f,
                                  pos |-> 1, claimed |-> {}, cand |-> NoRow]]
    /\ known' = known \cup {f.txns[n] : n \in 1 .. TxnCount(f)}
    /\ UNCHANGED <<tables, del, acked>>

(* GetSecurity, then UpsertSecurity when it is not there. *)
EnsureSecurity(p) ==
    /\ At(p, "security")
    /\ securities' = securities \cup {IsinOf[CurTxn(p).key]}
    /\ Goto(p, "lookup")
    /\ UNCHANGED <<account, rows, vests, history, view, del, started, ghosts>>

(* The security cannot be created: the handler answers 500 at once, with   *)
(* the rows so far inserted, no import_history row and no view refresh.    *)
SecurityFails(p) ==
    /\ At(p, "security")
    /\ "security" \in Faults
    /\ Respond(p)
    /\ UNCHANGED <<tables, del, started, ghosts>>

(* GetTransactionIDByHash: any error reads as "unknown". *)
LookupHash(p) ==
    /\ At(p, "lookup")
    /\ \/ /\ HashTaken(rows, CurTxn(p).new)
          /\ Goto(p, "insert")
       \/ /\ ~HashTaken(rows, CurTxn(p).new) \/ "lookup" \in Faults
          /\ Goto(p, "similar")
    /\ UNCHANGED <<tables, del, started, ghosts>>

(* ListSimilarTransactions and pickAdoptable. *)
ListSimilar(p) ==
    /\ At(p, "similar")
    /\ LET pick == PickAdoptable(rows, CurTxn(p), BatchHashes(imp[p].file),
                                 imp[p].claimed)
       IN  imp' = [imp EXCEPT ![p].cand  = pick,
                              ![p].phase = IF pick = NoRow
                                           THEN "insert" ELSE "adopt"]
    /\ UNCHANGED <<tables, del, started, ghosts>>

(* The list cannot be read: only logged, the row is inserted. *)
ListFails(p) ==
    /\ At(p, "similar")
    /\ "list" \in Faults
    /\ Goto(p, "insert")
    /\ UNCHANGED <<tables, del, started, ghosts>>

(* UPDATE ... SET import_hash = h WHERE id = c violates UNIQUE. *)
Clash(c, h) == c \in Live(rows) /\ ~(IdsByHash(rows, h) \subseteq {c})

(* UpdateTransactionImportHash.  Updating a row deleted since it was       *)
(* listed touches no row and is no error.                                  *)
Adopt(p) ==
    LET c == imp[p].cand
        h == CurTxn(p).new
    IN  /\ At(p, "adopt")
        /\ ~Clash(c, h)
        /\ rows' = IF c \in Live(rows)
                   THEN [rows EXCEPT ![c].hash = h] ELSE rows
        /\ NextRow(p, imp[p].claimed \cup {c})
        /\ UNCHANGED <<account, vests, securities, history, view, del,
                       started, ghosts>>

(* The update violates the UNIQUE constraint or fails: the row is          *)
(* inserted instead.                                                       *)
AdoptFails(p) ==
    /\ At(p, "adopt")
    /\ Clash(imp[p].cand, CurTxn(p).new) \/ "update" \in Faults
    /\ Goto(p, "insert")
    /\ UNCHANGED <<tables, del, started, ghosts>>

(* InsertTransaction: INSERT ... ON CONFLICT (import_hash) DO UPDATE type. *)
InsertRow(p) ==
    LET t == CurTxn(p)
    IN  /\ At(p, "insert")
        /\ account
        /\ \/ \E i \in IdsByHash(rows, t.new) :
                rows' = [rows EXCEPT ![i].kind = t.newKind]
           \/ /\ ~HashTaken(rows, t.new)
              /\ \E i \in RowId :
                    /\ rows[i] = Unused
                    /\ rows' = [rows EXCEPT ![i] =
                          [hash |-> t.new, kind |-> t.newKind, key |-> t.key]]
        /\ NextRow(p, imp[p].claimed)
        /\ UNCHANGED <<account, vests, securities, history, view, del,
                       started, ghosts>>

(* The insert fails, by its foreign key when the account is gone: logged,  *)
(* counted as skipped, and on to the next row.                             *)
InsertFails(p) ==
    /\ At(p, "insert")
    /\ ~account \/ "insert" \in Faults
    /\ NextRow(p, imp[p].claimed)
    /\ UNCHANGED <<tables, del, started, ghosts>>

(* insertRSUVests: a file with unvested rows replaces the schedule. *)
ClearVests(p) ==
    /\ At(p, "clearVests")
    /\ \/ vests' = [v \in Vest |-> IF v \in Vested THEN vests[v] ELSE Absent]
       \/ "vest" \in Faults /\ UNCHANGED vests
    /\ Goto(p, "link")
    /\ UNCHANGED <<account, rows, securities, history, view, del, started,
                   ghosts>>

(* The sibling transaction is looked up by its hash: NULL when it is       *)
(* unknown or the query fails.                                             *)
ResolveLink(p) ==
    LET t   == LinkOf[CurVest(p)]
        ids == IF t = NoTxn THEN {} ELSE IdsByHash(rows, t.new)
    IN  /\ At(p, "link")
        /\ \/ /\ ids = {} \/ "lookup" \in Faults
              /\ imp' = [imp EXCEPT ![p].cand = NoRow, ![p].phase = "vest"]
           \/ \E i \in ids : imp' = [imp EXCEPT ![p].cand = i,
                                                ![p].phase = "vest"]
        /\ UNCHANGED <<tables, del, started, ghosts>>

(* Mutant: transaction_id is no foreign key. *)
NoTxnReference(p) == account /\ VestIsin[CurVest(p)] \in securities \cup {NoIsin}

(* The foreign keys of a rsu_vests row hold. *)
VestRefsExist(p) ==
    /\ account
    /\ VestIsin[CurVest(p)] \in securities \cup {NoIsin}
    /\ imp[p].cand \in Live(rows) \cup {NoRow}

(* InsertRSUVest: INSERT ... ON CONFLICT (import_hash) DO NOTHING. *)
InsertVest(p) ==
    /\ At(p, "vest")
    /\ VestRefsExist(p)
    /\ vests' = [vests EXCEPT ![CurVest(p)] =
                    IF @ = Absent THEN imp[p].cand ELSE @]
    /\ NextRow(p, imp[p].claimed)
    /\ UNCHANGED <<account, rows, securities, history, view, del, started,
                   ghosts>>

(* The vest cannot be inserted: only logged. *)
InsertVestFails(p) ==
    /\ At(p, "vest")
    /\ ~VestRefsExist(p) \/ "vest" \in Faults
    /\ NextRow(p, imp[p].claimed)
    /\ UNCHANGED <<tables, del, started, ghosts>>

(* InsertImportHistory: a failure is only logged. *)
LogHistory(p) ==
    /\ At(p, "history")
    /\ \/ account /\ history' = history + 1
       \/ /\ ~account \/ "history" \in Faults
          /\ UNCHANGED history
    /\ Goto(p, "refresh")
    /\ UNCHANGED <<account, rows, vests, securities, view, del, started,
                   ghosts>>

(* RefreshCurrentHoldings, a failure only logged, and the answer 200.  The *)
(* net worth replay the handler starts here writes other tables.           *)
FinishImport(p) ==
    /\ At(p, "refresh")
    /\ \/ view' = ViewOf(rows)
       \/ "refresh" \in Faults /\ UNCHANGED view
    /\ acked' = acked \cup {imp[p].file}
    /\ Respond(p)
    /\ UNCHANGED <<account, rows, vests, securities, history, del, started,
                   known>>

(* A security is still to be looked up.                                    *)
SecurityAhead(p) ==
    \/ At(p, "security")
    \/ \E n \in imp[p].pos + 1 .. TxnCount(imp[p].file) :
          FirstOfIsin(imp[p].file, n)

(* The request's context ends (60 s timeout, client gone).  The handler    *)
(* goes on, but every query it still makes fails and the database stays as *)
(* it is: one step stands for all that is left of it.  It answers 500 at   *)
(* the next security it looks up; without one it skips the rows, gives up  *)
(* vests, history and view, and answers 200.                               *)
TimeOut(p) ==
    /\ imp[p] # Idle
    /\ "timeout" \in Faults
    /\ acked' = IF SecurityAhead(p) THEN acked ELSE acked \cup {imp[p].file}
    /\ Respond(p)
    /\ UNCHANGED <<tables, del, started, known>>

-----------------------------------------------------------------------------
(* HandleDeleteAccount *)

DelStep(from, to) == del = from /\ del' = to

StartDelete ==
    /\ Deletes
    /\ DelStep("idle", "vests")
    /\ UNCHANGED <<tables, imp, started, ghosts>>

(* DeleteAccountRSUVests *)
DeleteVests ==
    /\ DelStep("vests", "txns")
    /\ vests' = [v \in Vest |-> Absent]
    /\ UNCHANGED <<account, rows, securities, history, view, imp, started,
                   ghosts>>

(* DeleteAccountTransactions: a vest that links a row forbids it. *)
TxnsReferenced == \E v \in Vest : vests[v] \in RowId

DeleteTxns ==
    /\ DelStep("txns", "history")
    /\ ~TxnsReferenced
    /\ rows' = [i \in RowId |-> IF i \in Live(rows) THEN Deleted ELSE rows[i]]
    /\ acked' = {}
    /\ UNCHANGED <<account, vests, securities, history, view, imp, started,
                   known>>

(* DeleteAccountImportHistory *)
DeleteHistory ==
    /\ DelStep("history", "account")
    /\ history' = 0
    /\ UNCHANGED <<account, rows, vests, securities, view, imp, started,
                   ghosts>>

(* DeleteAccount: any row that references the account forbids it, and a    *)
(* goal that names it by then.                                             *)
AccountReferenced ==
    \/ Live(rows) # {}
    \/ \E v \in Vest : vests[v] # Absent
    \/ history > 0

DeleteAccountRow ==
    /\ DelStep("account", "refresh")
    /\ ~(account /\ AccountReferenced)
    /\ account' = FALSE
    /\ UNCHANGED <<rows, vests, securities, history, view, imp, started,
                   ghosts>>

(* A query fails: 500 at once, what is deleted stays deleted and the view  *)
(* is not refreshed.                                                       *)
DeleteFails ==
    /\ \/ DelStep("txns", "idle") /\ TxnsReferenced
       \/ DelStep("account", "idle") /\ account /\ (AccountReferenced \/ GoalFunds)
       \/ DelStep(del, "idle") /\ del # "idle" /\ "timeout" \in Faults
    /\ UNCHANGED <<tables, imp, started, ghosts>>

(* RefreshCurrentHoldings, its error ignored, and the answer. *)
FinishDelete ==
    /\ DelStep("refresh", "idle")
    /\ \/ view' = ViewOf(rows)
       \/ "refresh" \in Faults /\ UNCHANGED view
    /\ UNCHANGED <<account, rows, vests, securities, history, imp, started,
                   ghosts>>

-----------------------------------------------------------------------------
(* The process ends and all requests with it. *)
Crash ==
    /\ "crash" \in Faults
    /\ imp' = [p \in Importer |-> Idle]
    /\ del' = "idle"
    /\ UNCHANGED <<tables, started, ghosts>>

(* Mutant: the price jobs update prices only. *)
PricesOnly == securities \cap TickerMap # {} /\ UNCHANGED vars

(* updatePrices and updatePricesIntraday refresh the view too, unless no   *)
(* security has a ticker symbol.                                           *)
ScheduledRefresh ==
    /\ securities \cap TickerMap # {}
    /\ view' = ViewOf(rows)
    /\ UNCHANGED <<account, rows, vests, securities, history, imp, del,
                   started, ghosts>>

(* One import request's own steps, the user's upload excepted. *)
ImportStep(p) ==
    \/ EnsureSecurity(p) \/ SecurityFails(p)
    \/ LookupHash(p)
    \/ ListSimilar(p) \/ ListFails(p)
    \/ Adopt(p) \/ AdoptFails(p)
    \/ InsertRow(p) \/ InsertFails(p)
    \/ ClearVests(p)
    \/ ResolveLink(p)
    \/ InsertVest(p) \/ InsertVestFails(p)
    \/ LogHistory(p)
    \/ FinishImport(p)

DeleteStep ==
    \/ DeleteVests \/ DeleteTxns \/ DeleteHistory \/ DeleteAccountRow
    \/ DeleteFails \/ FinishDelete

Next ==
    \/ \E p \in Importer, f \in File : StartImport(p, f)
    \/ \E p \in Importer : ImportStep(p) \/ TimeOut(p)
    \/ StartDelete
    \/ DeleteStep
    \/ Crash
    \/ ScheduledRefresh

Spec == Init /\ [][Next]_vars

(* The price jobs are on a cron; nothing else has to go on.                *)
FairSpec == Spec /\ WF_vars(ScheduledRefresh)

-----------------------------------------------------------------------------
(* Properties *)

Quiet == del = "idle" /\ \A p \in Importer : imp[p] = Idle

(* Deduplication (import_dedup_test.go:12-19): imports that are repeated,  *)
(* and two that interleave, never give a content more rows than            *)
(* transactions the files and the previous release told of.  Imports that  *)
(* are cut short keep to it if they do not overlap or if their files list  *)
(* equal transactions in one order, and so do three at a time.             *)
NoDuplicates ==
    \A k \in Key : Cardinality({i \in Live(rows) : rows[i].key = k})
                   <= Cardinality({t \in known : t.key = k})

(* Adoption never relabels a row as a transaction of other content, though *)
(* the row was listed two queries before it is updated.                    *)
HashMatchesContent ==
    \A i \in Live(rows) :
        \E t \in Txn : rows[i].hash \in {t.old, t.new} /\ rows[i].key = t.key

Entries(f) == {f.txns[n] : n \in 1 .. TxnCount(f)}

(* A transaction whose file was imported with answer 200 has its row, or   *)
(* an import in progress is still going to bring it back; under the same   *)
(* conditions, where no insert fails, no request runs out of time and      *)
(* nothing is deleted.                                                     *)
NoLoss ==
    \A f \in acked : \A t \in Entries(f) :
        \/ HashTaken(rows, t.new)
        \/ \E p \in Importer :
              /\ imp[p] # Idle
              /\ \E n \in imp[p].pos .. TxnCount(imp[p].file) :
                    imp[p].file.txns[n] = t

(* A vest's transaction_id names a live row of its sibling's content.      *)
VestLinksSibling ==
    \A v \in Vest : vests[v] \in RowId =>
        /\ vests[v] \in Live(rows)
        /\ rows[vests[v]].key = LinkOf[v].key

(* "so the schedule is always fresh": the unvested rows all come from one  *)
(* uploaded schedule.                                                      *)
ScheduleFresh ==
    Quiet => \/ \A v \in Vest \ Vested : vests[v] = Absent
             \/ \E f \in File : \A v \in Vest \ Vested :
                    vests[v] # Absent => \E n \in DOMAIN f.vests : f.vests[n] = v

(* The view catches up with the table again and again, whatever failed,    *)
(* once some security has a ticker symbol: without one no job refreshes it *)
(* (jobs.go:470).                                                          *)
ViewCatchesUp == []<>(securities \cap TickerMap # {} => view = ViewOf(rows))
=============================================================================
