------------------------ MODULE AuditedTransactions -------------------------
(***************************************************************************)
(* The audited write of a request, statement by statement: what Compliance *)
(* takes for one step is a transaction of repository/base.go that takes    *)
(* the time of its audit entry, begins, changes the row, inserts the       *)
(* entry, commits, and may be rolled back anywhere on the way.             *)
(*                                                                         *)
(* The row statement locks its row until the transaction ends, and another *)
(* statement on the same row waits and then looks at the row as committed; *)
(* an INSERT waits in the same way for an INSERT of the same code.  This   *)
(* is what PostgreSQL at READ COMMITTED and InnoDB do, and SQLite, which   *)
(* lets one transaction write at a time, does no less.  Reads wait for     *)
(* nobody and see what has been committed.                                 *)
(***************************************************************************)
EXTENDS Compliance

VARIABLES
    tx,      \* how far the transaction of the request in each slot has come,
             \* and the time its entry bears
    stamps   \* created_at of the committed entries, beside `audit'

txVars  == <<tx, stamps>>
allVars == <<vars, txVars>>

Transaction == [at : {"none", "begun", "locked", "logged"}, stamp : Nat]

NoTransaction == [at |-> "none", stamp |-> 0]

TxTypeOK ==
    /\ tx \in [Requests -> Transaction]
    /\ stamps \in [Records -> Seq(Nat)]

TxInit ==
    /\ Init
    /\ tx     = [r \in Requests |-> NoTransaction]
    /\ stamps = [x \in Records |-> <<>>]

Reach(r, at) == tx' = [tx EXCEPT ![r].at = at]
Close(r)     == tx' = [tx EXCEPT ![r] = NoTransaction]

\* The row whose lock request r holds.
Locks(r, x) == tx[r].at \in {"locked", "logged"} /\ req[r].rec = x

\* newAuditLog reads the clock before the transaction begins.
Begin(r) ==
    /\ req[r].pc = "commit"
    /\ tx[r].at = "none"
    /\ tx' = [tx EXCEPT ![r] = [at |-> "begun", stamp |-> now]]
    /\ UNCHANGED <<vars, stamps>>

\* What the WHERE clause of the statement, or the unique index, says of the
\* row as committed.
AffectsARow(r) ==
    CASE req[r].op = "create" -> rows[req[r].rec].phase = "absent"
      [] req[r].op = "delete" -> Live(req[r].rec)
      [] OTHER                -> UpdatesOneRow(r)

\* Were the statement not to wait, both of two writers could find the version
\* they expect.
ChangeRowUnlocked(r) ==
    /\ tx[r].at = "begun"
    /\ \/ AffectsARow(r) /\ Reach(r, "locked") /\ UNCHANGED <<vars, stamps>>
       \/ ~AffectsARow(r) /\ Close(r) /\ Finish(r) /\ UNCHANGED <<rows, audit, now, stamps>>

\* Were a statement that affects no row repeated, it would be so for ever.
ChangeRowRepeating(r) ==
    /\ tx[r].at = "begun"
    /\ \A other \in Requests : ~Locks(other, req[r].rec)
    /\ \/ AffectsARow(r) /\ Reach(r, "locked")
       \/ ~AffectsARow(r) /\ UNCHANGED tx
    /\ UNCHANGED <<vars, stamps>>

ChangeRow(r) ==
    /\ tx[r].at = "begun"
    /\ \A other \in Requests : ~Locks(other, req[r].rec)
    /\ \/ AffectsARow(r) /\ Reach(r, "locked") /\ UNCHANGED <<vars, stamps>>
       \/ ~AffectsARow(r) /\ Close(r) /\ Finish(r) /\ UNCHANGED <<rows, audit, now, stamps>>

InsertEntry(r) ==
    /\ tx[r].at = "locked"
    /\ Reach(r, "logged")
    /\ UNCHANGED <<vars, stamps>>

\* The row as the statement left it, seen by nobody else yet.
Written(r) ==
    IF req[r].op = "delete" THEN [rows[req[r].rec] EXCEPT !.phase = "deleted"]
                            ELSE req[r].row

\* What the entry says of the status before and after.
BeforeState(r) == IF req[r].op = "create" THEN "" ELSE req[r].before
AfterState(r)  == IF req[r].op = "delete" THEN "deleted" ELSE req[r].row.status

CommitTransaction(r) ==
    LET x == req[r].rec IN
    /\ tx[r].at = "logged"
    /\ rows' = [rows EXCEPT ![x] = Written(r)]
    /\ Logged(x, req[r].op, BeforeState(r), AfterState(r))
    /\ stamps' = [stamps EXCEPT ![x] = Append(@, tx[r].stamp)]
    /\ Close(r)
    /\ \/ req[r].op \in {"update", "transition"} /\ req' = [req EXCEPT ![r].pc = "reply"]
       \/ req[r].op \in {"create", "delete"} /\ Finish(r)
    /\ UNCHANGED now

\* A failing statement, a cancelled context or a crash: nothing is kept.
RollBack(r) == Abort(r) /\ Close(r) /\ UNCHANGED stamps

\* Steps of a request outside its transaction.
Consult(r) == FindGenerator(r) \/ FindCarrier(r) \/ FindManifest(r) \/ Reply(r)

TakeUp(r) ==
    \/ GeneratorReceive(r)
    \/ CarrierReceive(r)
    \/ ManifestReceive(r)
    \/ CheckReceive(r)

Work(r) == Begin(r) \/ InsertEntry(r) \/ CommitTransaction(r) \/ (Consult(r) /\ UNCHANGED txVars)

TxNext ==
    \/ \E r \in Requests :
          \/ TakeUp(r) /\ UNCHANGED txVars
          \/ Work(r)
          \/ ChangeRow(r)
          \/ RollBack(r)
    \/ Tick /\ UNCHANGED txVars

TxSpec == TxInit /\ [][TxNext]_allVars

\* A request runs on, and those that wait for a row are served in turn: a
\* statement that finds its row free again and again is not passed over for
\* ever.
TxFairness == \A r \in Requests : WF_allVars(Work(r)) /\ SF_allVars(ChangeRow(r))

FairTxSpec == TxSpec /\ TxFairness

-----------------------------------------------------------------------------
(***************************************************************************)
(* repository/base.go 66-130: from outside, the statements of a            *)
(* transaction are the one step that Compliance makes of them: the         *)
(* condition that the row statement found still holds at the commit,       *)
(* nobody sees a row without its entry, and what is rolled back leaves     *)
(* nothing behind.                                                         *)
(***************************************************************************)
CommitsAreOneStep == Spec

(***************************************************************************)
(* service/security.go 98, repository/security.go 98: an entry bears the   *)
(* time before its transaction began, and histories are sorted by that     *)
(* time.  They still tell the creations and changes of a record in the     *)
(* order in which they were committed, since a change that commits has     *)
(* read the row after the one before it.  A deletion compares no version   *)
(* and may bear an earlier time than the changes it follows.               *)
(***************************************************************************)
HistoryInOrder ==
    \A x \in Records : \A i, j \in DOMAIN stamps[x] :
        i < j /\ audit[x][j].action # "delete" => stamps[x][i] <= stamps[x][j]
=============================================================================
