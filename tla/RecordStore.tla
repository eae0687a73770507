---------------------------- MODULE RecordStore -----------------------------
(***************************************************************************)
(* The database behind the four services and the handler goroutines that   *)
(* use it: repository/base.go with model/base.go.                          *)
(*                                                                         *)
(* A record is named by its code, which is immutable and unique for ever   *)
(* (the unique index also covers soft-deleted rows), so the model uses it  *)
(* as the primary key too.  One audited write is one database transaction: *)
(* the row and its audit entry change in one step, guarded by the WHERE    *)
(* clause of the statement.                                                *)
(*                                                                         *)
(* A request is a handler goroutine.  Between two of its database calls    *)
(* any other request may run.  `row' is the Go variable `current' (or      *)
(* `item'): what the request read, changed by its input, and will write    *)
(* back whole.  `before' is the status it read.                            *)
(***************************************************************************)
EXTENDS Naturals, Sequences, StatusGraphs

CONSTANTS
    Generators, Carriers, Manifests, Checks,  \* the codes of each aggregate
    Requests,    \* the slots in which handler goroutines run
    None,        \* no linked code
    Seed,        \* the rows the database holds when the server starts
    MaxVersion,  \* bound: the last version of each record
    MaxTime,     \* bound: the last instant of the clock
    Ahead        \* how far a client's expectedVersion may run ahead of the
                 \* record: 0 for clients that only send versions they read

Records == Generators \cup Carriers \cup Manifests \cup Checks
Dates   == 0 .. MaxTime + 1

Row == [phase     : {"absent", "live", "deleted"},
        status    : Statuses \cup {""},
        version   : Nat,
        expiresAt : Dates,
        generator : Generators \cup {None},
        carrier   : Carriers \cup {None},
        manifest  : Manifests \cup {None}]

AbsentRow == [phase |-> "absent", status |-> "", version |-> 0, expiresAt |-> 0,
              generator |-> None, carrier |-> None, manifest |-> None]

Request == [pc       : {"idle", "generator", "carrier", "manifest", "commit", "reply"},
            op       : {"create", "update", "transition", "delete", ""},
            rec      : Records \cup {None},
            expected : Nat,
            before   : Statuses \cup {""},
            row      : Row]

Idle == [pc |-> "idle", op |-> "", rec |-> None, expected |-> 0, before |-> "",
         row |-> AbsentRow]

Entry == [action : {"create", "update", "transition", "delete"},
          before : Statuses \cup {""},
          after  : Statuses \cup {"deleted"}]

ASSUME CodesDisjoint ==
    /\ Generators \cap Carriers = {}
    /\ Generators \cap Manifests = {}
    /\ Generators \cap Checks = {}
    /\ Carriers \cap Manifests = {}
    /\ Carriers \cap Checks = {}
    /\ Manifests \cap Checks = {}
    /\ None \notin Records

ASSUME BoundsAreNaturals ==
    /\ MaxTime \in Nat
    /\ Ahead \in Nat
    /\ MaxVersion \in [Records -> Nat \ {0}]

ASSUME SeedIsCommitted ==
    /\ Seed \in [Records -> Row]
    /\ \A x \in Records :
          /\ Seed[x].phase \in {"absent", "live"}
          /\ Seed[x].phase = "absent" => Seed[x] = AbsentRow
          /\ Seed[x].phase = "live" => Seed[x].version = 1 /\ Seed[x].status # ""

VARIABLES
    rows,   \* the four tables
    audit,  \* the audit_logs rows of each record, in commit order
    req,    \* the request in each slot
    now     \* the wall clock

vars == <<rows, audit, req, now>>

StoreInit ==
    /\ rows  = Seed
    /\ audit = [x \in Records |-> <<>>]
    /\ req   = [r \in Requests |-> Idle]
    /\ now   = 0

Live(x) == rows[x].phase = "live"

Graph(x) ==
    CASE x \in Generators -> WasteGeneratorTransitions
      [] x \in Carriers   -> CarrierProfileTransitions
      [] x \in Manifests  -> TransferManifestTransitions
      [] OTHER            -> ComplianceCheckTransitions

\* A licence or permit is in force while its expiry date lies in the future.
InForce(row) == row.expiresAt > now

\* The dates a validated licence or permit may carry.
ValidDates == {d \in Dates : d > now}

ExpectedVersions(x) ==
    {v \in 1 .. MaxVersion[x] - 1 : v <= rows[x].version + Ahead}

-----------------------------------------------------------------------------
(* Steps of a request.                                                     *)

\* A request arrives, and what it does up to its second database call.
Receive(r, request) ==
    /\ req[r].pc = "idle"
    /\ req' = [req EXCEPT ![r] = request]
    /\ UNCHANGED <<rows, audit, now>>

Continue(r, pc) ==
    /\ req' = [req EXCEPT ![r].pc = pc]
    /\ UNCHANGED <<rows, audit, now>>

Finish(r) == req' = [req EXCEPT ![r] = Idle]

\* FindByCode answered: go on to `pc', or give up with an error.
Look(r, accepted, pc) ==
    \/ accepted /\ Continue(r, pc)
    \/ ~accepted /\ Finish(r) /\ UNCHANGED <<rows, audit, now>>

NewRow(status) == [AbsentRow EXCEPT !.phase = "live", !.status = status, !.version = 1]

CreateRequest(pc, x, row) ==
    [pc |-> pc, op |-> "create", rec |-> x, expected |-> 0, before |-> "", row |-> row]

\* `row' with the version every write assigns: ExpectedVersion + 1, whatever
\* version Get returned.
WriteRequest(pc, op, x, expected, row) ==
    [pc |-> pc, op |-> op, rec |-> x, expected |-> expected,
     before |-> rows[x].status, row |-> [row EXCEPT !.version = expected + 1]]

DeleteRequest(x) ==
    [pc |-> "commit", op |-> "delete", rec |-> x, expected |-> 0,
     before |-> rows[x].status, row |-> AbsentRow]

Logged(x, action, before, after) ==
    audit' = [audit EXCEPT ![x] =
                  Append(@, [action |-> action, before |-> before, after |-> after])]

\* INSERT: the unique index refuses a code that was ever used.
CreateAudited(r) ==
    LET x == req[r].rec IN
    /\ req[r].pc = "commit" /\ req[r].op = "create"
    /\ Finish(r)
    /\ \/ /\ rows[x].phase = "absent"
          /\ rows' = [rows EXCEPT ![x] = req[r].row]
          /\ Logged(x, "create", "", req[r].row.status)
       \/ /\ rows[x].phase # "absent"
          /\ UNCHANGED <<rows, audit>>
    /\ UNCHANGED now

\* UPDATE ... WHERE id = ?: what the guard would be without the version.
UpdatesOneRowById(r) == Live(req[r].rec)

UpdatesOneRow(r) ==
    Live(req[r].rec) /\ rows[req[r].rec].version = req[r].expected

\* Were RowsAffected ignored, the audit entry would be inserted all the same.
UpdateAuditedUnchecked(r) ==
    LET x == req[r].rec IN
    /\ req[r].pc = "commit" /\ req[r].op \in {"update", "transition"}
    /\ rows' = IF UpdatesOneRow(r) THEN [rows EXCEPT ![x] = req[r].row] ELSE rows
    /\ Logged(x, req[r].op, req[r].before, req[r].row.status)
    /\ req' = [req EXCEPT ![r].pc = "reply"]
    /\ UNCHANGED now

\* UPDATE ... WHERE id = ? AND version = ?: every column is written back, the
\* status included; no row affected is ErrVersionConflict.
UpdateAudited(r) ==
    LET x == req[r].rec IN
    /\ req[r].pc = "commit" /\ req[r].op \in {"update", "transition"}
    /\ \/ /\ UpdatesOneRow(r)
          /\ rows' = [rows EXCEPT ![x] = req[r].row]
          /\ Logged(x, req[r].op, req[r].before, req[r].row.status)
          /\ req' = [req EXCEPT ![r].pc = "reply"]
       \/ /\ ~UpdatesOneRow(r)
          /\ Finish(r)
          /\ UNCHANGED <<rows, audit>>
    /\ UNCHANGED now

\* Were the status of a deleted row overwritten, as the audit entry has it,
\* the row would leave its graph.
DeleteAuditedMarking(r) ==
    LET x == req[r].rec IN
    /\ req[r].pc = "commit" /\ req[r].op = "delete"
    /\ Finish(r)
    /\ \/ /\ Live(x)
          /\ rows' = [rows EXCEPT ![x].phase = "deleted", ![x].status = "deleted"]
          /\ Logged(x, "delete", req[r].before, "deleted")
       \/ /\ ~Live(x)
          /\ UNCHANGED <<rows, audit>>
    /\ UNCHANGED now

\* Soft delete by id alone: neither the version nor the status is compared.
DeleteAudited(r) ==
    LET x == req[r].rec IN
    /\ req[r].pc = "commit" /\ req[r].op = "delete"
    /\ Finish(r)
    /\ \/ /\ Live(x)
          /\ rows' = [rows EXCEPT ![x].phase = "deleted"]
          /\ Logged(x, "delete", req[r].before, "deleted")
       \/ /\ ~Live(x)
          /\ UNCHANGED <<rows, audit>>
    /\ UNCHANGED now

\* The Get after a committed update; whatever it finds is the response.
Reply(r) ==
    /\ req[r].pc = "reply"
    /\ Finish(r)
    /\ UNCHANGED <<rows, audit, now>>

\* The client goes away and the request context is cancelled, the database
\* refuses a statement and the transaction rolls back, or the server dies.
Abort(r) ==
    /\ req[r].pc # "idle"
    /\ Finish(r)
    /\ UNCHANGED <<rows, audit, now>>

Tick ==
    /\ now < MaxTime
    /\ now' = now + 1
    /\ UNCHANGED <<rows, audit, req>>
=============================================================================
