----------------------------- MODULE Compliance -----------------------------
(***************************************************************************)
(* The four services over one database: the whole write side of the        *)
(* backend as router.go wires it, with the properties that make it         *)
(* correct.                                                                *)
(***************************************************************************)
EXTENDS WasteGeneratorService, CarrierProfileService,
        TransferManifestService, ComplianceCheckService

Commit(r) == CreateAudited(r) \/ UpdateAudited(r) \/ DeleteAudited(r)

\* What a request does by itself once it has been received.
Proceed(r) ==
    \/ FindGenerator(r)
    \/ FindCarrier(r)
    \/ FindManifest(r)
    \/ Commit(r)
    \/ Reply(r)

Next ==
    \/ \E r \in Requests :
          \/ GeneratorReceive(r)
          \/ CarrierReceive(r)
          \/ ManifestReceive(r)
          \/ CheckReceive(r)
          \/ Proceed(r)
          \/ Abort(r)
    \/ Tick

Init == StoreInit

Spec == Init /\ [][Next]_vars

\* A goroutine that has taken up a request runs on: the Go scheduler is fair
\* and the database answers every call or fails it.
FairSpec == Spec /\ \A r \in Requests : WF_vars(Proceed(r))

-----------------------------------------------------------------------------

TypeOK ==
    /\ rows \in [Records -> Row]
    /\ audit \in [Records -> Seq(Entry)]
    /\ req \in [Requests -> Request]
    /\ now \in 0 .. MaxTime

\* Requests that have a row in hand and have not committed it yet.
InFlight(r) == req[r].pc \notin {"idle", "reply"}
Writing(r)  == InFlight(r) /\ req[r].op \in {"update", "transition"}
DeleteInFlight(x) == \E r \in Requests : InFlight(r) /\ req[r].op = "delete" /\ req[r].rec = x

(***************************************************************************)
(* Optimistic locking (repository/base.go 94-105).  updateRecord writes    *)
(* back every column of the row that Get returned, so what protects the    *)
(* columns the request did not mean to change is only that the version on  *)
(* record is the one the client expected: as long as the write can         *)
(* succeed, a transition would change the status and nothing else, and an  *)
(* update would leave the status as it is.                                 *)
(***************************************************************************)
NoLostUpdate ==
    \A r \in Requests :
        LET q       == req[r]
            current == rows[q.rec] IN
        Writing(r) /\ UpdatesOneRow(r) =>
            /\ q.before = current.status
            /\ q.op = "update" => q.row.status = current.status
            /\ q.op = "transition" =>
                  q.row = [current EXCEPT !.status = q.row.status, !.version = @ + 1]

(***************************************************************************)
(* README 43-45: the status of a record moves along its graph only, each   *)
(* write counts the version up and leaves its one audit entry in the same  *)
(* transaction.  RecordLedger is that promise for one record; the stale    *)
(* rows and doomed writes of the requests must not show in it.             *)
(***************************************************************************)
InitialStatus(x) ==
    CASE x \in Generators -> WasteGeneratorInitialStatus
      [] x \in Carriers   -> CarrierProfileInitialStatus
      [] x \in Manifests  -> TransferManifestInitialStatus
      [] OTHER            -> ComplianceCheckInitialStatus

Book(row) == [phase |-> row.phase, status |-> row.status, version |-> row.version]

Ledger(x) == INSTANCE RecordLedger WITH
    Edges   <- Graph(x),
    Initial <- InitialStatus(x),
    Opening <- Book(Seed[x]),
    ledger  <- Book(rows[x]),
    trail   <- audit[x]

\* \A x \in Records : Ledger(x)!LedgerSpec, with the quantifier under the box
\* and the records that a step leaves alone set aside first, as TLC needs it.
KeepsLedger ==
    /\ \A x \in Records : Ledger(x)!LedgerInit
    /\ [][\A x \in Records :
             UNCHANGED <<rows[x], audit[x]>> \/ Ledger(x)!LedgerNext]_vars

(***************************************************************************)
(* README 44: a submitted manifest and a decided check are not edited.     *)
(* Both are checked only when the request reads the record, steps before   *)
(* it writes.  Once a manifest has left draft the parties it names are     *)
(* fixed, and once a check has been decided so is the manifest it judges.  *)
(***************************************************************************)
Frozen(x) ==
    \/ x \in Manifests /\ rows[x].status \notin {"", "draft"}
    \/ x \in Checks    /\ rows[x].status \notin {"", "pending"}

Links(row) == <<row.generator, row.carrier, row.manifest>>

FrozenLinks ==
    [][\A x \in Manifests \cup Checks : Frozen(x) => Links(rows'[x]) = Links(rows[x])]_vars

(***************************************************************************)
(* transfer_manifest.go 142, compliance_check.go 138: what has been        *)
(* submitted or decided must be retained.  The status is read before the   *)
(* delete and not compared by it, so the promise holds only for a record   *)
(* that no delete is under way for; from then on it holds for ever.        *)
(***************************************************************************)
Retained(x) == Live(x) /\ Frozen(x) /\ ~DeleteInFlight(x)

RetentionHolds == [][\A x \in Manifests \cup Checks : Retained(x) => Retained(x)']_vars

(***************************************************************************)
(* README 42: a submission and a dispatch verify both parties again.  The  *)
(* check and the write are separate database calls, so a party may lose    *)
(* its standing in between.  Once a party is expired or deleted and the    *)
(* requests that had already cleared it are gone, it stays out and no      *)
(* manifest that names it is submitted or dispatched, not even after a     *)
(* manifest was relinked to it while another request was moving it.        *)
(***************************************************************************)
PartyOf(row, x) == x \in {row.generator, row.carrier}

Revoked(x) == rows[x].phase = "deleted" \/ rows[x].status = "expired"

\* A move under way that has already cleared party x and will not look again.
Cleared(r, x) ==
    /\ InFlight(r)
    /\ req[r].op = "transition"
    /\ NeedsLinkedParties(req[r].row.status)
    /\ \/ x = req[r].row.generator /\ req[r].pc \in {"carrier", "commit"}
       \/ x = req[r].row.carrier   /\ req[r].pc = "commit"

Barred(x) == Revoked(x) /\ \A r \in Requests : ~Cleared(r, x)

Moves(m) ==
    /\ rows'[m].status # rows[m].status
    /\ NeedsLinkedParties(rows'[m].status)

RevocationHolds ==
    [][\A x \in Generators \cup Carriers :
          Barred(x) => Barred(x)' /\ \A m \in Manifests : PartyOf(rows'[m], x) => ~Moves(m)]_vars

(***************************************************************************)
(* waste_generator.go 104, carrier_profile.go 103: an expired permit is    *)
(* not activated and an expired licence is not verified.  The date is      *)
(* compared when the record is read; between that and the write the clock  *)
(* runs and other requests renew the record.  A record out of date that no *)
(* request is reinstating keeps out until an update gives it a new date.   *)
(***************************************************************************)
GoodStanding(x) == rows[x].status \in {"active", "verified"}

Reinstating(r, x) ==
    InFlight(r) /\ req[r].op = "transition" /\ req[r].rec = x
                /\ req[r].row.status \in {"active", "verified"}

Lapsed(x) ==
    /\ Live(x)
    /\ ~GoodStanding(x)
    /\ ~InForce(rows[x])
    /\ \A r \in Requests : ~Reinstating(r, x)

LapseHolds ==
    [][\A x \in Generators \cup Carriers :
          Lapsed(x) => Lapsed(x)' \/ (rows'[x].expiresAt # rows[x].expiresAt /\ ~GoodStanding(x)')
                       \/ ~Live(x)']_vars

(***************************************************************************)
(* compliance_check.go 116: only a submitted, dispatched or received       *)
(* manifest passes review.  Once a manifest is rejected and the passes     *)
(* that had already read it are gone, no check of it passes any more.      *)
(***************************************************************************)
PassInFlight(m) ==
    \E r \in Requests : /\ req[r].pc = "commit" /\ req[r].op = "transition"
                        /\ req[r].row.manifest = m /\ req[r].row.status = "pass"

Failed(m) == (rows[m].status = "rejected" \/ rows[m].phase = "deleted") /\ ~PassInFlight(m)

RejectionHolds ==
    [][\A m \in Manifests :
          Failed(m) => /\ Failed(m)'
                       /\ \A k \in Checks : rows'[k].manifest = m /\ rows'[k].status = "pass"
                                              => rows[k].status = "pass"]_vars

(***************************************************************************)
(* repository/base.go 94-105: a request ends, also one that meets another  *)
(* at its record: it gets the row or a conflict, and does not try again.   *)
(***************************************************************************)
EveryRequestIsAnswered == \A r \in Requests : req[r].pc # "idle" ~> req[r].pc = "idle"
-----------------------------------------------------------------------------
(* What the documents and tests say and the code does not keep: each of    *)
(* these is the property of one run that expects its violation.            *)

(***************************************************************************)
(* README 44: submitted manifests and decided checks are not deleted.      *)
(* Delete reads the status and then deletes by id; a submission or a       *)
(* decision that commits in between is deleted with the record.            *)
(***************************************************************************)
RetainedForCompliance ==
    [][\A x \in Manifests \cup Checks : Live(x) /\ Frozen(x) => Live(x)']_vars

(***************************************************************************)
(* router_test.go: "a rejected manifest must not pass".  The status of the *)
(* manifest is read before the transaction that writes the pass.           *)
(***************************************************************************)
RejectedMustNotPass ==
    [][\A k \in Checks :
          rows[k].status # "pass" /\ rows'[k].status = "pass"
             => rows[rows'[k].manifest].status # "rejected"]_vars

(***************************************************************************)
(* README 43: a manifest only goes forward.  No service compares           *)
(* ExpectedVersion with the version Get returned, so a client whose        *)
(* expected version runs ahead of the record matches a later version with  *)
(* a status read from an earlier one.                                      *)
(***************************************************************************)
ManifestOnlyAdvances ==
    [][\A m \in Manifests :
          Live(m) /\ rows'[m].status # rows[m].status
             => CanTransition(TransferManifestTransitions, rows[m].status, rows'[m].status)]_vars
=============================================================================
