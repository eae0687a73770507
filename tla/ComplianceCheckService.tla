----------------------- MODULE ComplianceCheckService -----------------------
(***************************************************************************)
(* service/compliance_check.go: the review of a manifest.  Every request   *)
(* but a delete reads the linked manifest first, outside the transaction   *)
(* that writes the check.                                                  *)
(***************************************************************************)
EXTENDS RecordStore

CreateCheck(r, x) ==
    /\ \E m \in Manifests :
          Receive(r, CreateRequest("manifest", x,
                       [NewRow(ComplianceCheckInitialStatus) EXCEPT !.manifest = m]))

\* The update without its "decided checks cannot be edited".
UpdateAnyCheck(r, x) ==
    /\ Live(x)
    /\ \E expected \in ExpectedVersions(x), m \in Manifests :
          Receive(r, WriteRequest("manifest", "update", x, expected,
                       [rows[x] EXCEPT !.manifest = m]))

UpdateCheck(r, x) ==
    /\ Live(x)
    /\ rows[x].status = "pending"
    /\ \E expected \in ExpectedVersions(x), m \in Manifests :
          Receive(r, WriteRequest("manifest", "update", x, expected,
                       [rows[x] EXCEPT !.manifest = m]))

TransitionCheck(r, x) ==
    /\ Live(x)
    /\ \E expected \in ExpectedVersions(x), target \in Statuses :
          /\ CanTransition(ComplianceCheckTransitions, rows[x].status, target)
          /\ Receive(r, WriteRequest("manifest", "transition", x, expected,
                          [rows[x] EXCEPT !.status = target]))

\* A delete that took a failed check, which may still escalate, for undecided.
DeleteOpenCheck(r, x) ==
    /\ Live(x)
    /\ rows[x].status \in {"pending", "fail"}
    /\ Receive(r, DeleteRequest(x))

DeleteCheck(r, x) ==
    /\ Live(x)
    /\ rows[x].status = "pending"
    /\ Receive(r, DeleteRequest(x))

CheckReceive(r) ==
    \E x \in Checks :
        \/ CreateCheck(r, x)
        \/ UpdateCheck(r, x)
        \/ TransitionCheck(r, x)
        \/ DeleteCheck(r, x)

\* A pass that only asked whether the manifest exists.
AnyManifestAccepted(request) == Live(request.row.manifest)

\* Every decision needs the manifest on record; a pass needs it submitted,
\* under way or received.
ManifestAccepted(request) ==
    LET m == request.row.manifest IN
    /\ Live(m)
    /\ request.op = "transition" /\ request.row.status = "pass" =>
          rows[m].status \in {"submitted", "in_transit", "received"}

FindManifest(r) ==
    /\ req[r].pc = "manifest"
    /\ Look(r, ManifestAccepted(req[r]), "commit")
=============================================================================
