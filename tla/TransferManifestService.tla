---------------------- MODULE TransferManifestService -----------------------
(***************************************************************************)
(* service/transfer_manifest.go: a transfer of waste, from the draft to    *)
(* the receipt.  Its requests read the linked generator and then the       *)
(* linked carrier, each with a query of its own and outside the            *)
(* transaction that writes the manifest.                                   *)
(***************************************************************************)
EXTENDS RecordStore

\* Both linked codes are any the client sends; FindGenerator and FindCarrier
\* find out whether they exist.
CreateManifest(r, x) ==
    /\ \E g \in Generators, c \in Carriers :
          Receive(r, CreateRequest("generator", x,
                       [NewRow(TransferManifestInitialStatus)
                          EXCEPT !.generator = g, !.carrier = c]))

\* The update without its "only draft manifests can be edited".
UpdateAnyManifest(r, x) ==
    /\ Live(x)
    /\ \E expected \in ExpectedVersions(x), g \in Generators, c \in Carriers :
          Receive(r, WriteRequest("generator", "update", x, expected,
                       [rows[x] EXCEPT !.generator = g, !.carrier = c]))

UpdateManifest(r, x) ==
    /\ Live(x)
    /\ rows[x].status = "draft"
    /\ \E expected \in ExpectedVersions(x), g \in Generators, c \in Carriers :
          Receive(r, WriteRequest("generator", "update", x, expected,
                       [rows[x] EXCEPT !.generator = g, !.carrier = c]))

\* Only the targets that move waste look at the linked parties.
NeedsLinkedParties(target) == target \in {"submitted", "in_transit"}

TransitionManifest(r, x) ==
    /\ Live(x)
    /\ \E expected \in ExpectedVersions(x), target \in Statuses :
          /\ CanTransition(TransferManifestTransitions, rows[x].status, target)
          /\ Receive(r, WriteRequest(
                          IF NeedsLinkedParties(target) THEN "generator" ELSE "commit",
                          "transition", x, expected,
                          [rows[x] EXCEPT !.status = target]))

\* The delete without its "submitted manifests must be retained".
DeleteAnyManifest(r, x) ==
    /\ Live(x)
    /\ Receive(r, DeleteRequest(x))

DeleteManifest(r, x) ==
    /\ Live(x)
    /\ rows[x].status = "draft"
    /\ Receive(r, DeleteRequest(x))

ManifestReceive(r) ==
    \E x \in Manifests :
        \/ CreateManifest(r, x)
        \/ UpdateManifest(r, x)
        \/ TransitionManifest(r, x)
        \/ DeleteManifest(r, x)

\* A query that also found soft-deleted generators.
GeneratorAcceptedUnscoped(request) ==
    LET g == request.row.generator IN
    request.op = "transition" => rows[g].status = "active" /\ InForce(rows[g])

\* A submission that looked at the permit date only.
GeneratorAcceptedByDate(request) ==
    LET g == request.row.generator IN
    /\ Live(g)
    /\ request.op = "transition" => InForce(rows[g])

\* A draft may name any party on record; a manifest that moves waste needs
\* parties in good standing (validateLinkedParties).
GeneratorAccepted(request) ==
    LET g == request.row.generator IN
    /\ Live(g)
    /\ request.op = "transition" => rows[g].status = "active" /\ InForce(rows[g])

CarrierAccepted(request) ==
    LET c == request.row.carrier IN
    /\ Live(c)
    /\ request.op = "transition" => rows[c].status = "verified" /\ InForce(rows[c])

FindGenerator(r) ==
    /\ req[r].pc = "generator"
    /\ Look(r, GeneratorAccepted(req[r]), "carrier")

FindCarrier(r) ==
    /\ req[r].pc = "carrier"
    /\ Look(r, CarrierAccepted(req[r]), "commit")
=============================================================================
