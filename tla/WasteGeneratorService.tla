----------------------- MODULE WasteGeneratorService ------------------------
(***************************************************************************)
(* service/waste_generator.go: permits of the units that produce waste.    *)
(* A request that the service refuses before its first write changes       *)
(* nothing, so a refusal is the absence of a step.                         *)
(***************************************************************************)
EXTENDS RecordStore

CreateGenerator(r, x) ==
    \E d \in ValidDates :
        Receive(r, CreateRequest("commit", x,
                       [NewRow(WasteGeneratorInitialStatus) EXCEPT !.expiresAt = d]))

\* Get; any status may be edited.
UpdateGenerator(r, x) ==
    /\ Live(x)
    /\ \E expected \in ExpectedVersions(x), d \in ValidDates :
          Receive(r, WriteRequest("commit", "update", x, expected,
                       [rows[x] EXCEPT !.expiresAt = d]))

\* An off-by-one: a permit would count as in force at its expiry.
TransitionGeneratorAtExpiry(r, x) ==
    /\ Live(x)
    /\ \E expected \in ExpectedVersions(x), target \in Statuses :
          /\ CanTransition(WasteGeneratorTransitions, rows[x].status, target)
          /\ target = "active" => rows[x].expiresAt >= now
          /\ Receive(r, WriteRequest("commit", "transition", x, expected,
                          [rows[x] EXCEPT !.status = target]))

TransitionGenerator(r, x) ==
    /\ Live(x)
    /\ \E expected \in ExpectedVersions(x), target \in Statuses :
          /\ CanTransition(WasteGeneratorTransitions, rows[x].status, target)
          /\ target = "active" => InForce(rows[x])
          /\ Receive(r, WriteRequest("commit", "transition", x, expected,
                          [rows[x] EXCEPT !.status = target]))

\* Get; no status is protected, and nothing looks for linked manifests.
DeleteGenerator(r, x) ==
    /\ Live(x)
    /\ Receive(r, DeleteRequest(x))

GeneratorReceive(r) ==
    \E x \in Generators :
        \/ CreateGenerator(r, x)
        \/ UpdateGenerator(r, x)
        \/ TransitionGenerator(r, x)
        \/ DeleteGenerator(r, x)
=============================================================================
