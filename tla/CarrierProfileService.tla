----------------------- MODULE CarrierProfileService ------------------------
(***************************************************************************)
(* service/carrier_profile.go: licences of the carriers.                   *)
(***************************************************************************)
EXTENDS RecordStore

CreateCarrier(r, x) ==
    \E d \in ValidDates :
        Receive(r, CreateRequest("commit", x,
                       [NewRow(CarrierProfileInitialStatus) EXCEPT !.expiresAt = d]))

\* Get; any status may be edited, and the status is kept.
UpdateCarrier(r, x) ==
    /\ Live(x)
    /\ \E expected \in ExpectedVersions(x), d \in ValidDates :
          Receive(r, WriteRequest("commit", "update", x, expected,
                       [rows[x] EXCEPT !.expiresAt = d]))

TransitionCarrier(r, x) ==
    /\ Live(x)
    /\ \E expected \in ExpectedVersions(x), target \in Statuses :
          /\ CanTransition(CarrierProfileTransitions, rows[x].status, target)
          /\ target = "verified" => InForce(rows[x])
          /\ Receive(r, WriteRequest("commit", "transition", x, expected,
                          [rows[x] EXCEPT !.status = target]))

DeleteCarrier(r, x) ==
    /\ Live(x)
    /\ Receive(r, DeleteRequest(x))

CarrierReceive(r) ==
    \E x \in Carriers :
        \/ CreateCarrier(r, x)
        \/ UpdateCarrier(r, x)
        \/ TransitionCarrier(r, x)
        \/ DeleteCarrier(r, x)
=============================================================================
