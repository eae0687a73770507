--------------------------- MODULE WorkbenchStatus --------------------------
(***************************************************************************)
(* frontend/src/types/status.ts: the status graphs the browser carries to  *)
(* offer the next steps of a record.                                       *)
(***************************************************************************)
EXTENDS Compliance

TRANSITIONS ==
    [wasteGenerator |->
        ({"active"}     \X {"restricted", "suspended", "expired"})
          \cup ({"restricted"} \X {"active", "suspended", "expired"})
          \cup ({"suspended"}  \X {"active", "expired"}),
     carrierProfile |->
        ({"pending"}    \X {"verified", "restricted", "expired"})
          \cup ({"verified"}   \X {"restricted", "expired"})
          \cup ({"restricted"} \X {"pending", "expired"}),
     transferManifest |->
        {<<"draft", "submitted">>}
          \cup ({"submitted"}  \X {"in_transit", "rejected"})
          \cup ({"in_transit"} \X {"received", "rejected"}),
     complianceCheck |->
        ({"pending"} \X {"pass", "fail", "escalated"}) \cup {<<"fail", "escalated">>}]

\* The key under which ENTITY_CONFIGS files the aggregate of x.
EntityKey(x) ==
    CASE x \in Generators -> "wasteGenerator"
      [] x \in Carriers   -> "carrierProfile"
      [] x \in Manifests  -> "transferManifest"
      [] OTHER            -> "complianceCheck"

\* nextStatuses of the table: what the page lets a reviewer choose for x.
Offered(x) ==
    {s \in Statuses : CanTransition(TRANSITIONS[EntityKey(x)], rows[x].status, s)}

(***************************************************************************)
(* constants/status.go 3: "Shared status values are mirrored in            *)
(* frontend/src/types/status.ts."  Whatever status a record is in, the     *)
(* browser offers the steps the service accepts and no other.              *)
(***************************************************************************)
MirrorsService ==
    \A x \in Records : Live(x) =>
        \A s \in Statuses : s \in Offered(x) <=> CanTransition(Graph(x), rows[x].status, s)
=============================================================================
