---------------------------- MODULE StatusGraphs ----------------------------
(***************************************************************************)
(* The four status graphs of backend/internal/constants/status.go.  Each   *)
(* graph is the relation of its allowed <<from, to>> edges; a status       *)
(* without outgoing edges is final.                                        *)
(***************************************************************************)

WasteGeneratorTransitions ==
    ({"active"}     \X {"restricted", "suspended", "expired"})
      \cup ({"restricted"} \X {"active", "suspended", "expired"})
      \cup ({"suspended"}  \X {"active", "expired"})

CarrierProfileTransitions ==
    ({"pending"}    \X {"verified", "restricted"})
      \cup ({"verified"}   \X {"restricted", "expired"})
      \cup ({"restricted"} \X {"pending", "expired"})

TransferManifestTransitions ==
    {<<"draft", "submitted">>}
      \cup ({"submitted"}  \X {"in_transit", "rejected"})
      \cup ({"in_transit"} \X {"received", "rejected"})

ComplianceCheckTransitions ==
    ({"pending"} \X {"pass", "fail"}) \cup {<<"fail", "escalated">>}

\* graph[from][to]: an unknown status has no targets.
CanTransition(graph, from, to) == <<from, to>> \in graph

\* The status the service gives a new record (model/*.go).
WasteGeneratorInitialStatus   == "active"
CarrierProfileInitialStatus   == "pending"
TransferManifestInitialStatus == "draft"
ComplianceCheckInitialStatus  == "pending"

Statuses ==
    {"active", "restricted", "suspended", "expired", "pending", "verified",
     "draft", "submitted", "in_transit", "received", "rejected",
     "pass", "fail", "escalated"}
=============================================================================
