---------------------------- MODULE RecordProofs ----------------------------
(***************************************************************************)
(* What the records do, from the invariant of ComplianceProofs: each step  *)
(* of the services is a step of RecordLedger or leaves the record alone,   *)
(* the links of submitted manifests and decided checks are fixed, and what *)
(* a check made before a write is still worth when the write commits;      *)
(* then what holds even if clients run ahead, and how far the copy of the  *)
(* graphs in the browser is right.                                         *)
(***************************************************************************)
EXTENDS ComplianceProofs, WorkbenchStatus

\* A record changes only when the transaction of a request for it commits.
Inserted(r, x) ==
    /\ req[r].pc = "commit" /\ req[r].op = "create" /\ req[r].rec = x
    /\ rows[x].phase = "absent"
    /\ rows'[x] = req[r].row
    /\ audit'[x] = Append(audit[x], [action |-> "create", before |-> "",
                                     after |-> req[r].row.status])

Updated(r, x) ==
    /\ req[r].pc = "commit" /\ req[r].op \in {"update", "transition"} /\ req[r].rec = x
    /\ UpdatesOneRow(r)
    /\ rows'[x] = req[r].row
    /\ audit'[x] = Append(audit[x], [action |-> req[r].op, before |-> req[r].before,
                                     after |-> req[r].row.status])

Deleted(r, x) ==
    /\ req[r].pc = "commit" /\ req[r].op = "delete" /\ req[r].rec = x
    /\ Live(x)
    /\ rows'[x] = [rows[x] EXCEPT !.phase = "deleted"]
    /\ audit'[x] = Append(audit[x], [action |-> "delete", before |-> req[r].before,
                                     after |-> "deleted"])

LEMMA CommittedRecord ==
    ASSUME IInv, NEW r \in Requests, Commit(r), NEW x \in Records
    PROVE  \/ UNCHANGED <<rows[x], audit[x]>>
           \/ Inserted(r, x) \/ Updated(r, x) \/ Deleted(r, x)
<1>1. rows \in [Records -> Row] /\ audit \in [Records -> Seq(Entry)]
    BY DEF IInv, TypeInv, TypeOK
<1>2. CASE CreateAudited(r)
    <2>1. CASE req[r].rec = x
        BY <1>1, <1>2, <2>1 DEF CreateAudited, Inserted, Logged
    <2>2. CASE req[r].rec # x
        BY <1>1, <1>2, <2>2 DEF CreateAudited, Logged
    <2> QED BY <2>1, <2>2
<1>3. CASE UpdateAudited(r)
    <2>1. CASE req[r].rec = x
        BY <1>1, <1>3, <2>1 DEF UpdateAudited, Updated, Logged
    <2>2. CASE req[r].rec # x
        BY <1>1, <1>3, <2>2 DEF UpdateAudited, Logged
    <2> QED BY <2>1, <2>2
<1>4. CASE DeleteAudited(r)
    <2>1. CASE req[r].rec = x
        BY <1>1, <1>4, <2>1 DEF DeleteAudited, Deleted, Logged
    <2>2. CASE req[r].rec # x
        BY <1>1, <1>4, <2>2 DEF DeleteAudited, Logged
    <2> QED BY <2>1, <2>2
<1> QED BY <1>2, <1>3, <1>4 DEF Commit

\* Every step either commits one request or leaves the tables alone.
LEMMA OnlyCommitsWrite ==
    ASSUME [Next]_vars
    PROVE  UNCHANGED <<rows, audit>> \/ \E r \in Requests : Commit(r)
<1>1. ASSUME NEW r \in Requests,
             \/ GeneratorReceive(r) \/ CarrierReceive(r)
             \/ ManifestReceive(r) \/ CheckReceive(r)
      PROVE  UNCHANGED <<rows, audit>>
    <2>1. CASE GeneratorReceive(r)
        BY <2>1 DEF GeneratorReceive, CreateGenerator, UpdateGenerator, TransitionGenerator,
                    DeleteGenerator, Receive
    <2>2. CASE CarrierReceive(r)
        BY <2>2 DEF CarrierReceive, CreateCarrier, UpdateCarrier, TransitionCarrier,
                    DeleteCarrier, Receive
    <2>3. CASE ManifestReceive(r)
        BY <2>3 DEF ManifestReceive, CreateManifest, UpdateManifest, TransitionManifest,
                    DeleteManifest, Receive
    <2>4. CASE CheckReceive(r)
        BY <2>4 DEF CheckReceive, CreateCheck, UpdateCheck, TransitionCheck,
                    DeleteCheck, Receive
    <2> QED BY <1>1, <2>1, <2>2, <2>3, <2>4
<1>2. ASSUME NEW r \in Requests, FindGenerator(r) \/ FindCarrier(r) \/ FindManifest(r)
      PROVE  UNCHANGED <<rows, audit>>
    BY <1>2 DEF FindGenerator, FindCarrier, FindManifest, Look, Continue
<1>3. ASSUME NEW r \in Requests, Reply(r) \/ Abort(r)
      PROVE  UNCHANGED <<rows, audit>>
    BY <1>3 DEF Reply, Abort
<1>4. Tick \/ UNCHANGED vars => UNCHANGED <<rows, audit>>
    BY DEF Tick, vars
<1> QED BY <1>1, <1>2, <1>3, <1>4 DEF Next, Proceed

LEMMA RecordStep ==
    ASSUME IInv, [Next]_vars, NEW x \in Records
    PROVE  \/ UNCHANGED <<rows[x], audit[x]>>
           \/ \E r \in Requests : Inserted(r, x) \/ Updated(r, x) \/ Deleted(r, x)
BY OnlyCommitsWrite, CommittedRecord

\* What a request that is about to succeed has in hand.
LEMMA UpdatedFacts ==
    ASSUME Ahead = 0, IInv, NEW r \in Requests, NEW x \in Records, Updated(r, x)
    PROVE  LET q == req[r] IN
           /\ rows[x] \in Row /\ q.row \in Row
           /\ rows[x].phase = "live" /\ q.row.phase = "live"
           /\ q.before = rows[x].status
           /\ q.row.version = rows[x].version + 1
           /\ q.op = "update" => q.row.status = rows[x].status
           /\ q.op = "update" /\ x \in Manifests => rows[x].status = "draft"
           /\ q.op = "update" /\ x \in Checks => rows[x].status = "pending"
           /\ q.op = "transition" =>
                 /\ <<rows[x].status, q.row.status>> \in Graph(x)
                 /\ q.row = [rows[x] EXCEPT !.phase = "live", !.status = q.row.status,
                                            !.version = @ + 1]
<1> DEFINE q == req[r]
<1>1. /\ q \in Request /\ q.row \in Row /\ rows[x] \in Row
      /\ InOrder(q, rows[x]) /\ Locked(q, rows[x])
    BY AboutToCommit DEF Updated
<1>2. /\ q.pc = "commit" /\ q.op \in {"update", "transition"} /\ q.rec = x
      /\ rows[x].phase = "live" /\ rows[x].version = q.expected
    BY DEF Updated, UpdatesOneRow, Live
<1> HIDE DEF q
<1>3. /\ q.before = rows[x].status
      /\ q.op = "transition" =>
            q.row = [rows[x] EXCEPT !.phase = "live", !.status = q.row.status, !.version = @ + 1]
    BY <1>1, <1>2 DEF Locked
<1>4. /\ q.row.phase = "live" /\ q.row.version = q.expected + 1
      /\ q.op = "update" => q.row.status = q.before
      /\ q.op = "update" /\ x \in Manifests => q.before = "draft"
      /\ q.op = "update" /\ x \in Checks => q.before = "pending"
      /\ q.op = "transition" => <<q.before, q.row.status>> \in Graph(x)
    BY <1>1, <1>2 DEF InOrder
<1> QED BY <1>1, <1>2, <1>3, <1>4 DEF q

(***************************************************************************)
(* The links of a submitted manifest and of a decided check never change   *)
(* (README 44), although the update that could change them looks at the    *)
(* status steps before it writes.                                          *)
(***************************************************************************)
THEOREM LinksAreFrozen ==
    ASSUME Ahead = 0
    PROVE  Spec => FrozenLinks
<1>1. ASSUME IInv, [Next]_vars, NEW x \in Manifests \cup Checks, Frozen(x)
      PROVE  Links(rows'[x]) = Links(rows[x])
    <2>1. x \in Records /\ rows[x] \in Row
        BY <1>1 DEF Records, IInv, TypeInv, TypeOK
    <2>2. CASE UNCHANGED <<rows[x], audit[x]>>
        BY <2>2
    <2>3. ASSUME NEW r \in Requests, Inserted(r, x) PROVE FALSE
        BY <1>1, <2>1, <2>3 DEF Inserted, Frozen, IInv, TypeInv, RowsInOrder
    <2>4. ASSUME NEW r \in Requests, Updated(r, x) PROVE Links(rows'[x]) = Links(rows[x])
        <3>1. req[r].op = "transition"
            BY <1>1, <2>1, <2>4, UpdatedFacts, CodesDisjoint DEF Frozen, Updated
        <3>2. rows'[x] = [rows[x] EXCEPT !.phase = "live", !.status = req[r].row.status,
                                         !.version = @ + 1]
            BY <1>1, <2>1, <2>4, <3>1, UpdatedFacts DEF Updated
        <3>3. /\ rows'[x].generator = rows[x].generator
              /\ rows'[x].carrier = rows[x].carrier
              /\ rows'[x].manifest = rows[x].manifest
            BY <2>1, <3>2 DEF Row
        <3> QED BY <3>3 DEF Links
    <2>5. ASSUME NEW r \in Requests, Deleted(r, x) PROVE Links(rows'[x]) = Links(rows[x])
        <3>1. /\ rows'[x].generator = rows[x].generator
              /\ rows'[x].carrier = rows[x].carrier
              /\ rows'[x].manifest = rows[x].manifest
            BY <2>1, <2>5 DEF Deleted, Row
        <3> QED BY <3>1 DEF Links
    <2> QED BY <1>1, <2>1, <2>2, <2>3, <2>4, <2>5, RecordStep
<1>2. IInv /\ [Next]_vars =>
         [\A x \in Manifests \cup Checks : Frozen(x) => Links(rows'[x]) = Links(rows[x])]_vars
    BY <1>1
<1> QED BY <1>2, Invariance, PTL DEF Spec, FrozenLinks

-----------------------------------------------------------------------------
(* What the checks made before a write are still worth when it commits:    *)
(* the action properties of Compliance that speak of the requests which    *)
(* are already past a check.                                               *)


(***************************************************************************)
(* A queried party or manifest belongs to the request that asks for it.    *)
(* Together with the graphs this keeps a request for one kind of record    *)
(* from being taken for a request for another.                             *)
(***************************************************************************)
PlacedRequest(q) ==
    /\ q.pc \in {"generator", "carrier"} => q.rec \in Manifests
    /\ q.pc = "manifest" => q.rec \in Checks

Placed == \A r \in Requests : PlacedRequest(req[r])

\* What the service has made sure of when it takes up request q.
Taken(q) ==
    /\ q.pc \in {"generator", "manifest", "commit"}
    /\ q.rec \in Records
    /\ PlacedRequest(q)
    /\ q.op = "delete" /\ q.rec \in Manifests => rows[q.rec].status = "draft"
    /\ q.op = "delete" /\ q.rec \in Checks => rows[q.rec].status = "pending"
    /\ q.op = "transition" =>
          /\ <<rows[q.rec].status, q.row.status>> \in Graph(q.rec)
          /\ q.rec \in Generators \cup Carriers /\ q.row.status \in {"active", "verified"}
                => InForce(rows[q.rec])
          /\ q.rec \in Manifests /\ NeedsLinkedParties(q.row.status) => q.pc = "generator"
          /\ q.rec \in Checks => q.pc = "manifest"
          /\ q.row = [rows[q.rec] EXCEPT !.status = q.row.status, !.version = q.expected + 1]
    /\ q.op \in {"update", "transition", "delete"} => q.before = rows[q.rec].status

\* A query found what the request needs.
Passed(r) ==
    \/ /\ req[r].pc = "generator" /\ GeneratorAccepted(req[r])
       /\ req'[r] = [req[r] EXCEPT !.pc = "carrier"]
    \/ /\ req[r].pc = "carrier" /\ CarrierAccepted(req[r])
       /\ req'[r] = [req[r] EXCEPT !.pc = "commit"]
    \/ /\ req[r].pc = "manifest" /\ ManifestAccepted(req[r])
       /\ req'[r] = [req[r] EXCEPT !.pc = "commit"]

-----------------------------------------------------------------------------
(* Where the edges of the graphs do not lead.                              *)

LEMMA NoEdges ==
    ASSUME NEW x \in Records, NEW from, NEW to, <<from, to>> \in Graph(x)
    PROVE  /\ x \in Generators \cup Carriers =>
                 from # "expired" /\ to \notin {"submitted", "in_transit", "pass"}
           /\ x \in Manifests => from # "rejected" /\ to \notin {"", "draft", "pass"}
           /\ x \in Checks => to \notin {"", "pending", "submitted", "in_transit"}
<1>1. <<from, to>> \in WasteGeneratorTransitions \cup CarrierProfileTransitions =>
         from # "expired" /\ to \notin {"submitted", "in_transit", "pass"}
    BY DEF WasteGeneratorTransitions, CarrierProfileTransitions
<1>2. <<from, to>> \in TransferManifestTransitions =>
         from # "rejected" /\ to \notin {"", "draft", "pass"}
    BY DEF TransferManifestTransitions
<1>3. <<from, to>> \in ComplianceCheckTransitions =>
         to \notin {"", "pending", "submitted", "in_transit"}
    BY DEF ComplianceCheckTransitions
<1> QED BY <1>1, <1>2, <1>3, GraphOf

-----------------------------------------------------------------------------
(* Requests taken up, by operation.                                        *)

LEMMA CreateTaken ==
    ASSUME NEW x \in Records, NEW pc \in {"generator", "manifest", "commit"}, NEW row,
           pc = "generator" => x \in Manifests, pc = "manifest" => x \in Checks
    PROVE  Taken(CreateRequest(pc, x, row))
BY DEF Taken, PlacedRequest, CreateRequest

LEMMA UpdateTaken ==
    ASSUME NEW x \in Records, NEW pc \in {"generator", "manifest", "commit"},
           NEW expected, NEW row,
           pc = "generator" => x \in Manifests, pc = "manifest" => x \in Checks
    PROVE  Taken(WriteRequest(pc, "update", x, expected, row))
BY DEF Taken, PlacedRequest, WriteRequest

LEMMA TransitionTaken ==
    ASSUME IInv, NEW x \in Records, NEW pc \in {"generator", "manifest", "commit"},
           NEW expected, NEW target \in Statuses,
           pc = "generator" => x \in Manifests, pc = "manifest" => x \in Checks,
           <<rows[x].status, target>> \in Graph(x),
           x \in Generators \cup Carriers /\ target \in {"active", "verified"} => InForce(rows[x]),
           x \in Manifests /\ NeedsLinkedParties(target) => pc = "generator",
           x \in Checks => pc = "manifest"
    PROVE  Taken(WriteRequest(pc, "transition", x, expected, [rows[x] EXCEPT !.status = target]))
<1> DEFINE q == WriteRequest(pc, "transition", x, expected, [rows[x] EXCEPT !.status = target])
<1>1. q.pc = pc /\ q.rec = x /\ q.op = "transition"
    BY DEF WriteRequest
<1>2. /\ q.row.status = target /\ q.before = rows[x].status /\ q.expected = expected
      /\ q.row = [rows[x] EXCEPT !.status = target, !.version = expected + 1]
    BY DEF WriteRequest, IInv, TypeInv, TypeOK, Row
<1> HIDE DEF q
<1>3. Taken(q)
    BY <1>1, <1>2 DEF Taken, PlacedRequest
<1> QED BY <1>3 DEF q

LEMMA DeleteTaken ==
    ASSUME NEW x \in Records, x \in Manifests => rows[x].status = "draft",
           x \in Checks => rows[x].status = "pending"
    PROVE  Taken(DeleteRequest(x))
BY DEF Taken, PlacedRequest, DeleteRequest

-----------------------------------------------------------------------------
(* Requests taken up, by service.                                          *)

LEMMA GeneratorTaken ==
    ASSUME IInv, NEW r \in Requests, GeneratorReceive(r)
    PROVE  \E q : Receive(r, q) /\ Taken(q)
<1>1. PICK x \in Generators :
          \/ CreateGenerator(r, x)
          \/ UpdateGenerator(r, x)
          \/ TransitionGenerator(r, x)
          \/ DeleteGenerator(r, x)
    BY DEF GeneratorReceive
<1>2. /\ x \in Records /\ x \notin Manifests /\ x \notin Checks
    BY CodesDisjoint DEF Records
<1>3. CASE CreateGenerator(r, x)
    BY <1>1, <1>2, <1>3, CreateTaken DEF CreateGenerator
<1>4. CASE UpdateGenerator(r, x)
    BY <1>1, <1>2, <1>4, UpdateTaken DEF UpdateGenerator
<1>5. CASE TransitionGenerator(r, x)
    <2>1. PICK expected \in ExpectedVersions(x), target \in Statuses :
              /\ <<rows[x].status, target>> \in WasteGeneratorTransitions
              /\ target = "active" => InForce(rows[x])
              /\ Receive(r, WriteRequest("commit", "transition", x, expected,
                                         [rows[x] EXCEPT !.status = target]))
        BY <1>5 DEF TransitionGenerator, CanTransition
    <2>2. <<rows[x].status, target>> \in Graph(x) /\ target # "verified"
        BY <1>1, <2>1, GraphOf DEF WasteGeneratorTransitions
    <2> QED BY <1>2, <2>1, <2>2, TransitionTaken
<1>6. CASE DeleteGenerator(r, x)
    BY <1>1, <1>2, <1>6, DeleteTaken DEF DeleteGenerator
<1> QED BY <1>1, <1>3, <1>4, <1>5, <1>6

LEMMA CarrierTaken ==
    ASSUME IInv, NEW r \in Requests, CarrierReceive(r)
    PROVE  \E q : Receive(r, q) /\ Taken(q)
<1>1. PICK x \in Carriers :
          \/ CreateCarrier(r, x)
          \/ UpdateCarrier(r, x)
          \/ TransitionCarrier(r, x)
          \/ DeleteCarrier(r, x)
    BY DEF CarrierReceive
<1>2. /\ x \in Records /\ x \notin Manifests /\ x \notin Checks
    BY CodesDisjoint DEF Records
<1>3. CASE CreateCarrier(r, x)
    BY <1>1, <1>2, <1>3, CreateTaken DEF CreateCarrier
<1>4. CASE UpdateCarrier(r, x)
    BY <1>1, <1>2, <1>4, UpdateTaken DEF UpdateCarrier
<1>5. CASE TransitionCarrier(r, x)
    <2>1. PICK expected \in ExpectedVersions(x), target \in Statuses :
              /\ <<rows[x].status, target>> \in CarrierProfileTransitions
              /\ target = "verified" => InForce(rows[x])
              /\ Receive(r, WriteRequest("commit", "transition", x, expected,
                                         [rows[x] EXCEPT !.status = target]))
        BY <1>5 DEF TransitionCarrier, CanTransition
    <2>2. <<rows[x].status, target>> \in Graph(x) /\ target # "active"
        BY <1>1, <2>1, GraphOf DEF CarrierProfileTransitions
    <2> QED BY <1>2, <2>1, <2>2, TransitionTaken
<1>6. CASE DeleteCarrier(r, x)
    BY <1>1, <1>2, <1>6, DeleteTaken DEF DeleteCarrier
<1> QED BY <1>1, <1>3, <1>4, <1>5, <1>6

LEMMA ManifestTaken ==
    ASSUME IInv, NEW r \in Requests, ManifestReceive(r)
    PROVE  \E q : Receive(r, q) /\ Taken(q)
<1>1. PICK x \in Manifests :
          \/ CreateManifest(r, x)
          \/ UpdateManifest(r, x)
          \/ TransitionManifest(r, x)
          \/ DeleteManifest(r, x)
    BY DEF ManifestReceive
<1>2. /\ x \in Records /\ x \notin Generators /\ x \notin Carriers /\ x \notin Checks
    BY CodesDisjoint DEF Records
<1>3. CASE CreateManifest(r, x)
    BY <1>1, <1>2, <1>3, CreateTaken DEF CreateManifest
<1>4. CASE UpdateManifest(r, x)
    BY <1>1, <1>2, <1>4, UpdateTaken DEF UpdateManifest
<1>5. CASE TransitionManifest(r, x)
    <2>1. PICK expected \in ExpectedVersions(x), target \in Statuses :
              /\ <<rows[x].status, target>> \in TransferManifestTransitions
              /\ Receive(r, WriteRequest(IF NeedsLinkedParties(target) THEN "generator" ELSE "commit",
                                         "transition", x, expected,
                                         [rows[x] EXCEPT !.status = target]))
        BY <1>5 DEF TransitionManifest, CanTransition
    <2>2. <<rows[x].status, target>> \in Graph(x)
        BY <1>1, <2>1, GraphOf
    <2> QED BY <1>1, <1>2, <2>1, <2>2, TransitionTaken
<1>6. CASE DeleteManifest(r, x)
    BY <1>1, <1>2, <1>6, DeleteTaken DEF DeleteManifest
<1> QED BY <1>1, <1>3, <1>4, <1>5, <1>6

LEMMA CheckTaken ==
    ASSUME IInv, NEW r \in Requests, CheckReceive(r)
    PROVE  \E q : Receive(r, q) /\ Taken(q)
<1>1. PICK x \in Checks :
          \/ CreateCheck(r, x)
          \/ UpdateCheck(r, x)
          \/ TransitionCheck(r, x)
          \/ DeleteCheck(r, x)
    BY DEF CheckReceive
<1>2. /\ x \in Records /\ x \notin Generators /\ x \notin Carriers /\ x \notin Manifests
    BY CodesDisjoint DEF Records
<1>3. CASE CreateCheck(r, x)
    BY <1>1, <1>2, <1>3, CreateTaken DEF CreateCheck
<1>4. CASE UpdateCheck(r, x)
    BY <1>1, <1>2, <1>4, UpdateTaken DEF UpdateCheck
<1>5. CASE TransitionCheck(r, x)
    <2>1. PICK expected \in ExpectedVersions(x), target \in Statuses :
              /\ <<rows[x].status, target>> \in ComplianceCheckTransitions
              /\ Receive(r, WriteRequest("manifest",
                                         "transition", x, expected,
                                         [rows[x] EXCEPT !.status = target]))
        BY <1>5 DEF TransitionCheck, CanTransition
    <2>2. <<rows[x].status, target>> \in Graph(x)
        BY <1>1, <2>1, GraphOf
    <2> QED BY <1>1, <1>2, <2>1, <2>2, TransitionTaken
<1>6. CASE DeleteCheck(r, x)
    BY <1>1, <1>2, <1>6, DeleteTaken DEF DeleteCheck
<1> QED BY <1>1, <1>3, <1>4, <1>5, <1>6

-----------------------------------------------------------------------------
(* What one step makes of one request.                                     *)

LEMMA Finished ==
    ASSUME IInv, NEW s \in Requests, NEW r \in Requests, Finish(s)
    PROVE  req'[r] = req[r] \/ req'[r].pc = "idle"
BY DEF Finish, Idle, IInv, TypeInv, TypeOK

\* One step leaves a request alone, ends it, lets it pass a query, or takes it
\* up.
LEMMA Fate ==
    ASSUME IInv, [Next]_vars, NEW r \in Requests
    PROVE  \/ req'[r] = req[r]
           \/ req'[r].pc \in {"idle", "reply"}
           \/ Passed(r)
           \/ \E q : req'[r] = q /\ Taken(q) /\ Receive(r, q)
<1> DEFINE Goal == \/ req'[r] = req[r]
                   \/ req'[r].pc \in {"idle", "reply"}
                   \/ Passed(r)
                   \/ \E q : req'[r] = q /\ Taken(q) /\ Receive(r, q)
<1>1. ASSUME NEW s \in Requests, NEW q, Receive(s, q), Taken(q) PROVE Goal
    <2>1. CASE s = r
        <3>1. req'[r] = q
            BY <1>1, <2>1 DEF Receive, IInv, TypeInv, TypeOK
        <3> QED BY <1>1, <2>1, <3>1
    <2>2. CASE s # r
        BY <1>1, <2>2 DEF Receive, IInv, TypeInv, TypeOK
    <2> QED BY <2>1, <2>2
<1>2. ASSUME NEW s \in Requests, FindGenerator(s) \/ FindCarrier(s) \/ FindManifest(s) PROVE Goal
    <2>1. CASE s # r
        BY <1>2, <2>1 DEF FindGenerator, FindCarrier, FindManifest, Look, Continue, Finish,
                          IInv, TypeInv, TypeOK
    <2>2. CASE s = r /\ Finish(s)
        BY <2>2, Finished
    <2>3. CASE s = r /\ ~Finish(s)
        BY <1>2, <2>3 DEF FindGenerator, FindCarrier, FindManifest, Look, Continue, Passed,
                          IInv, TypeInv, TypeOK
    <2> QED BY <2>1, <2>2, <2>3
<1>3. ASSUME NEW s \in Requests, Commit(s) PROVE Goal
    <2>1. CASE Finish(s)
        BY <2>1, Finished
    <2>2. CASE req' = [req EXCEPT ![s].pc = "reply"]
        <3>1. req'[r] = req[r] \/ req'[r] = [req[r] EXCEPT !.pc = "reply"]
            BY <2>2 DEF IInv, TypeInv, TypeOK
        <3>2. [req[r] EXCEPT !.pc = "reply"].pc = "reply"
            BY DEF IInv, TypeInv, TypeOK, Request
        <3> QED BY <3>1, <3>2
    <2> QED BY <1>3, <2>1, <2>2 DEF Commit, CreateAudited, UpdateAudited, DeleteAudited
<1>4. ASSUME NEW s \in Requests, Reply(s) \/ Abort(s) PROVE Goal
    BY <1>4, Finished DEF Reply, Abort
<1>5. ASSUME Tick \/ UNCHANGED vars PROVE Goal
    BY <1>5 DEF Tick, vars
<1> HIDE DEF Goal
<1>6. ASSUME NEW s \in Requests,
             GeneratorReceive(s) \/ CarrierReceive(s) \/ ManifestReceive(s) \/ CheckReceive(s)
      PROVE  Goal
    <2>1. PICK q : Receive(s, q) /\ Taken(q)
        BY <1>6, GeneratorTaken, CarrierTaken, ManifestTaken, CheckTaken
    <2> QED BY <1>1, <2>1
<1>7. Goal
    BY <1>2, <1>3, <1>4, <1>5, <1>6 DEF Next, Proceed
<1> QED BY <1>7 DEF Goal

LEMMA PlacedInv == Spec => []Placed
<1>1. Init => Placed
    <2>1. PlacedRequest(Idle)
        BY DEF Idle, PlacedRequest
    <2> QED BY <2>1 DEF Init, StoreInit, Placed, PlacedRequest
<1>2. IInv /\ Placed /\ [Next]_vars => Placed'
    <2> SUFFICES ASSUME IInv, Placed, [Next]_vars, NEW r \in Requests
                 PROVE  PlacedRequest(req'[r])
        BY DEF Placed, PlacedRequest
    <2>1. req[r] \in Request /\ PlacedRequest(req[r])
        BY DEF IInv, TypeInv, TypeOK, Placed
    <2>2. CASE req'[r] = req[r]
        BY <2>1, <2>2
    <2>3. CASE req'[r].pc \in {"idle", "reply"}
        BY <2>3 DEF PlacedRequest
    <2>4. CASE Passed(r)
        BY <2>1, <2>4 DEF Passed, PlacedRequest, Request
    <2>5. ASSUME NEW q, req'[r] = q, Taken(q) PROVE PlacedRequest(req'[r])
        BY <2>5 DEF Taken
    <2> QED BY <2>2, <2>3, <2>4, <2>5, Fate
<1> QED BY <1>1, <1>2, Invariance, PTL DEF Spec

-----------------------------------------------------------------------------

(***************************************************************************)
(* What is submitted or decided while no delete of it is under way is      *)
(* never deleted (transfer_manifest.go 142, compliance_check.go 138): a    *)
(* delete is taken up in the one status that no edge leads back to.        *)
(***************************************************************************)
THEOREM WhatIsFrozenIsRetained ==
    ASSUME Ahead = 0
    PROVE  Spec => RetentionHolds
<1>1. ASSUME IInv, [Next]_vars, NEW x \in Manifests \cup Checks, Retained(x)
      PROVE  Retained(x)'
    <2>1. x \in Records /\ rows[x] \in Row /\ rows[x].phase = "live"
        BY <1>1 DEF Records, IInv, TypeInv, TypeOK, Retained, Live
    <2>2. \/ x \in Manifests /\ x \notin Checks /\ rows[x].status \notin {"", "draft"}
          \/ x \in Checks /\ x \notin Manifests /\ rows[x].status \notin {"", "pending"}
        BY <1>1, CodesDisjoint DEF Retained, Frozen
    <2>3. rows'[x].phase = "live" /\ Frozen(x)'
        <3>1. CASE UNCHANGED <<rows[x], audit[x]>>
            BY <2>1, <2>2, <3>1 DEF Frozen
        <3>2. ASSUME NEW r \in Requests, Updated(r, x) PROVE rows'[x].phase = "live" /\ Frozen(x)'
            <4>1. /\ rows'[x] = req[r].row /\ req[r].row.phase = "live"
                  /\ req[r].op = "transition"
                  /\ <<rows[x].status, req[r].row.status>> \in Graph(x)
                BY <1>1, <2>1, <2>2, <3>2, UpdatedFacts DEF Updated
            <4>2. \/ x \in Manifests /\ req[r].row.status \notin {"", "draft"}
                  \/ x \in Checks /\ req[r].row.status \notin {"", "pending"}
                BY <2>1, <2>2, <4>1, NoEdges
            <4> QED BY <4>1, <4>2 DEF Frozen
        <3>3. ASSUME NEW r \in Requests, Deleted(r, x) PROVE FALSE
            BY <1>1, <3>3 DEF Deleted, Retained, DeleteInFlight, InFlight
        <3> QED BY <1>1, <2>1, <3>1, <3>2, <3>3, RecordStep DEF Inserted
    <2>4. ASSUME NEW r \in Requests
          PROVE  ~(req'[r].pc \notin {"idle", "reply"} /\ req'[r].op = "delete" /\ req'[r].rec = x)
        <3>1. ~(req[r].pc \notin {"idle", "reply"} /\ req[r].op = "delete" /\ req[r].rec = x)
            BY <1>1 DEF Retained, DeleteInFlight, InFlight
        <3>2. CASE Passed(r)
            BY <1>1, <3>1, <3>2 DEF Passed, IInv, TypeInv, TypeOK, Request
        <3>3. ASSUME NEW q, req'[r] = q, Taken(q)
              PROVE  ~(q.op = "delete" /\ q.rec = x)
            BY <2>2, <3>3 DEF Taken
        <3> QED BY <1>1, <3>1, <3>2, <3>3, Fate
    <2> QED BY <2>3, <2>4 DEF Retained, DeleteInFlight, InFlight, Live
<1>2. IInv /\ [Next]_vars =>
         [\A x \in Manifests \cup Checks : Retained(x) => Retained(x)']_vars
    BY <1>1
<1> QED BY <1>2, Invariance, PTL DEF Spec, RetentionHolds

(***************************************************************************)
(* No check of a rejected manifest passes once the passes that had already *)
(* read it are gone (compliance_check.go 116): rejected is final, and a    *)
(* pass always reads its manifest after it is taken up.                    *)
(***************************************************************************)
THEOREM RejectionIsFinal ==
    ASSUME Ahead = 0
    PROVE  Spec => RejectionHolds
<1>1. ASSUME IInv, Placed, [Next]_vars, NEW m \in Manifests, Failed(m)
      PROVE  /\ Failed(m)'
             /\ \A k \in Checks : rows'[k].manifest = m /\ rows'[k].status = "pass"
                                    => rows[k].status = "pass"
    <2>1. m \in Records /\ rows[m] \in Row
        BY <1>1 DEF Records, IInv, TypeInv, TypeOK
    <2>2. ASSUME NEW r \in Requests
          PROVE  ~(req[r].pc = "commit" /\ req[r].op = "transition"
                     /\ req[r].row.manifest = m /\ req[r].row.status = "pass")
        BY <1>1, <2>2 DEF Failed, PassInFlight
    <2>3. rows'[m].status = "rejected" \/ rows'[m].phase = "deleted"
        <3>1. CASE UNCHANGED <<rows[m], audit[m]>>
            BY <1>1, <3>1 DEF Failed
        <3>2. ASSUME NEW r \in Requests, Inserted(r, m) PROVE FALSE
            BY <1>1, <2>1, <3>2 DEF Inserted, Failed, IInv, TypeInv, RowsInOrder
        <3>3. ASSUME NEW r \in Requests, Updated(r, m) PROVE FALSE
            BY <1>1, <2>1, <3>3, UpdatedFacts, NoEdges DEF Updated, Failed
        <3>4. ASSUME NEW r \in Requests, Deleted(r, m) PROVE rows'[m].phase = "deleted"
            BY <2>1, <3>4 DEF Deleted, Row
        <3> QED BY <1>1, <2>1, <3>1, <3>2, <3>3, <3>4, RecordStep
    <2>4. ASSUME NEW r \in Requests
          PROVE  ~(req'[r].pc = "commit" /\ req'[r].op = "transition"
                     /\ req'[r].row.manifest = m /\ req'[r].row.status = "pass")
        <3>1. req[r] \in Request /\ InOrder(req[r], rows[req[r].rec]) /\ PlacedRequest(req[r])
            BY <1>1 DEF IInv, TypeInv, TypeOK, Placed
        <3>2. CASE Passed(r)
            <4>1. CASE req[r].pc = "generator"
                BY <3>1, <3>2, <4>1 DEF Passed, Request
            <4>2. CASE req[r].pc = "carrier" /\ req[r].op = "transition"
                <5>1. req[r].row.status # "pass"
                    BY <3>1, <4>2, NoEdges DEF InOrder, PlacedRequest
                <5> QED BY <3>1, <3>2, <4>2, <5>1 DEF Passed, Request
            <4>3. CASE req[r].op # "transition"
                BY <3>1, <3>2, <4>3 DEF Passed, Request
            <4>4. CASE req[r].pc = "manifest"
                BY <1>1, <3>1, <3>2, <4>4 DEF Passed, ManifestAccepted, Failed, Live, Request
            <4> QED BY <3>2, <4>1, <4>2, <4>3, <4>4 DEF Passed
        <3>3. ASSUME NEW q, req'[r] = q, Taken(q)
              PROVE  ~(q.pc = "commit" /\ q.op = "transition" /\ q.row.status = "pass")
            BY <3>3, NoEdges DEF Taken, Records
        <3> QED BY <1>1, <2>2, <3>2, <3>3, Fate
    <2>5. ASSUME NEW k \in Checks, rows'[k].manifest = m, rows'[k].status = "pass"
          PROVE  rows[k].status = "pass"
        <3>1. k \in Records /\ rows[k] \in Row
            BY <1>1 DEF Records, IInv, TypeInv, TypeOK
        <3>2. ASSUME NEW r \in Requests, Inserted(r, k) PROVE FALSE
            BY <1>1, <2>5, <3>2, AboutToCommit, InitialStatusOf
               DEF Inserted, InOrder, ComplianceCheckInitialStatus
        <3>3. ASSUME NEW r \in Requests, Updated(r, k) PROVE rows[k].status = "pass"
            <4>1. req[r].op = "update" => req[r].row.status = rows[k].status
                BY <1>1, <3>1, <3>3, UpdatedFacts
            <4> QED BY <2>2, <2>5, <3>3, <4>1 DEF Updated
        <3>4. ASSUME NEW r \in Requests, Deleted(r, k) PROVE rows[k].status = "pass"
            BY <2>5, <3>1, <3>4 DEF Deleted, Row
        <3> QED BY <1>1, <2>5, <3>1, <3>2, <3>3, <3>4, RecordStep
    <2> QED BY <2>3, <2>4, <2>5 DEF Failed, PassInFlight
<1>2. IInv /\ Placed /\ [Next]_vars =>
         [\A m \in Manifests :
             Failed(m) => /\ Failed(m)'
                          /\ \A k \in Checks : rows'[k].manifest = m /\ rows'[k].status = "pass"
                                                 => rows[k].status = "pass"]_vars
    BY <1>1
<1> QED BY <1>2, Invariance, PlacedInv, PTL DEF Spec, RejectionHolds

(***************************************************************************)
(* A party that is expired or deleted moves no more waste once the         *)
(* requests that had cleared it are gone (README 42): expired is final, a  *)
(* query takes neither for good standing, and a request that moves waste   *)
(* asks for both of its parties after it is taken up.                      *)
(***************************************************************************)
THEOREM RevocationIsFinal ==
    ASSUME Ahead = 0
    PROVE  Spec => RevocationHolds
<1>1. ASSUME IInv, Placed, [Next]_vars, NEW x \in Generators \cup Carriers, Barred(x)
      PROVE  Barred(x)' /\ \A m \in Manifests : PartyOf(rows'[m], x) => ~Moves(m)
    <2>1. x \in Records /\ x \notin Manifests /\ x \notin Checks /\ rows[x] \in Row
        BY <1>1, CodesDisjoint DEF Records, IInv, TypeInv, TypeOK
    <2>2. ASSUME NEW r \in Requests PROVE ~Cleared(r, x)
        BY <1>1 DEF Barred
    <2>3. Revoked(x)'
        <3>1. CASE UNCHANGED <<rows[x], audit[x]>>
            BY <1>1, <3>1 DEF Barred, Revoked
        <3>2. ASSUME NEW r \in Requests, Inserted(r, x) PROVE FALSE
            BY <1>1, <2>1, <3>2 DEF Inserted, Barred, Revoked, IInv, TypeInv, RowsInOrder
        <3>3. ASSUME NEW r \in Requests, Updated(r, x) PROVE rows'[x].status = "expired"
            <4>1. /\ rows[x].phase = "live"
                  /\ req[r].op = "update" => req[r].row.status = rows[x].status
                  /\ req[r].op = "transition" =>
                        <<rows[x].status, req[r].row.status>> \in Graph(x)
                BY <1>1, <2>1, <3>3, UpdatedFacts
            <4>2. rows[x].status = "expired"
                BY <1>1, <4>1 DEF Barred, Revoked
            <4> QED BY <1>1, <2>1, <3>3, <4>1, <4>2, NoEdges DEF Updated
        <3>4. ASSUME NEW r \in Requests, Deleted(r, x) PROVE rows'[x].phase = "deleted"
            BY <2>1, <3>4 DEF Deleted, Row
        <3> QED BY <1>1, <2>1, <3>1, <3>2, <3>3, <3>4, RecordStep DEF Revoked
    <2>4. ASSUME NEW r \in Requests PROVE ~Cleared(r, x)'
        <3> DEFINE Clears(q) ==
                     /\ q.op = "transition"
                     /\ NeedsLinkedParties(q.row.status)
                     /\ \/ x = q.row.generator /\ q.pc \in {"carrier", "commit"}
                        \/ x = q.row.carrier   /\ q.pc = "commit"
        <3>1. req[r] \in Request /\ InOrder(req[r], rows[req[r].rec]) /\ PlacedRequest(req[r])
            BY <1>1 DEF IInv, TypeInv, TypeOK, Placed
        <3>2. ~Clears(req[r])
            BY <2>2 DEF Cleared, InFlight
        <3>3. ASSUME Passed(r) PROVE ~Clears(req'[r])
            <4>1. ASSUME req[r].pc = "generator" PROVE ~Clears(req'[r])
                <5>1. req'[r] = [req[r] EXCEPT !.pc = "carrier"] /\ GeneratorAccepted(req[r])
                    BY <3>3, <4>1 DEF Passed
                <5>2. req[r].op = "transition" => x # req[r].row.generator
                    BY <1>1, <5>1 DEF GeneratorAccepted, Barred, Revoked, Live
                <5> QED BY <3>1, <5>1, <5>2 DEF Request
            <4>2. ASSUME req[r].pc = "carrier" PROVE ~Clears(req'[r])
                <5>1. req'[r] = [req[r] EXCEPT !.pc = "commit"] /\ CarrierAccepted(req[r])
                    BY <3>3, <4>2 DEF Passed
                <5>2. req[r].op = "transition" => x # req[r].row.carrier
                    BY <1>1, <5>1 DEF CarrierAccepted, Barred, Revoked, Live
                <5> QED BY <3>1, <3>2, <4>2, <5>1, <5>2 DEF Request
            <4>3. ASSUME req[r].pc = "manifest" PROVE ~Clears(req'[r])
                <5>1. req'[r] = [req[r] EXCEPT !.pc = "commit"]
                    BY <3>3, <4>3 DEF Passed
                <5>2. req[r].op = "transition" => ~NeedsLinkedParties(req[r].row.status)
                    BY <3>1, <4>3, NoEdges DEF InOrder, PlacedRequest, NeedsLinkedParties
                <5> QED BY <3>1, <5>1, <5>2 DEF Request
            <4> QED BY <3>3, <4>1, <4>2, <4>3 DEF Passed
        <3>4. ASSUME NEW q, req'[r] = q, Taken(q) PROVE ~Clears(q)
            BY <3>4, NoEdges DEF Taken, Records, NeedsLinkedParties
        <3>5. ~Clears(req'[r])
            BY <1>1, <3>2, <3>3, <3>4, Fate
        <3> QED BY <3>5 DEF Cleared
    <2>5. ASSUME NEW m \in Manifests, PartyOf(rows'[m], x) PROVE ~Moves(m)
        <3>1. m \in Records /\ rows[m] \in Row
            BY <1>1 DEF Records, IInv, TypeInv, TypeOK
        <3>2. CASE UNCHANGED <<rows[m], audit[m]>>
            BY <3>2 DEF Moves
        <3>3. ASSUME NEW r \in Requests, Inserted(r, m) PROVE ~Moves(m)
            BY <1>1, <3>3, AboutToCommit, InitialStatusOf
               DEF Inserted, InOrder, Moves, NeedsLinkedParties, TransferManifestInitialStatus
        <3>4. ASSUME NEW r \in Requests, Updated(r, m) PROVE ~Moves(m)
            <4>1. req[r].op = "update" => req[r].row.status = rows[m].status
                BY <1>1, <3>1, <3>4, UpdatedFacts
            <4> QED BY <2>2, <2>5, <3>4, <4>1 DEF Updated, Moves, PartyOf, Cleared, InFlight
        <3>5. ASSUME NEW r \in Requests, Deleted(r, m) PROVE ~Moves(m)
            BY <3>1, <3>5 DEF Deleted, Row, Moves
        <3> QED BY <1>1, <3>1, <3>2, <3>3, <3>4, <3>5, RecordStep
    <2> QED BY <2>3, <2>4, <2>5 DEF Barred
<1>2. IInv /\ Placed /\ [Next]_vars =>
         [\A x \in Generators \cup Carriers :
             Barred(x) => Barred(x)' /\ \A m \in Manifests : PartyOf(rows'[m], x) => ~Moves(m)]_vars
    BY <1>1
<1> QED BY <1>2, Invariance, PlacedInv, PTL DEF Spec, RevocationHolds

-----------------------------------------------------------------------------
(* Time.                                                                   *)

LEMMA ClockRunsOn ==
    ASSUME IInv, [Next]_vars
    PROVE  now \in Nat /\ now' \in Nat /\ now' >= now
<1>1. now \in Nat
    BY BoundsAreNaturals DEF IInv, TypeInv, TypeOK
<1>2. now' = now \/ now' = now + 1
    <2>1. ASSUME NEW r \in Requests, Commit(r) PROVE now' = now
        BY <2>1 DEF Commit, CreateAudited, UpdateAudited, DeleteAudited
    <2>2. ASSUME NEW r \in Requests, Reply(r) \/ Abort(r) PROVE now' = now
        BY <2>2 DEF Reply, Abort
    <2>3. ASSUME NEW r \in Requests, FindGenerator(r) \/ FindCarrier(r) \/ FindManifest(r)
          PROVE  now' = now
        BY <2>3 DEF FindGenerator, FindCarrier, FindManifest, Look, Continue
    <2>4. ASSUME NEW r \in Requests,
                 GeneratorReceive(r) \/ CarrierReceive(r) \/ ManifestReceive(r) \/ CheckReceive(r)
          PROVE  now' = now
        <3>1. PICK q : Receive(r, q)
            BY <2>4, GeneratorTaken, CarrierTaken, ManifestTaken, CheckTaken
        <3> QED BY <3>1 DEF Receive
    <2>5. Tick \/ UNCHANGED vars => now' = now \/ now' = now + 1
        BY DEF Tick, vars
    <2> QED BY <2>1, <2>2, <2>3, <2>4, <2>5 DEF Next, Proceed
<1> QED BY <1>1, <1>2

(***************************************************************************)
(* A record whose permit or licence has run out comes back into good       *)
(* standing by no request, once those that had checked its date are gone,  *)
(* but after an update that gives it a new date (waste_generator.go 104,   *)
(* carrier_profile.go 103).                                                *)
(***************************************************************************)
THEOREM LapseLasts ==
    ASSUME Ahead = 0
    PROVE  Spec => LapseHolds
<1>1. ASSUME IInv, [Next]_vars, NEW x \in Generators \cup Carriers, Lapsed(x)
      PROVE  \/ Lapsed(x)'
             \/ rows'[x].expiresAt # rows[x].expiresAt /\ ~GoodStanding(x)'
             \/ ~Live(x)'
    <2>1. x \in Records /\ rows[x] \in Row
        BY <1>1 DEF Records, IInv, TypeInv, TypeOK
    <2>2. ASSUME NEW r \in Requests PROVE ~Reinstating(r, x)
        BY <1>1 DEF Lapsed
    <2>3. ASSUME NEW r \in Requests PROVE ~Reinstating(r, x)'
        <3> DEFINE Reinstates(q) == /\ q.pc \notin {"idle", "reply"} /\ q.op = "transition"
                                    /\ q.rec = x /\ q.row.status \in {"active", "verified"}
        <3>1. ~Reinstates(req[r])
            BY <2>2 DEF Reinstating, InFlight
        <3>2. ASSUME Passed(r) PROVE ~Reinstates(req'[r])
            BY <1>1, <3>1, <3>2 DEF Passed, IInv, TypeInv, TypeOK, Request
        <3>3. ASSUME NEW q, req'[r] = q, Taken(q) PROVE ~Reinstates(q)
            BY <1>1, <3>3 DEF Taken, Lapsed
        <3>4. ~Reinstates(req'[r])
            BY <1>1, <3>1, <3>2, <3>3, Fate
        <3> QED BY <3>4 DEF Reinstating, InFlight
    <2>4. ~(rows[x].expiresAt > now')
        <3>1. Dates \subseteq Nat
            BY BoundsAreNaturals DEF Dates
        <3>2. rows[x].expiresAt \in Nat
            BY <2>1, <3>1 DEF Row
        <3>3. ~(rows[x].expiresAt > now)
            BY <1>1 DEF Lapsed, InForce
        <3>4. now \in Nat /\ now' \in Nat /\ now' >= now
            BY <1>1, ClockRunsOn
        <3> QED BY <3>2, <3>3, <3>4
    <2>5. CASE UNCHANGED <<rows[x], audit[x]>>
        BY <1>1, <2>3, <2>4, <2>5 DEF Lapsed, Live, GoodStanding, InForce
    <2>6. ASSUME NEW r \in Requests, Updated(r, x)
          PROVE  /\ rows'[x].phase = "live" /\ rows'[x].status \notin {"active", "verified"}
        <3>1. /\ rows'[x] = req[r].row /\ req[r].row.phase = "live"
              /\ req[r].op = "update" => req[r].row.status = rows[x].status
            BY <1>1, <2>1, <2>6, UpdatedFacts DEF Updated
        <3>2. req[r].op = "transition" => req[r].row.status \notin {"active", "verified"}
            BY <2>2, <2>6 DEF Updated, Reinstating, InFlight
        <3> QED BY <1>1, <2>6, <3>1, <3>2 DEF Updated, Lapsed, GoodStanding
    <2>7. ASSUME NEW r \in Requests, Deleted(r, x) PROVE ~Live(x)'
        BY <2>1, <2>7 DEF Deleted, Row, Live
    <2> QED BY <1>1, <2>1, <2>3, <2>4, <2>5, <2>6, <2>7, RecordStep
            DEF Inserted, Lapsed, Live, GoodStanding, InForce
<1>2. IInv /\ [Next]_vars =>
         [\A x \in Generators \cup Carriers :
             Lapsed(x) => Lapsed(x)' \/ (rows'[x].expiresAt # rows[x].expiresAt /\ ~GoodStanding(x)')
                          \/ ~Live(x)']_vars
    BY <1>1
<1> QED BY <1>2, Invariance, PTL DEF Spec, LapseHolds

-----------------------------------------------------------------------------
(***************************************************************************)
(* What holds of clients that run ahead of the record too.                 *)
(***************************************************************************)

\* The version that the client sent is one that the record has had.
Abreast(r) == Writing(r) => req[r].expected <= rows[req[r].rec].version

(***************************************************************************)
(* Whom the optimistic lock protects when some clients run ahead: every    *)
(* request that is taken up with a version the record has had has the lock *)
(* from then on until it ends, whatever the others do.                     *)
(***************************************************************************)
LockProtectsTheHonest ==
    [][\A r \in Requests :
          /\ ~InFlight(r) /\ Abreast(r)' => NothingLost(r)'
          /\ InFlight(r) /\ Abreast(r) /\ NothingLost(r) => (Abreast(r) /\ NothingLost(r))']_vars

\* A step does not take its lock away from a request.
LEMMA LockStays ==
    ASSUME IInv, [Next]_vars, NEW p \in Request, p.rec \in Records,
           InOrder(p, rows[p.rec]), Locked(p, rows[p.rec])
    PROVE  Locked(p, rows'[p.rec])
<1> DEFINE x == p.rec
<1>1. rows[x] \in Row /\ rows'[x] \in Row
    BY NextInv DEF IInv, TypeInv, TypeOK
<1>2. CASE UNCHANGED <<rows[x], audit[x]>>
    BY <1>2
<1>3. ASSUME NEW r \in Requests, Inserted(r, x) PROVE Locked(p, rows'[x])
    BY <1>1, <1>3, LockLasts DEF Inserted
<1>4. ASSUME NEW r \in Requests, Updated(r, x) PROVE Locked(p, rows'[x])
    <2>1. rows'[x].version = rows[x].version + 1
        BY <1>4, AboutToCommit DEF Updated, InOrder, UpdatesOneRow
    <2>2. rows[x].version \in Nat
        BY <1>1 DEF Row
    <2>3. rows'[x].version > rows[x].version
        BY <2>1, <2>2
    <2> QED BY <1>1, <2>3, LockLasts
<1>5. ASSUME NEW r \in Requests, Deleted(r, x) PROVE Locked(p, rows'[x])
    BY <1>1, <1>5, LockLasts DEF Deleted
<1> QED BY <1>2, <1>3, <1>4, <1>5, RecordStep

\* A request that is taken up abreast of the record has the lock.
LEMMA TakenWithLock ==
    ASSUME IInv, NEW q \in Request, Taken(q), InOrder(q, rows[q.rec]),
           q.op \in {"update", "transition"} => q.expected <= rows[q.rec].version
    PROVE  Locked(q, rows[q.rec])
<1>1. q.rec \in Records /\ rows[q.rec] \in Row /\ RowsInOrder
    BY DEF Taken, IInv, TypeInv, TypeOK
<1>2. ASSUME q.op = "transition", q.expected = rows[q.rec].version
      PROVE  q.row = [rows[q.rec] EXCEPT !.phase = "live", !.status = q.row.status,
                                         !.version = @ + 1]
    <2>1. q.row = [rows[q.rec] EXCEPT !.status = q.row.status, !.version = q.expected + 1]
        BY <1>2 DEF Taken
    <2>2. q.row.phase = "live"
        BY <1>2 DEF Taken, InOrder
    <2> QED BY <1>1, <1>2, <2>1, <2>2 DEF Row
<1> QED BY <1>2 DEF Locked, Taken

\* What a request with the lock has in hand, said of the next state.
LEMMA ProtectedNext ==
    ASSUME IInv, [Next]_vars, NEW r \in Requests, InFlight(r)' => req'[r].rec \in Records,
           Locked(req[r], rows[req[r].rec])'
    PROVE  (Abreast(r) /\ NothingLost(r))'
<1> SUFFICES ASSUME Writing(r)' PROVE (Abreast(r) /\ NothingLost(r))'
    BY DEF Abreast, NothingLost
<1> DEFINE q == req'[r]
           current == rows'[q.rec]
<1>1. /\ q \in Request /\ current \in Row /\ InOrder(q, current) /\ Locked(q, current)
      /\ q.pc \notin {"idle", "reply"} /\ q.op \in {"update", "transition"}
    BY NextInv DEF IInv, TypeInv, TypeOK, Writing, InFlight
<1> HIDE DEF q, current
<1>2. q.expected <= current.version
    BY <1>1 DEF Locked
<1>3. current.phase = "live" /\ current.version = q.expected =>
         /\ q.before = current.status
         /\ q.op = "update" => q.row.status = current.status
         /\ q.op = "transition" =>
               q.row = [current EXCEPT !.status = q.row.status, !.version = @ + 1]
    BY <1>1, LockProtects
<1> QED BY <1>2, <1>3 DEF Abreast, NothingLost, UpdatesOneRow, Live, q, current

\* A request that nothing would be lost to has the lock, or its record is gone.
LEMMA NothingLostHasLock ==
    ASSUME IInv, NEW r \in Requests, InFlight(r), Abreast(r), NothingLost(r),
           Live(req[r].rec)
    PROVE  Locked(req[r], rows[req[r].rec])
<1> DEFINE q == req[r]
           current == rows[q.rec]
<1>1. q \in Request /\ q.rec \in Records /\ current \in Row /\ current.phase = "live"
    BY DEF IInv, TypeInv, TypeOK, InOrder, InFlight, Live
<1> SUFFICES ASSUME q.op \in {"update", "transition"}
             PROVE  Locked(q, current)
    BY DEF Locked
<1>2. q.expected <= current.version
    BY DEF Abreast, Writing
<1>3. ASSUME q.expected = current.version
      PROVE  /\ q.before = current.status
             /\ q.op = "transition" =>
                   q.row = [current EXCEPT !.status = q.row.status, !.version = @ + 1]
    BY <1>3 DEF NothingLost, Writing, UpdatesOneRow
<1>4. [current EXCEPT !.status = q.row.status, !.version = @ + 1]
        = [current EXCEPT !.phase = "live", !.status = q.row.status, !.version = @ + 1]
    BY <1>1 DEF Row
<1> QED BY <1>2, <1>3, <1>4 DEF Locked

(***************************************************************************)
(* The optimistic lock protects the clients that send versions they have   *)
(* read from those that do not (repository/base.go 94-105): no assumption  *)
(* is made of how far the others run ahead.                                *)
(***************************************************************************)
THEOREM TheHonestAreProtected == Spec => LockProtectsTheHonest
<1>1. ASSUME IInv, [Next]_vars, NEW r \in Requests, ~InFlight(r), Abreast(r)'
      PROVE  NothingLost(r)'
    <2>1. /\ req'[r] \in Request
          /\ InOrder(req'[r], rows'[req'[r].rec])
        BY <1>1, NextInv DEF IInv, TypeInv, TypeOK
    <2>2. CASE req'[r] = req[r] \/ req'[r].pc \in {"idle", "reply"}
        BY <1>1, <2>2 DEF NothingLost, Writing, InFlight
    <2>3. ~Passed(r)
        BY <1>1 DEF Passed, InFlight
    <2>4. ASSUME NEW q, req'[r] = q, Taken(q), Receive(r, q) PROVE NothingLost(r)'
        <3>1. rows' = rows /\ q.pc \notin {"idle", "reply"} /\ q.rec \in Records
            BY <2>4 DEF Receive, Taken
        <3>2. Locked(q, rows[q.rec])
            BY <1>1, <2>1, <2>4, <3>1, TakenWithLock DEF Abreast, Writing, InFlight
        <3>3. Locked(req[r], rows[req[r].rec])'
            BY <2>4, <3>1, <3>2
        <3> QED BY <1>1, <2>4, <3>1, <3>3, ProtectedNext
    <2> QED BY <1>1, <2>2, <2>3, <2>4, Fate
<1>2. ASSUME IInv, [Next]_vars, NEW r \in Requests, InFlight(r), Abreast(r), NothingLost(r),
             NEW q, q = req[r], NEW x, x = q.rec
      PROVE  (Abreast(r) /\ NothingLost(r))'
    <2>1. /\ q \in Request /\ InOrder(q, rows[x]) /\ x \in Records /\ rows[x] \in Row
          /\ q.pc \notin {"idle", "reply"}
        BY <1>2 DEF IInv, TypeInv, TypeOK, InFlight, InOrder
    <2>2. \/ req'[r].pc \in {"idle", "reply"}
          \/ \E pc : req'[r] = [q EXCEPT !.pc = pc]
        <3>1. req'[r] = q => req'[r] = [q EXCEPT !.pc = q.pc]
            BY <2>1 DEF Request
        <3>2. ASSUME NEW p, Receive(r, p) PROVE FALSE
            BY <1>2, <2>1, <3>2 DEF Receive
        <3> QED BY <1>2, <3>1, <3>2, Fate DEF Passed
    <2>3. CASE req'[r].pc \in {"idle", "reply"}
        BY <2>3 DEF Abreast, NothingLost, Writing, InFlight
    <2>4. ASSUME NEW pc, req'[r] = [q EXCEPT !.pc = pc], pc \notin {"idle", "reply"}
          PROVE  (Abreast(r) /\ NothingLost(r))'
        <3>1. /\ req'[r].rec = x /\ req'[r].op = q.op /\ req'[r].expected = q.expected
              /\ req'[r].before = q.before /\ req'[r].row = q.row /\ req'[r].pc = pc
            BY <1>2, <2>1, <2>4 DEF Request
        <3>2. CASE Live(x)
            <4>1. Locked(q, rows'[x])
                BY <1>2, <2>1, <3>2, LockStays, NothingLostHasLock
            <4>2. Locked(req[r], rows[req[r].rec])'
                BY <2>1, <3>1, <4>1 DEF Locked
            <4> QED BY <1>2, <2>1, <3>1, <4>2, ProtectedNext
        <3>3. CASE ~Live(x) /\ q.op \in {"update", "transition"}
            <4>1. rows'[x] = rows[x] /\ rows[x].phase = "deleted"
                <5>1. rows[x].phase = "deleted"
                    BY <2>1, <3>3 DEF InOrder, Live, Row
                <5>2. ASSUME NEW s \in Requests, Inserted(s, x) \/ Updated(s, x) \/ Deleted(s, x)
                      PROVE  FALSE
                    BY <5>1, <5>2 DEF Inserted, Updated, Deleted, UpdatesOneRow, Live
                <5> QED BY <1>2, <2>1, <5>1, <5>2, RecordStep
            <4>2. q.expected <= rows[x].version
                BY <1>2, <3>3 DEF Abreast, Writing
            <4> QED BY <3>1, <4>1, <4>2 DEF Abreast, NothingLost, UpdatesOneRow, Live
        <3>4. CASE q.op \notin {"update", "transition"}
            BY <3>1, <3>4 DEF Abreast, NothingLost, Writing
        <3> QED BY <3>2, <3>3, <3>4
    <2>5. ASSUME NEW pc, req'[r] = [q EXCEPT !.pc = pc] PROVE req'[r].pc = pc
        BY <2>1, <2>5 DEF Request
    <2> QED BY <2>2, <2>3, <2>4, <2>5
<1>3. IInv /\ [Next]_vars =>
         [\A r \in Requests :
             /\ ~InFlight(r) /\ Abreast(r)' => NothingLost(r)'
             /\ InFlight(r) /\ Abreast(r) /\ NothingLost(r)
                   => (Abreast(r) /\ NothingLost(r))']_vars
    BY <1>1, <1>2
<1> QED BY <1>3, Invariance, PTL DEF Spec, LockProtectsTheHonest

(***************************************************************************)
(* Versions and entries (README 43, 45).  Whatever versions the clients    *)
(* send, every write of a record adds its one entry in the same step; a    *)
(* creation starts at version 1, an edit or a move counts the version up   *)
(* by one, a deletion leaves it, and the entry states the status that is   *)
(* on record afterwards.                                                   *)
(***************************************************************************)
Creation(x, e) ==
    /\ e.action = "create" /\ rows[x].phase = "absent"
    /\ rows'[x].phase = "live" /\ rows'[x].version = 1 /\ e.after = rows'[x].status

Change(x, e) ==
    /\ e.action \in {"update", "transition"} /\ Live(x)
    /\ rows'[x].phase = "live" /\ rows'[x].version = rows[x].version + 1
    /\ e.after = rows'[x].status

Deletion(x, e) ==
    /\ e.action = "delete" /\ Live(x)
    /\ rows'[x] = [rows[x] EXCEPT !.phase = "deleted"] /\ e.after = "deleted"

EveryWriteIsCounted ==
    [][\A x \in Records :
          \/ UNCHANGED <<rows[x], audit[x]>>
          \/ \E e \in Entry : /\ audit'[x] = Append(audit[x], e)
                              /\ Creation(x, e) \/ Change(x, e) \/ Deletion(x, e)]_vars

\* So the version of a record tells how many entries it has.
Writes(x) == rows[x].version + (IF rows[x].phase = "deleted" THEN 1 ELSE 0)

VersionsCountEntries == \A x \in Records : Writes(x) = Seed[x].version + Len(audit[x])

\* A code that has no row has no version.
Counted == VersionsCountEntries /\ \A x \in Records : rows[x].phase = "absent" => rows[x].version = 0

LEMMA CountedStep ==
    ASSUME IInv, [Next]_vars, NEW x \in Records, ~UNCHANGED <<rows[x], audit[x]>>
    PROVE  \E e \in Entry : /\ audit'[x] = Append(audit[x], e)
                            /\ Creation(x, e) \/ Change(x, e) \/ Deletion(x, e)
<1>1. ASSUME NEW r \in Requests, Inserted(r, x)
      PROVE  \E e \in Entry : audit'[x] = Append(audit[x], e) /\ Creation(x, e)
    <2> DEFINE e == [action |-> "create", before |-> "", after |-> req[r].row.status]
    <2>1. /\ req[r].row.phase = "live" /\ req[r].row.version = 1
          /\ req[r].row.status \in Statuses
        BY <1>1, AboutToCommit, InitialStatusOf DEF Inserted, InOrder
    <2>2. e \in Entry /\ Creation(x, e)
        BY <1>1, <2>1 DEF Entry, Creation, Inserted
    <2> QED BY <1>1, <2>2 DEF Inserted
<1>2. ASSUME NEW r \in Requests, Updated(r, x)
      PROVE  \E e \in Entry : audit'[x] = Append(audit[x], e) /\ Change(x, e)
    <2> DEFINE e == [action |-> req[r].op, before |-> req[r].before, after |-> req[r].row.status]
    <2>1. /\ req[r].row.phase = "live" /\ req[r].row.version = req[r].expected + 1
          /\ rows[x].version = req[r].expected /\ Live(x)
          /\ req[r].before \in Statuses /\ req[r].row.status \in Statuses
        BY <1>2, AboutToCommit, EdgeEnds DEF Updated, InOrder, UpdatesOneRow
    <2>2. e \in Entry /\ Change(x, e)
        BY <1>2, <2>1 DEF Entry, Change, Updated
    <2> QED BY <1>2, <2>2 DEF Updated
<1>3. ASSUME NEW r \in Requests, Deleted(r, x)
      PROVE  \E e \in Entry : audit'[x] = Append(audit[x], e) /\ Deletion(x, e)
    <2> DEFINE e == [action |-> "delete", before |-> req[r].before, after |-> "deleted"]
    <2>1. req[r].before \in Statuses
        BY <1>3, AboutToCommit DEF Deleted, InOrder
    <2>2. e \in Entry /\ Deletion(x, e)
        BY <1>3, <2>1 DEF Entry, Deletion, Deleted
    <2> QED BY <1>3, <2>2 DEF Deleted
<1> QED BY <1>1, <1>2, <1>3, RecordStep

(***************************************************************************)
(* Versions and entries count the writes of every record, whatever         *)
(* versions the clients send (README 43, 45).                              *)
(***************************************************************************)
THEOREM WritesAreCounted == Spec => EveryWriteIsCounted /\ []VersionsCountEntries
<1>1. Init => Counted
    <2> SUFFICES ASSUME Init, NEW x \in Records
                 PROVE  /\ Writes(x) = Seed[x].version + Len(audit[x])
                        /\ rows[x].phase = "absent" => rows[x].version = 0
        BY DEF Counted, VersionsCountEntries
    <2>1. /\ rows[x] = Seed[x] /\ audit[x] = <<>> /\ Seed[x].version \in Nat
          /\ Seed[x].phase # "deleted" /\ (Seed[x].phase = "absent" => Seed[x] = AbsentRow)
        BY SeedIsCommitted DEF Init, StoreInit, Row
    <2>2. Writes(x) = Seed[x].version /\ Len(audit[x]) = 0
        BY <2>1 DEF Writes
    <2>3. rows[x].phase = "absent" => rows[x].version = 0
        <3>1. AbsentRow.version = 0
            BY DEF AbsentRow
        <3>2. Seed[x].phase = "absent" => Seed[x].version = AbsentRow.version
            BY <2>1
        <3> QED BY <2>1, <3>1, <3>2
    <2>4. Seed[x].version = Seed[x].version + 0
        BY <2>1
    <2> QED BY <2>2, <2>3, <2>4
<1>2. ASSUME IInv, Counted, [Next]_vars PROVE Counted'
    <2> SUFFICES ASSUME NEW x \in Records
                 PROVE  /\ Writes(x)' = Seed[x].version + Len(audit'[x])
                        /\ rows'[x].phase = "absent" => rows'[x].version = 0
        BY DEF Counted, VersionsCountEntries
    <2>1. /\ Writes(x) = Seed[x].version + Len(audit[x])
          /\ rows[x].phase = "absent" => rows[x].version = 0
          /\ rows[x] \in Row /\ audit[x] \in Seq(Entry) /\ Seed[x].version \in Nat
        BY <1>2, SeedIsCommitted DEF Counted, VersionsCountEntries, IInv, TypeInv, TypeOK, Row
    <2>2. CASE UNCHANGED <<rows[x], audit[x]>>
        BY <2>1, <2>2 DEF Writes
    <2>3. ASSUME NEW e \in Entry, audit'[x] = Append(audit[x], e),
                 Creation(x, e) \/ Change(x, e) \/ Deletion(x, e)
          PROVE  /\ Writes(x)' = Seed[x].version + Len(audit'[x])
                 /\ rows'[x].phase # "absent"
        <3>1. Len(audit'[x]) = Len(audit[x]) + 1 /\ Len(audit[x]) \in Nat
            BY <2>1, <2>3
        <3>2. Writes(x) \in Nat /\ Writes(x)' = Writes(x) + 1 /\ rows'[x].phase # "absent"
            <4>1. rows[x].version \in Nat
                BY <2>1 DEF Row
            <4>2. CASE Creation(x, e)
                <5>1. Writes(x) = 0 /\ Writes(x)' = 1 /\ rows'[x].phase = "live"
                    BY <2>1, <4>2 DEF Creation, Writes
                <5> QED BY <5>1
            <4>3. CASE Change(x, e)
                BY <4>1, <4>3 DEF Change, Writes, Live
            <4>4. CASE Deletion(x, e)
                <5>1. rows'[x].version = rows[x].version /\ rows'[x].phase = "deleted"
                    BY <2>1, <4>4 DEF Deletion, Row
                <5> QED BY <4>1, <4>4, <5>1 DEF Deletion, Writes, Live
            <4> QED BY <2>3, <4>2, <4>3, <4>4
        <3> QED BY <2>1, <3>1, <3>2
    <2> QED BY <1>2, <2>2, <2>3, CountedStep
<1>3. IInv /\ [Next]_vars =>
         [\A x \in Records :
             \/ UNCHANGED <<rows[x], audit[x]>>
             \/ \E e \in Entry : /\ audit'[x] = Append(audit[x], e)
                                 /\ Creation(x, e) \/ Change(x, e) \/ Deletion(x, e)]_vars
    BY CountedStep
<1>4. Counted => VersionsCountEntries
    BY DEF Counted
<1> QED BY <1>1, <1>2, <1>3, <1>4, Invariance, PTL DEF Spec, EveryWriteIsCounted

-----------------------------------------------------------------------------
(* The statuses that entries state.                                        *)

\* The statuses a record has had up to its n-th entry, and so far.
HadBy(x, n) == {Seed[x].status} \cup {audit[x][i].after : i \in 1 .. n}

HadSoFar(x) == HadBy(x, Len(audit[x]))

\* Every entry but a creation's states a status which the record had before.
EntriesStateThePast ==
    \A x \in Records : \A n \in 1 .. Len(audit[x]) :
        audit[x][n].action # "create" => audit[x][n].before \in HadBy(x, n - 1)

Noted ==
    /\ EntriesStateThePast
    /\ \A x \in Records : rows[x].status \in HadSoFar(x)
    /\ \A r \in Requests :
          InFlight(r) /\ req[r].op \in {"update", "transition", "delete"} =>
              req[r].before \in HadSoFar(req[r].rec)

LEMMA AppendedTrail ==
    ASSUME IInv, NEW x \in Records, NEW e \in Entry, audit'[x] = Append(audit[x], e)
    PROVE  /\ Len(audit[x]) \in Nat /\ Len(audit'[x]) = Len(audit[x]) + 1
           /\ audit'[x][Len(audit'[x])] = e
           /\ \A n \in 1 .. Len(audit[x]) : audit'[x][n] = audit[x][n]
BY DEF IInv, TypeInv, TypeOK

\* What a record has had it will always have had.
LEMMA HadGrows ==
    ASSUME IInv, [Next]_vars, NEW x \in Records
    PROVE  HadSoFar(x) \subseteq HadSoFar(x)'
<1>1. CASE UNCHANGED <<rows[x], audit[x]>>
    BY <1>1 DEF HadSoFar, HadBy
<1>2. ASSUME NEW e \in Entry, audit'[x] = Append(audit[x], e)
      PROVE  HadSoFar(x) \subseteq HadSoFar(x)'
    <2>1. \A n \in 1 .. Len(audit[x]) : n \in 1 .. Len(audit'[x]) /\ audit'[x][n] = audit[x][n]
        BY <1>2, AppendedTrail
    <2> QED BY <2>1 DEF HadSoFar, HadBy
<1> QED BY <1>1, <1>2, CountedStep

\* A new entry states what its request saw.
LEMMA StatedByRequest ==
    ASSUME IInv, Noted, [Next]_vars, NEW x \in Records, ~UNCHANGED <<rows[x], audit[x]>>,
           audit'[x][Len(audit'[x])].action # "create"
    PROVE  audit'[x][Len(audit'[x])].before \in HadSoFar(x)
<1>1. audit[x] \in Seq(Entry)
    BY DEF IInv, TypeInv, TypeOK
<1>2. PICK r \in Requests : Inserted(r, x) \/ Updated(r, x) \/ Deleted(r, x)
    BY RecordStep
<1>3. CASE Inserted(r, x)
    <2>1. PICK e \in Entry : /\ audit'[x] = Append(audit[x], e)
                             /\ Creation(x, e) \/ Change(x, e) \/ Deletion(x, e)
        BY CountedStep
    <2>2. e.action = "create"
        BY <1>3, <2>1 DEF Inserted, Creation, Change, Deletion, Live
    <2> QED BY <2>1, <2>2, AppendedTrail
<1>4. CASE Updated(r, x) \/ Deleted(r, x)
    <2>1. audit'[x][Len(audit'[x])].before = req[r].before
        BY <1>1, <1>4 DEF Updated, Deleted
    <2>2. req[r].before \in HadSoFar(x)
        BY <1>4 DEF Noted, Updated, Deleted, InFlight
    <2> QED BY <2>1, <2>2
<1> QED BY <1>2, <1>3, <1>4

LEMMA NotedInv == Spec => []Noted
<1>1. Init => Noted
    <2> SUFFICES ASSUME Init PROVE Noted
        OBVIOUS
    <2>1. \A x \in Records : rows[x] = Seed[x] /\ Len(audit[x]) = 0
        BY DEF Init, StoreInit
    <2>2. \A r \in Requests : ~InFlight(r)
        BY DEF Init, StoreInit, Idle, InFlight
    <2> QED BY <2>1, <2>2 DEF Noted, EntriesStateThePast, HadSoFar, HadBy
<1>2. ASSUME IInv, Noted, [Next]_vars PROVE Noted'
    <2>1. ASSUME NEW x \in Records PROVE rows'[x].status \in HadSoFar(x)'
        <3>1. rows[x].status \in HadSoFar(x) /\ rows[x] \in Row
            BY <1>2 DEF Noted, IInv, TypeInv, TypeOK
        <3>2. CASE rows'[x].status = rows[x].status
            BY <1>2, <3>1, <3>2, HadGrows
        <3>3. ASSUME NEW e \in Entry, audit'[x] = Append(audit[x], e), e.after = rows'[x].status
              PROVE  rows'[x].status \in HadSoFar(x)'
            <4>1. Len(audit'[x]) \in 1 .. Len(audit'[x]) /\ audit'[x][Len(audit'[x])] = e
                BY <1>2, <3>3, AppendedTrail
            <4> QED BY <3>3, <4>1 DEF HadSoFar, HadBy
        <3>4. ASSUME NEW e \in Entry, Deletion(x, e) PROVE rows'[x].status = rows[x].status
            BY <3>1, <3>4 DEF Deletion, Row
        <3> QED BY <1>2, <3>2, <3>3, <3>4, CountedStep DEF Creation, Change
    <2>2. ASSUME NEW r \in Requests, InFlight(r)',
                 req'[r].op \in {"update", "transition", "delete"}
          PROVE  (req[r].before \in HadSoFar(req[r].rec))'
        <3>1. req[r] \in Request /\ req'[r] \in Request
            BY <1>2, NextInv DEF IInv, TypeInv, TypeOK
        <3>2. ASSUME NEW x, x = req[r].rec, InFlight(r), req'[r].rec = x,
                     req'[r].op = req[r].op, req'[r].before = req[r].before
              PROVE  (req[r].before \in HadSoFar(req[r].rec))'
            <4>1. req[r].before \in HadSoFar(x) /\ x \in Records
                BY <1>2, <2>2, <3>2 DEF Noted, IInv, TypeInv, InOrder, InFlight
            <4>2. req'[r].before \in HadSoFar(x)'
                BY <1>2, <3>2, <4>1, HadGrows
            <4> QED BY <3>2, <4>2
        <3>3. ASSUME NEW q, req'[r] = q, Taken(q), Receive(r, q)
              PROVE  (req[r].before \in HadSoFar(req[r].rec))'
            <4>1. q.rec \in Records /\ q.op \in {"update", "transition", "delete"}
                BY <2>2, <3>1, <3>3 DEF Taken, Request
            <4>2. q.before \in HadSoFar(q.rec)
                BY <1>2, <3>3, <4>1 DEF Taken, Noted
            <4>3. q.before \in HadSoFar(q.rec)'
                BY <3>3, <4>2 DEF Receive, HadSoFar, HadBy
            <4> QED BY <3>3, <4>3
        <3>4. CASE Passed(r)
            BY <3>1, <3>2, <3>4 DEF Passed, Request, InFlight
        <3>5. CASE req'[r] = req[r]
            BY <2>2, <3>2, <3>5 DEF InFlight
        <3> QED BY <1>2, <2>2, <3>3, <3>4, <3>5, Fate DEF InFlight
    <2>3. ASSUME NEW x \in Records, NEW n \in 1 .. Len(audit'[x]), audit'[x][n].action # "create"
          PROVE  (audit[x][n].before \in HadBy(x, n - 1))'
        <3>1. CASE UNCHANGED <<rows[x], audit[x]>>
            BY <1>2, <2>3, <3>1 DEF Noted, EntriesStateThePast, HadBy
        <3>2. ASSUME ~UNCHANGED <<rows[x], audit[x]>>
              PROVE  audit'[x][n].before \in HadBy(x, n - 1)'
            <4>1. PICK e \in Entry : audit'[x] = Append(audit[x], e)
                BY <1>2, <3>2, CountedStep
            <4>2. /\ Len(audit[x]) \in Nat /\ Len(audit'[x]) = Len(audit[x]) + 1
                  /\ audit'[x][Len(audit'[x])] = e
                  /\ \A m \in 1 .. Len(audit[x]) : audit'[x][m] = audit[x][m]
                BY <1>2, <4>1, AppendedTrail
            <4>3. HadBy(x, n - 1)' = HadBy(x, n - 1)
                <5>1. \A m \in 1 .. n - 1 : audit'[x][m] = audit[x][m]
                    BY <4>2
                <5> QED BY <5>1 DEF HadBy
            <4>4. CASE n = Len(audit'[x])
                BY <1>2, <2>3, <3>2, <4>2, <4>3, <4>4, StatedByRequest DEF HadSoFar
            <4>5. CASE n # Len(audit'[x])
                <5>1. n \in 1 .. Len(audit[x]) /\ audit'[x][n] = audit[x][n]
                    BY <4>2, <4>5
                <5>2. audit[x][n].before \in HadBy(x, n - 1)
                    BY <1>2, <2>3, <5>1 DEF Noted, EntriesStateThePast
                <5> QED BY <4>3, <5>1, <5>2
            <4> QED BY <4>4, <4>5
        <3> QED BY <3>1, <3>2
    <2>4. EntriesStateThePast'
        BY <2>3 DEF EntriesStateThePast
    <2> QED BY <2>1, <2>2, <2>4 DEF Noted, InFlight
<1> QED BY <1>1, <1>2, Invariance, PTL DEF Spec

(***************************************************************************)
(* The status before (README 45).  An entry states as the status before    *)
(* one which the record had before the entry: a deletion may state an old  *)
(* one (transfer_manifest.go 145), and with clients that run ahead so may  *)
(* an edit or a move, but none states a status the record never had.       *)
(***************************************************************************)
THEOREM NoEntryInventsAStatus == Spec => []EntriesStateThePast
<1>1. Noted => EntriesStateThePast
    BY DEF Noted
<1> QED BY <1>1, NotedInv, PTL

(***************************************************************************)
(* Every record keeps its ledger (README 43-45): the services implement    *)
(* RecordLedger record by record.                                          *)
(***************************************************************************)
THEOREM RecordsKeepLedger ==
    ASSUME Ahead = 0
    PROVE  Spec => KeepsLedger
<1>1. ASSUME Init, NEW x \in Records PROVE Ledger(x)!LedgerInit
    BY <1>1 DEF Init, StoreInit, Ledger!LedgerInit
<1>2. ASSUME IInv, Noted, [Next]_vars, NEW x \in Records
      PROVE  UNCHANGED <<rows[x], audit[x]>> \/ Ledger(x)!LedgerNext
    <2>1. ASSUME NEW r \in Requests, Inserted(r, x) PROVE Ledger(x)!LedgerNext
        <3>1. /\ req[r].row.phase = "live" /\ req[r].row.version = 1
              /\ req[r].row.status = InitialStatus(x)
            BY <1>2, <2>1, AboutToCommit DEF Inserted, InOrder
        <3>2. Ledger(x)!Create
            BY <2>1, <3>1 DEF Inserted, Ledger!Create, Ledger!Post, Ledger!Enter, Book
        <3> QED BY <3>2 DEF Ledger!LedgerNext
    <2>2. ASSUME NEW r \in Requests, Updated(r, x) PROVE Ledger(x)!LedgerNext
        <3>1. /\ rows[x].phase = "live" /\ req[r].row.phase = "live"
              /\ req[r].before = rows[x].status
              /\ req[r].row.version = rows[x].version + 1
              /\ req[r].op = "update" => req[r].row.status = rows[x].status
              /\ req[r].op = "transition" =>
                    <<rows[x].status, req[r].row.status>> \in Graph(x)
            BY <1>2, <2>2, UpdatedFacts
        <3>2. /\ req[r].op \in {"update", "transition"}
              /\ rows'[x] = req[r].row
              /\ audit'[x] = Append(audit[x], [action |-> req[r].op, before |-> req[r].before,
                                               after |-> req[r].row.status])
            BY <2>2 DEF Updated
        <3>3. CASE req[r].op = "update"
            <4>1. Book(rows'[x]) = [phase |-> "live", status |-> rows[x].status,
                                    version |-> rows[x].version + 1]
                BY <3>1, <3>2, <3>3 DEF Book
            <4>2. Ledger(x)!Edit
                BY <3>1, <3>2, <3>3, <4>1
                   DEF Ledger!Edit, Ledger!Post, Ledger!Enter, Book
            <4> QED BY <4>2 DEF Ledger!LedgerNext
        <3>4. CASE req[r].op = "transition"
            <4>1. PICK to \in Statuses : req[r].row.status = to
                BY <3>1, <3>4, EdgeEnds
            <4>2. Ledger(x)!Advance(to)
                BY <3>1, <3>2, <3>4, <4>1
                   DEF Ledger!Advance, Ledger!Post, Ledger!Enter, Book
            <4> QED BY <4>2 DEF Ledger!LedgerNext
        <3> QED BY <3>2, <3>3, <3>4
    <2>3. ASSUME NEW r \in Requests, Deleted(r, x) PROVE Ledger(x)!LedgerNext
        <3>1. req[r].before \in Statuses /\ rows[x] \in Row
            BY <1>2, <2>3, AboutToCommit DEF Deleted, InOrder
        <3>2. /\ rows'[x].phase = "deleted" /\ rows'[x].status = rows[x].status
              /\ rows'[x].version = rows[x].version
            BY <2>3, <3>1 DEF Deleted, Row
        <3>3. req[r].before \in Ledger(x)!Had
            <4>1. req[r].before \in HadSoFar(x)
                BY <1>2, <2>3 DEF Noted, Deleted, InFlight
            <4>2. DOMAIN audit[x] = 1 .. Len(audit[x])
                BY <1>2 DEF IInv, TypeInv, TypeOK
            <4> QED BY <4>1, <4>2 DEF Ledger!Had, HadSoFar, HadBy, Book
        <3>4. Ledger(x)!Delete(req[r].before)
            BY <2>3, <3>2, <3>3 DEF Deleted, Live, Ledger!Delete, Ledger!Post, Ledger!Enter, Book
        <3> QED BY <3>1, <3>4 DEF Ledger!LedgerNext
    <2> QED BY <1>2, <2>1, <2>2, <2>3, RecordStep
<1>3. Init => \A x \in Records : Ledger(x)!LedgerInit
    BY <1>1
<1>4. IInv /\ Noted /\ [Next]_vars =>
         [\A x \in Records : UNCHANGED <<rows[x], audit[x]>> \/ Ledger(x)!LedgerNext]_vars
    BY <1>2
<1> QED BY <1>3, <1>4, Invariance, NotedInv, PTL DEF Spec, KeepsLedger

-----------------------------------------------------------------------------
(* The copy of the graphs in the browser.                                  *)

\* The steps that frontend/src/types/status.ts has and constants/status.go has not.
OfferedInVain(x, from, to) ==
    \/ x \in Carriers /\ from = "pending" /\ to = "expired"
    \/ x \in Checks   /\ from = "pending" /\ to = "escalated"

\* The page of every aggregate offers each step that the service accepts, and
\* of those that it refuses precisely two: a pending carrier's expiry and a
\* pending check's escalation.  For generators and manifests the copy is exact,
\* which is why Workbench may use the graph of the service for both sides.
THEOREM TheCopyIsOffByTwoSteps ==
    ASSUME NEW x \in Records, NEW s \in Statuses
    PROVE  s \in Offered(x) <=> \/ CanTransition(Graph(x), rows[x].status, s)
                                \/ OfferedInVain(x, rows[x].status, s)
<1>1. CASE x \in Generators
    BY <1>1, CodesDisjoint DEF Offered, EntityKey, TRANSITIONS, Graph, CanTransition, OfferedInVain,
       WasteGeneratorTransitions
<1>2. CASE x \in Carriers
    BY <1>2, CodesDisjoint DEF Offered, EntityKey, TRANSITIONS, Graph, CanTransition, OfferedInVain,
       CarrierProfileTransitions
<1>3. CASE x \in Manifests
    BY <1>3, CodesDisjoint DEF Offered, EntityKey, TRANSITIONS, Graph, CanTransition, OfferedInVain,
       TransferManifestTransitions
<1>4. CASE x \in Checks
    BY <1>4, CodesDisjoint DEF Offered, EntityKey, TRANSITIONS, Graph, CanTransition, OfferedInVain,
       ComplianceCheckTransitions
<1> QED BY <1>1, <1>2, <1>3, <1>4 DEF Records
=============================================================================
