-------------------------- MODULE ComplianceProofs --------------------------
(***************************************************************************)
(* Proofs about Compliance, for every set of codes, every number of        *)
(* requests in flight, every seed and every bound.                         *)
(***************************************************************************)
EXTENDS Compliance, SequenceTheorems, TLAPS

(***************************************************************************)
(* The inductive invariant.                                                *)
(*                                                                         *)
(* TypeOK is not inductive: a commit writes the row of its request to the  *)
(* record of its request, so the record must be one and the status of the  *)
(* row must not be the empty one.  InOrder says what else a request in     *)
(* progress knows; `current' is the row on record of the record it is for. *)
(*                                                                         *)
(* Locked is what optimistic locking is about.  A version is never ahead   *)
(* of the record, and as long as it is level with it no other write has    *)
(* come between: the row in hand was made from the row on record.  One     *)
(* more write leaves the request behind for good.  It holds when no client *)
(* runs ahead of the record (Ahead = 0).                                   *)
(***************************************************************************)
InOrder(q, current) ==
    q.pc # "idle" =>
        /\ q.rec \in Records
        /\ q.op = "create" =>
              /\ q.row.phase = "live"
              /\ q.row.version = 1
              /\ q.row.status = InitialStatus(q.rec)
        /\ q.op = "delete" => q.before \in Statuses
        /\ q.op \in {"update", "transition"} =>
              /\ current.phase # "absent"
              /\ q.before \in Statuses
              /\ q.row.phase = "live"
              /\ q.row.version = q.expected + 1
              /\ q.op = "update" => q.row.status = q.before
              /\ q.op = "update" /\ q.rec \in Manifests => q.before = "draft"
              /\ q.op = "update" /\ q.rec \in Checks => q.before = "pending"
              /\ q.op = "transition" => <<q.before, q.row.status>> \in Graph(q.rec)

Locked(q, current) ==
    q.pc \notin {"idle", "reply"} /\ q.op \in {"update", "transition"} =>
        /\ q.expected <= current.version
        /\ q.expected = current.version =>
              /\ q.before = current.status
              /\ q.op = "transition" =>
                    q.row = [current EXCEPT !.phase = "live", !.status = q.row.status,
                                            !.version = @ + 1]

RowsInOrder ==
    \A x \in Records : /\ rows[x].phase # "absent" => rows[x].status \in Statuses
                       /\ rows[x].phase = "absent" => rows[x].status = ""

TypeInv ==
    /\ TypeOK
    /\ RowsInOrder
    /\ \A r \in Requests : InOrder(req[r], rows[req[r].rec])

LockInv == \A r \in Requests : Locked(req[r], rows[req[r].rec])

IInv == TypeInv /\ (Ahead = 0 => LockInv)

-----------------------------------------------------------------------------
(* Rows, requests and entries: the types of what the steps build.          *)

\* The row of a new record, and the row that says there is none.
LEMMA NewRowType ==
    /\ AbsentRow \in Row
    /\ \A s \in Statuses : NewRow(s) \in Row
<1>1. AbsentRow \in Row
    BY BoundsAreNaturals DEF AbsentRow, Row, Dates
<1>2. ASSUME NEW s \in Statuses PROVE NewRow(s) \in Row
    BY <1>1 DEF NewRow, Row
<1> QED BY <1>1, <1>2

LEMMA IdleType == Idle \in Request
BY NewRowType DEF Idle, Request

LEMMA WriteRequestType ==
    ASSUME TypeOK, NEW x \in Records, NEW expected \in ExpectedVersions(x),
           NEW pc \in {"generator", "manifest", "commit"},
           NEW op \in {"update", "transition"}, NEW row \in Row
    PROVE  WriteRequest(pc, op, x, expected, row) \in Request
<1>1. expected \in Nat /\ expected + 1 \in Nat
    BY BoundsAreNaturals DEF ExpectedVersions
<1>2. rows[x].status \in Statuses \cup {""}
    BY DEF TypeOK, Row
<1>3. [row EXCEPT !.version = expected + 1] \in Row
    BY <1>1 DEF Row
<1> QED BY <1>1, <1>2, <1>3 DEF WriteRequest, Request

LEMMA CreateRequestType ==
    ASSUME NEW x \in Records, NEW pc \in {"generator", "manifest", "commit"}, NEW row \in Row
    PROVE  CreateRequest(pc, x, row) \in Request
BY DEF CreateRequest, Request

LEMMA DeleteRequestType ==
    ASSUME TypeOK, NEW x \in Records
    PROVE  DeleteRequest(x) \in Request
BY NewRowType DEF TypeOK, DeleteRequest, Request, Row

\* What the services put into the row in hand stays a row.
LEMMA InputRowType ==
    ASSUME NEW row \in Row
    PROVE  /\ \A d \in Dates : [row EXCEPT !.expiresAt = d] \in Row
           /\ \A s \in Statuses : [row EXCEPT !.status = s] \in Row
           /\ \A g \in Generators, c \in Carriers :
                 [row EXCEPT !.generator = g, !.carrier = c] \in Row
           /\ \A m \in Manifests : [row EXCEPT !.manifest = m] \in Row
BY DEF Row

LEMMA InitialStatusType ==
    /\ WasteGeneratorInitialStatus \in Statuses
    /\ CarrierProfileInitialStatus \in Statuses
    /\ TransferManifestInitialStatus \in Statuses
    /\ ComplianceCheckInitialStatus \in Statuses
BY DEF WasteGeneratorInitialStatus, CarrierProfileInitialStatus,
       TransferManifestInitialStatus, ComplianceCheckInitialStatus, Statuses

\* An entry at the end of one trail.
LEMMA LoggedType ==
    ASSUME TypeOK, NEW x \in Records,
           NEW action \in {"create", "update", "transition", "delete"},
           NEW before \in Statuses \cup {""}, NEW after \in Statuses \cup {"deleted"},
           Logged(x, action, before, after)
    PROVE  audit' \in [Records -> Seq(Entry)]
<1> DEFINE e == [action |-> action, before |-> before, after |-> after]
<1>1. e \in Entry
    BY DEF Entry
<1> HIDE DEF e
<1>2. Append(audit[x], e) \in Seq(Entry)
    BY <1>1, AppendProperties DEF TypeOK
<1>3. audit' = [audit EXCEPT ![x] = Append(audit[x], e)]
    BY DEF Logged, e
<1> QED BY <1>2, <1>3 DEF TypeOK

-----------------------------------------------------------------------------
(* The status graphs.                                                      *)

LEMMA InitialStatusOf ==
    /\ \A x \in Generators : InitialStatus(x) = WasteGeneratorInitialStatus
    /\ \A x \in Carriers   : InitialStatus(x) = CarrierProfileInitialStatus
    /\ \A x \in Manifests  : InitialStatus(x) = TransferManifestInitialStatus
    /\ \A x \in Checks     : InitialStatus(x) = ComplianceCheckInitialStatus
    /\ \A x : InitialStatus(x) \in Statuses
BY CodesDisjoint, InitialStatusType DEF InitialStatus

LEMMA GraphOf ==
    /\ \A x \in Generators : Graph(x) = WasteGeneratorTransitions
    /\ \A x \in Carriers   : Graph(x) = CarrierProfileTransitions
    /\ \A x \in Manifests  : Graph(x) = TransferManifestTransitions
    /\ \A x \in Checks     : Graph(x) = ComplianceCheckTransitions
BY CodesDisjoint DEF Graph

\* Both ends of an edge are statuses.
LEMMA EdgeEnds ==
    ASSUME NEW x, NEW from, NEW to, <<from, to>> \in Graph(x)
    PROVE  from \in Statuses /\ to \in Statuses
BY DEF Graph, WasteGeneratorTransitions, CarrierProfileTransitions,
       TransferManifestTransitions, ComplianceCheckTransitions, Statuses

-----------------------------------------------------------------------------
(* Steps, by what they change.                                             *)

\* A step that changes one request and nothing else.
LEMMA RequestStep ==
    ASSUME IInv, NEW r \in Requests, NEW q \in Request,
           InOrder(q, rows[q.rec]), Ahead = 0 => Locked(q, rows[q.rec]),
           req' = [req EXCEPT ![r] = q], UNCHANGED <<rows, audit, now>>
    PROVE  IInv'
<1>1. TypeOK' /\ RowsInOrder'
    BY DEF IInv, TypeInv, TypeOK, RowsInOrder
<1>2. ASSUME NEW s \in Requests
      PROVE  /\ InOrder(req'[s], rows'[req'[s].rec])
             /\ Ahead = 0 => Locked(req'[s], rows'[req'[s].rec])
    BY DEF IInv, TypeInv, TypeOK, LockInv
<1> QED BY <1>1, <1>2 DEF IInv, TypeInv, LockInv

\* A committed write puts on record a row that has a status, with a later
\* version or as it was but for the deletion.  A request that has the lock keeps
\* it: it is left behind or still level.
LEMMA LockLasts ==
    ASSUME NEW p \in Request, NEW current \in Row, NEW row \in Row,
           InOrder(p, current), Locked(p, current),
           \/ current.phase = "absent"
           \/ row.version > current.version
           \/ row = [current EXCEPT !.phase = "deleted"]
    PROVE  Locked(p, row)
<1>1. CASE current.phase = "absent"
    BY <1>1 DEF Locked, InOrder
<1>2. CASE row.version > current.version
    <2>1. p.expected \in Nat /\ current.version \in Nat /\ row.version \in Nat
        BY DEF Row, Request
    <2>2. p.expected <= current.version => p.expected <= row.version /\ p.expected # row.version
        BY <1>2, <2>1
    <2> QED BY <2>2 DEF Locked
<1>3. CASE row = [current EXCEPT !.phase = "deleted"]
    <2>1. row.version = current.version /\ row.status = current.status
        BY <1>3 DEF Row
    <2>2. [row EXCEPT !.phase = "live", !.status = p.row.status, !.version = @ + 1]
            = [current EXCEPT !.phase = "live", !.status = p.row.status, !.version = @ + 1]
        BY <1>3 DEF Row
    <2> QED BY <2>1, <2>2 DEF Locked
<1> QED BY <1>1, <1>2, <1>3

\* The other requests stay in order, and have the lock if they had it.
LEMMA CommitStep ==
    ASSUME IInv, NEW r \in Requests, NEW q \in Request, NEW x \in Records, NEW row \in Row,
           row.phase # "absent", row.status \in Statuses,
           \/ rows[x].phase = "absent"
           \/ row.version > rows[x].version
           \/ row = [rows[x] EXCEPT !.phase = "deleted"],
           q.pc \in {"idle", "reply"}, q.pc = "reply" => q.rec = x /\ InOrder(q, row),
           req' = [req EXCEPT ![r] = q], rows' = [rows EXCEPT ![x] = row],
           audit' \in [Records -> Seq(Entry)], now' = now
    PROVE  IInv'
<1>1. TypeOK' /\ RowsInOrder'
    BY DEF IInv, TypeInv, TypeOK, RowsInOrder
<1>2. ASSUME NEW s \in Requests
      PROVE  /\ InOrder(req'[s], rows'[req'[s].rec])
             /\ Ahead = 0 => Locked(req'[s], rows'[req'[s].rec])
    <2>1. CASE s = r
        <3>1. req'[s] = q
            BY <2>1 DEF IInv, TypeInv, TypeOK
        <3>2. q.pc = "reply" => rows'[q.rec] = row
            BY DEF IInv, TypeInv, TypeOK
        <3> QED BY <3>1, <3>2 DEF InOrder, Locked
    <2>2. CASE s # r
        <3> DEFINE p == req[s]
        <3>1. /\ req'[s] = p
              /\ p \in Request
              /\ InOrder(p, rows[p.rec])
              /\ Ahead = 0 => Locked(p, rows[p.rec])
            BY <2>2 DEF IInv, TypeInv, TypeOK, LockInv
        <3> HIDE DEF p
        <3>2. CASE p.rec # x
            <4>1. rows'[p.rec] = rows[p.rec]
                BY <3>2 DEF IInv, TypeInv, TypeOK
            <4> QED BY <3>1, <4>1
        <3>3. CASE p.rec = x
            <4>1. rows'[p.rec] = row /\ rows[x] \in Row
                BY <3>3 DEF IInv, TypeInv, TypeOK
            <4>2. InOrder(p, row)
                BY <3>1 DEF InOrder
            <4>3. Ahead = 0 => Locked(p, row)
                BY <3>1, <3>3, <4>1, LockLasts
            <4> QED BY <3>1, <4>1, <4>2, <4>3
        <3> QED BY <3>2, <3>3
    <2> QED BY <2>1, <2>2
<1> QED BY <1>1, <1>2 DEF IInv, TypeInv, LockInv

LEMMA FinishStep ==
    ASSUME IInv, NEW r \in Requests, Finish(r), UNCHANGED <<rows, audit, now>>
    PROVE  IInv'
BY RequestStep, IdleType DEF Finish, InOrder, Locked, Idle

LEMMA LookStep ==
    ASSUME IInv, NEW r \in Requests, NEW accepted, NEW pc \in {"carrier", "commit"},
           Look(r, accepted, pc), req[r].pc \notin {"idle", "reply"}
    PROVE  IInv'
<1>1. CASE Continue(r, pc)
    <2> DEFINE q == [req[r] EXCEPT !.pc = pc]
    <2>1. /\ req[r] \in Request /\ InOrder(req[r], rows[req[r].rec])
          /\ Ahead = 0 => Locked(req[r], rows[req[r].rec])
        BY DEF IInv, TypeInv, TypeOK, LockInv
    <2>2. q \in Request
        BY <2>1 DEF Request
    <2>3. InOrder(q, rows[q.rec])
        BY <2>1 DEF InOrder, Request
    <2>4. Ahead = 0 => Locked(q, rows[q.rec])
        BY <2>1 DEF Locked, Request
    <2>5. req' = [req EXCEPT ![r] = q] /\ UNCHANGED <<rows, audit, now>>
        BY <1>1, <2>1 DEF Continue
    <2> QED BY <2>2, <2>3, <2>4, <2>5, RequestStep
<1>2. CASE Finish(r) /\ UNCHANGED <<rows, audit, now>>
    BY <1>2, FinishStep
<1> QED BY <1>1, <1>2 DEF Look

-----------------------------------------------------------------------------
(* Requests taken up.                                                      *)

LEMMA NewRowFields ==
    \A s \in Statuses : /\ NewRow(s).phase = "live"
                        /\ NewRow(s).version = 1
                        /\ NewRow(s).status = s
BY DEF NewRow, AbsentRow

LEMMA ReceiveStep ==
    ASSUME IInv, NEW r \in Requests, NEW q \in Request,
           InOrder(q, rows[q.rec]), Ahead = 0 => Locked(q, rows[q.rec]), Receive(r, q)
    PROVE  IInv'
BY RequestStep DEF Receive

LEMMA CreateStep ==
    ASSUME IInv, NEW r \in Requests, NEW x \in Records,
           NEW pc \in {"generator", "manifest", "commit"}, NEW row \in Row,
           row.phase = "live", row.version = 1, row.status = InitialStatus(x),
           Receive(r, CreateRequest(pc, x, row))
    PROVE  IInv'
<1> DEFINE q == CreateRequest(pc, x, row)
<1>1. q \in Request
    BY CreateRequestType
<1>2. InOrder(q, rows[q.rec]) /\ Locked(q, rows[q.rec])
    BY DEF InOrder, Locked, CreateRequest
<1> QED BY <1>1, <1>2, ReceiveStep

LEMMA DeleteStep ==
    ASSUME IInv, NEW r \in Requests, NEW x \in Records, Live(x),
           Receive(r, DeleteRequest(x))
    PROVE  IInv'
<1> DEFINE q == DeleteRequest(x)
<1>1. q \in Request
    BY DeleteRequestType DEF IInv, TypeInv
<1>2. rows[x].status \in Statuses
    BY DEF IInv, TypeInv, RowsInOrder, Live
<1>3. InOrder(q, rows[q.rec]) /\ Locked(q, rows[q.rec])
    BY <1>2 DEF InOrder, Locked, DeleteRequest
<1> QED BY <1>1, <1>3, ReceiveStep

\* Clients that do not run ahead send a version the record has had.
LEMMA ExpectedBehind ==
    ASSUME IInv, NEW x \in Records, NEW expected \in ExpectedVersions(x), Ahead = 0
    PROVE  expected <= rows[x].version
<1>1. rows[x].version \in Nat
    BY DEF IInv, TypeInv, TypeOK, Row
<1>2. expected <= rows[x].version + Ahead
    BY DEF ExpectedVersions
<1> QED BY <1>1, <1>2

\* An update keeps the status it read; a manifest is a draft then and a check
\* is pending.
LEMMA UpdateStep ==
    ASSUME IInv, NEW r \in Requests, NEW x \in Records, Live(x),
           NEW expected \in ExpectedVersions(x),
           NEW pc \in {"generator", "manifest", "commit"}, NEW row \in Row,
           row.phase = "live", row.status = rows[x].status,
           x \in Manifests => row.status = "draft",
           x \in Checks => row.status = "pending",
           Receive(r, WriteRequest(pc, "update", x, expected, row))
    PROVE  IInv'
<1> DEFINE q == WriteRequest(pc, "update", x, expected, row)
<1>1. q \in Request
    BY WriteRequestType DEF IInv, TypeInv
<1>2. rows[x].status \in Statuses /\ rows[x].phase # "absent"
    BY DEF IInv, TypeInv, RowsInOrder, Live
<1>3. q.row.version = expected + 1 /\ q.row.phase = "live" /\ q.row.status = row.status
    BY DEF WriteRequest, Row
<1>4. InOrder(q, rows[q.rec])
    BY <1>2, <1>3 DEF InOrder, WriteRequest
<1>5. ASSUME Ahead = 0 PROVE Locked(q, rows[q.rec])
    <2>1. expected <= rows[x].version
        BY <1>5, ExpectedBehind
    <2> QED BY <2>1 DEF Locked, WriteRequest
<1> QED BY <1>1, <1>4, <1>5, ReceiveStep

\* A transition changes the status along an edge and leaves the rest alone.
LEMMA TransitionStep ==
    ASSUME IInv, NEW r \in Requests, NEW x \in Records, Live(x),
           NEW expected \in ExpectedVersions(x),
           NEW pc \in {"generator", "manifest", "commit"}, NEW target \in Statuses,
           <<rows[x].status, target>> \in Graph(x),
           Receive(r, WriteRequest(pc, "transition", x, expected,
                                   [rows[x] EXCEPT !.status = target]))
    PROVE  IInv'
<1> DEFINE row == [rows[x] EXCEPT !.status = target]
           q   == WriteRequest(pc, "transition", x, expected, row)
<1>1. rows[x] \in Row /\ row \in Row
    BY InputRowType DEF IInv, TypeInv, TypeOK
<1>2. q \in Request
    BY <1>1, WriteRequestType DEF IInv, TypeInv
<1>3. rows[x].status \in Statuses /\ rows[x].phase = "live"
    BY DEF IInv, TypeInv, RowsInOrder, Live
<1>4. /\ q.row.version = expected + 1 /\ q.row.phase = "live" /\ q.row.status = target
      /\ q.row = [rows[x] EXCEPT !.status = target, !.version = expected + 1]
    BY <1>1, <1>3 DEF WriteRequest, Row
<1>5. InOrder(q, rows[q.rec])
    BY <1>3, <1>4 DEF InOrder, WriteRequest
<1>6. ASSUME Ahead = 0 PROVE Locked(q, rows[q.rec])
    <2>1. expected <= rows[x].version
        BY <1>6, ExpectedBehind
    <2>2. expected = rows[x].version =>
             q.row = [rows[x] EXCEPT !.phase = "live", !.status = q.row.status, !.version = @ + 1]
        BY <1>1, <1>3, <1>4 DEF Row
    <2> QED BY <2>1, <2>2 DEF Locked, WriteRequest
<1> QED BY <1>2, <1>5, <1>6, ReceiveStep

LEMMA GeneratorReceiveStep ==
    ASSUME IInv, NEW r \in Requests, GeneratorReceive(r)
    PROVE  IInv'
<1>1. PICK x \in Generators :
          \/ CreateGenerator(r, x)
          \/ UpdateGenerator(r, x)
          \/ TransitionGenerator(r, x)
          \/ DeleteGenerator(r, x)
    BY DEF GeneratorReceive
<1>2. x \in Records /\ rows[x] \in Row
    BY DEF Records, IInv, TypeInv, TypeOK
<1>3. x \notin Manifests /\ x \notin Checks
    BY CodesDisjoint
<1>4. CASE CreateGenerator(r, x)
    <2> DEFINE new == NewRow(WasteGeneratorInitialStatus)
    <2>1. PICK d \in ValidDates :
              Receive(r, CreateRequest("commit", x, [new EXCEPT !.expiresAt = d]))
        BY <1>4 DEF CreateGenerator
    <2>2. d \in Dates
        BY DEF ValidDates
    <2>3. new \in Row /\ [new EXCEPT !.expiresAt = d] \in Row
        BY <2>2, NewRowType, InitialStatusType, InputRowType
    <2>4. new.phase = "live" /\ new.version = 1 /\ new.status = InitialStatus(x)
        BY NewRowFields, InitialStatusType, InitialStatusOf
    <2> HIDE DEF new
    <2>5. /\ [new EXCEPT !.expiresAt = d].phase = "live"
          /\ [new EXCEPT !.expiresAt = d].version = 1
          /\ [new EXCEPT !.expiresAt = d].status = InitialStatus(x)
        BY <2>3, <2>4 DEF Row
    <2> QED BY <1>2, <2>1, <2>3, <2>5, CreateStep
<1>5. CASE UpdateGenerator(r, x)
    <2>1. Live(x)
        BY <1>5 DEF UpdateGenerator
    <2>2. PICK expected \in ExpectedVersions(x), d \in ValidDates :
              Receive(r, WriteRequest("commit", "update", x, expected, [rows[x] EXCEPT !.expiresAt = d]))
        BY <1>5 DEF UpdateGenerator
    <2>3. [rows[x] EXCEPT !.expiresAt = d] \in Row
        BY <1>2, InputRowType DEF ValidDates
    <2>4. /\ [rows[x] EXCEPT !.expiresAt = d].phase = "live"
          /\ [rows[x] EXCEPT !.expiresAt = d].status = rows[x].status
        BY <1>2, <2>1 DEF Row, Live
    <2> QED BY <1>2, <1>3, <2>1, <2>2, <2>3, <2>4, UpdateStep
<1>6. CASE TransitionGenerator(r, x)
    BY <1>1, <1>2, <1>6, TransitionStep, GraphOf DEF TransitionGenerator, CanTransition
<1>7. CASE DeleteGenerator(r, x)
    BY <1>2, <1>7, DeleteStep DEF DeleteGenerator
<1> QED BY <1>1, <1>4, <1>5, <1>6, <1>7

LEMMA CarrierReceiveStep ==
    ASSUME IInv, NEW r \in Requests, CarrierReceive(r)
    PROVE  IInv'
<1>1. PICK x \in Carriers :
          \/ CreateCarrier(r, x)
          \/ UpdateCarrier(r, x)
          \/ TransitionCarrier(r, x)
          \/ DeleteCarrier(r, x)
    BY DEF CarrierReceive
<1>2. x \in Records /\ rows[x] \in Row
    BY DEF Records, IInv, TypeInv, TypeOK
<1>3. x \notin Manifests /\ x \notin Checks
    BY CodesDisjoint
<1>4. CASE CreateCarrier(r, x)
    <2> DEFINE new == NewRow(CarrierProfileInitialStatus)
    <2>1. PICK d \in ValidDates :
              Receive(r, CreateRequest("commit", x, [new EXCEPT !.expiresAt = d]))
        BY <1>4 DEF CreateCarrier
    <2>2. d \in Dates
        BY DEF ValidDates
    <2>3. new \in Row /\ [new EXCEPT !.expiresAt = d] \in Row
        BY <2>2, NewRowType, InitialStatusType, InputRowType
    <2>4. new.phase = "live" /\ new.version = 1 /\ new.status = InitialStatus(x)
        BY NewRowFields, InitialStatusType, InitialStatusOf
    <2> HIDE DEF new
    <2>5. /\ [new EXCEPT !.expiresAt = d].phase = "live"
          /\ [new EXCEPT !.expiresAt = d].version = 1
          /\ [new EXCEPT !.expiresAt = d].status = InitialStatus(x)
        BY <2>3, <2>4 DEF Row
    <2> QED BY <1>2, <2>1, <2>3, <2>5, CreateStep
<1>5. CASE UpdateCarrier(r, x)
    <2>1. Live(x)
        BY <1>5 DEF UpdateCarrier
    <2>2. PICK expected \in ExpectedVersions(x), d \in ValidDates :
              Receive(r, WriteRequest("commit", "update", x, expected, [rows[x] EXCEPT !.expiresAt = d]))
        BY <1>5 DEF UpdateCarrier
    <2>3. [rows[x] EXCEPT !.expiresAt = d] \in Row
        BY <1>2, InputRowType DEF ValidDates
    <2>4. /\ [rows[x] EXCEPT !.expiresAt = d].phase = "live"
          /\ [rows[x] EXCEPT !.expiresAt = d].status = rows[x].status
        BY <1>2, <2>1 DEF Row, Live
    <2> QED BY <1>2, <1>3, <2>1, <2>2, <2>3, <2>4, UpdateStep
<1>6. CASE TransitionCarrier(r, x)
    BY <1>1, <1>2, <1>6, TransitionStep, GraphOf DEF TransitionCarrier, CanTransition
<1>7. CASE DeleteCarrier(r, x)
    BY <1>2, <1>7, DeleteStep DEF DeleteCarrier
<1> QED BY <1>1, <1>4, <1>5, <1>6, <1>7

LEMMA ManifestReceiveStep ==
    ASSUME IInv, NEW r \in Requests, ManifestReceive(r)
    PROVE  IInv'
<1>1. PICK x \in Manifests :
          \/ CreateManifest(r, x)
          \/ UpdateManifest(r, x)
          \/ TransitionManifest(r, x)
          \/ DeleteManifest(r, x)
    BY DEF ManifestReceive
<1>2. x \in Records /\ rows[x] \in Row
    BY DEF Records, IInv, TypeInv, TypeOK
<1>3. x \notin Checks
    BY CodesDisjoint
<1>4. CASE CreateManifest(r, x)
    <2> DEFINE new == NewRow(TransferManifestInitialStatus)
    <2>1. PICK g \in Generators, c \in Carriers :
              Receive(r, CreateRequest("generator", x, [new EXCEPT !.generator = g, !.carrier = c]))
        BY <1>4 DEF CreateManifest
    <2>3. new \in Row /\ [new EXCEPT !.generator = g, !.carrier = c] \in Row
        BY NewRowType, InitialStatusType, InputRowType
    <2>4. new.phase = "live" /\ new.version = 1 /\ new.status = InitialStatus(x)
        BY NewRowFields, InitialStatusType, InitialStatusOf
    <2> HIDE DEF new
    <2>5. /\ [new EXCEPT !.generator = g, !.carrier = c].phase = "live"
          /\ [new EXCEPT !.generator = g, !.carrier = c].version = 1
          /\ [new EXCEPT !.generator = g, !.carrier = c].status = InitialStatus(x)
        BY <2>3, <2>4 DEF Row
    <2> QED BY <1>2, <2>1, <2>3, <2>5, CreateStep
<1>5. CASE UpdateManifest(r, x)
    <2>1. Live(x) /\ rows[x].status = "draft"
        BY <1>5 DEF UpdateManifest
    <2>2. PICK expected \in ExpectedVersions(x), g \in Generators, c \in Carriers :
              Receive(r, WriteRequest("generator", "update", x, expected, [rows[x] EXCEPT !.generator = g, !.carrier = c]))
        BY <1>5 DEF UpdateManifest
    <2>3. [rows[x] EXCEPT !.generator = g, !.carrier = c] \in Row
        BY <1>2, InputRowType
    <2>4. /\ [rows[x] EXCEPT !.generator = g, !.carrier = c].phase = "live"
          /\ [rows[x] EXCEPT !.generator = g, !.carrier = c].status = rows[x].status
        BY <1>2, <2>1 DEF Row, Live
    <2> QED BY <1>2, <1>3, <2>1, <2>2, <2>3, <2>4, UpdateStep
<1>6. CASE TransitionManifest(r, x)
    BY <1>1, <1>2, <1>6, TransitionStep, GraphOf DEF TransitionManifest, CanTransition
<1>7. CASE DeleteManifest(r, x)
    BY <1>2, <1>7, DeleteStep DEF DeleteManifest
<1> QED BY <1>1, <1>4, <1>5, <1>6, <1>7

LEMMA CheckReceiveStep ==
    ASSUME IInv, NEW r \in Requests, CheckReceive(r)
    PROVE  IInv'
<1>1. PICK x \in Checks :
          \/ CreateCheck(r, x)
          \/ UpdateCheck(r, x)
          \/ TransitionCheck(r, x)
          \/ DeleteCheck(r, x)
    BY DEF CheckReceive
<1>2. x \in Records /\ rows[x] \in Row
    BY DEF Records, IInv, TypeInv, TypeOK
<1>3. x \notin Manifests
    BY CodesDisjoint
<1>4. CASE CreateCheck(r, x)
    <2> DEFINE new == NewRow(ComplianceCheckInitialStatus)
    <2>1. PICK m \in Manifests :
              Receive(r, CreateRequest("manifest", x, [new EXCEPT !.manifest = m]))
        BY <1>4 DEF CreateCheck
    <2>3. new \in Row /\ [new EXCEPT !.manifest = m] \in Row
        BY NewRowType, InitialStatusType, InputRowType
    <2>4. new.phase = "live" /\ new.version = 1 /\ new.status = InitialStatus(x)
        BY NewRowFields, InitialStatusType, InitialStatusOf
    <2> HIDE DEF new
    <2>5. /\ [new EXCEPT !.manifest = m].phase = "live"
          /\ [new EXCEPT !.manifest = m].version = 1
          /\ [new EXCEPT !.manifest = m].status = InitialStatus(x)
        BY <2>3, <2>4 DEF Row
    <2> QED BY <1>2, <2>1, <2>3, <2>5, CreateStep
<1>5. CASE UpdateCheck(r, x)
    <2>1. Live(x) /\ rows[x].status = "pending"
        BY <1>5 DEF UpdateCheck
    <2>2. PICK expected \in ExpectedVersions(x), m \in Manifests :
              Receive(r, WriteRequest("manifest", "update", x, expected, [rows[x] EXCEPT !.manifest = m]))
        BY <1>5 DEF UpdateCheck
    <2>3. [rows[x] EXCEPT !.manifest = m] \in Row
        BY <1>2, InputRowType
    <2>4. /\ [rows[x] EXCEPT !.manifest = m].phase = "live"
          /\ [rows[x] EXCEPT !.manifest = m].status = rows[x].status
        BY <1>2, <2>1 DEF Row, Live
    <2> QED BY <1>2, <1>3, <2>1, <2>2, <2>3, <2>4, UpdateStep
<1>6. CASE TransitionCheck(r, x)
    BY <1>1, <1>2, <1>6, TransitionStep, GraphOf DEF TransitionCheck, CanTransition
<1>7. CASE DeleteCheck(r, x)
    BY <1>2, <1>7, DeleteStep DEF DeleteCheck
<1> QED BY <1>1, <1>4, <1>5, <1>6, <1>7

-----------------------------------------------------------------------------
(* Requests under way.                                                     *)

\* What a request about to commit has in hand.
LEMMA AboutToCommit ==
    ASSUME IInv, NEW r \in Requests, req[r].pc = "commit"
    PROVE  /\ req[r] \in Request
           /\ req[r].rec \in Records
           /\ req[r].row \in Row
           /\ rows[req[r].rec] \in Row
           /\ InOrder(req[r], rows[req[r].rec])
           /\ Ahead = 0 => Locked(req[r], rows[req[r].rec])
<1>1. req[r] \in Request /\ InOrder(req[r], rows[req[r].rec])
    BY DEF IInv, TypeInv, TypeOK
<1>2. req[r].rec \in Records
    BY <1>1 DEF InOrder
<1> QED BY <1>1, <1>2 DEF IInv, TypeInv, TypeOK, LockInv, Request

LEMMA CreateAuditedStep ==
    ASSUME IInv, NEW r \in Requests, CreateAudited(r)
    PROVE  IInv'
<1> DEFINE q == req[r]
           x == q.rec
<1>1. q.pc = "commit" /\ q.op = "create" /\ Finish(r) /\ now' = now
    BY DEF CreateAudited
<1>2. q \in Request /\ x \in Records /\ q.row \in Row /\ InOrder(q, rows[x])
    BY <1>1, AboutToCommit
<1>3. q.row.phase = "live" /\ q.row.status \in Statuses
    BY <1>1, <1>2, InitialStatusOf DEF InOrder
<1>4. CASE rows[x].phase = "absent" /\ rows' = [rows EXCEPT ![x] = q.row]
             /\ Logged(x, "create", "", q.row.status)
    <2>1. audit' \in [Records -> Seq(Entry)]
        BY <1>2, <1>3, <1>4, LoggedType DEF IInv, TypeInv
    <2>2. req' = [req EXCEPT ![r] = Idle] /\ Idle.pc = "idle"
        BY <1>1 DEF Finish, Idle
    <2> QED BY <1>1, <1>2, <1>3, <1>4, <2>1, <2>2, IdleType, CommitStep
<1>5. CASE UNCHANGED <<rows, audit>>
    BY <1>1, <1>5, FinishStep
<1> QED BY <1>4, <1>5 DEF CreateAudited

LEMMA UpdateAuditedStep ==
    ASSUME IInv, NEW r \in Requests, UpdateAudited(r)
    PROVE  IInv'
<1> DEFINE q == req[r]
           x == q.rec
           p == [q EXCEPT !.pc = "reply"]
<1>1. q.pc = "commit" /\ q.op \in {"update", "transition"} /\ now' = now
    BY DEF UpdateAudited
<1>2. q \in Request /\ x \in Records /\ q.row \in Row /\ rows[x] \in Row /\ InOrder(q, rows[x])
    BY <1>1, AboutToCommit
<1>3. /\ q.row.phase = "live" /\ q.row.version = q.expected + 1
      /\ q.before \in Statuses /\ q.row.status \in Statuses
    BY <1>1, <1>2, EdgeEnds DEF InOrder
<1>4. CASE UpdatesOneRow(r) /\ rows' = [rows EXCEPT ![x] = q.row]
             /\ Logged(x, q.op, q.before, q.row.status)
             /\ req' = [req EXCEPT ![r].pc = "reply"]
    <2>1. audit' \in [Records -> Seq(Entry)]
        BY <1>1, <1>2, <1>3, <1>4, LoggedType DEF IInv, TypeInv
    <2>2. p \in Request /\ p.pc = "reply" /\ p.rec = x /\ InOrder(p, q.row)
        <3>1. /\ p \in Request /\ p.pc = "reply" /\ p.rec = x /\ p.op = q.op
              /\ p.before = q.before /\ p.expected = q.expected /\ p.row = q.row
            BY <1>2 DEF Request
        <3> HIDE DEF p
        <3> QED BY <1>1, <1>2, <1>3, <3>1 DEF InOrder
    <2>3. req' = [req EXCEPT ![r] = p]
        BY <1>4
    <2>4. q.row.version > rows[x].version
        <3>1. rows[x].version = q.expected /\ rows[x].version \in Nat
            BY <1>2, <1>4 DEF UpdatesOneRow, Row
        <3> QED BY <1>3, <3>1
    <2> HIDE DEF p
    <2> QED BY <1>1, <1>2, <1>3, <1>4, <2>1, <2>2, <2>3, <2>4, CommitStep
<1>5. CASE Finish(r) /\ UNCHANGED <<rows, audit>>
    BY <1>1, <1>5, FinishStep
<1> QED BY <1>4, <1>5 DEF UpdateAudited

LEMMA DeleteAuditedStep ==
    ASSUME IInv, NEW r \in Requests, DeleteAudited(r)
    PROVE  IInv'
<1> DEFINE q   == req[r]
           x   == q.rec
           row == [rows[x] EXCEPT !.phase = "deleted"]
<1>1. q.pc = "commit" /\ q.op = "delete" /\ Finish(r) /\ now' = now
    BY DEF DeleteAudited
<1>2. q \in Request /\ x \in Records /\ rows[x] \in Row /\ q.before \in Statuses
    BY <1>1, AboutToCommit DEF InOrder
<1>3. CASE Live(x) /\ rows' = [rows EXCEPT ![x].phase = "deleted"]
             /\ Logged(x, "delete", q.before, "deleted")
    <2>1. audit' \in [Records -> Seq(Entry)]
        BY <1>2, <1>3, LoggedType DEF IInv, TypeInv
    <2>2. req' = [req EXCEPT ![r] = Idle] /\ Idle.pc = "idle"
        BY <1>1 DEF Finish, Idle
    <2>3. rows[x].status \in Statuses
        BY <1>2, <1>3 DEF Live, IInv, TypeInv, RowsInOrder
    <2>4. row \in Row /\ row.phase = "deleted" /\ row.status = rows[x].status
        BY <1>2 DEF Row
    <2>5. rows' = [rows EXCEPT ![x] = row]
        BY <1>3
    <2> HIDE DEF row
    <2>6. row = [rows[x] EXCEPT !.phase = "deleted"]
        BY DEF row
    <2> QED BY <1>1, <1>2, <2>1, <2>2, <2>3, <2>4, <2>5, <2>6, IdleType, CommitStep
<1>4. CASE UNCHANGED <<rows, audit>>
    BY <1>1, <1>4, FinishStep
<1> QED BY <1>3, <1>4 DEF DeleteAudited

LEMMA TickStep ==
    ASSUME IInv, Tick
    PROVE  IInv'
<1>1. now' \in 0 .. MaxTime
    BY BoundsAreNaturals DEF Tick, IInv, TypeInv, TypeOK
<1> QED BY <1>1 DEF Tick, IInv, TypeInv, TypeOK, RowsInOrder, LockInv

LEMMA StutterStep ==
    ASSUME IInv, UNCHANGED vars
    PROVE  IInv'
BY DEF vars, IInv, TypeInv, TypeOK, RowsInOrder, LockInv

-----------------------------------------------------------------------------
(* The invariant.                                                          *)

LEMMA InitInv == Init => IInv
<1> SUFFICES ASSUME Init PROVE IInv
    OBVIOUS
<1>1. TypeOK
    <2>1. rows \in [Records -> Row]
        BY SeedIsCommitted DEF Init, StoreInit
    <2>2. audit \in [Records -> Seq(Entry)]
        BY DEF Init, StoreInit
    <2>3. req \in [Requests -> Request]
        BY IdleType DEF Init, StoreInit
    <2>4. now \in 0 .. MaxTime
        BY BoundsAreNaturals DEF Init, StoreInit
    <2> QED BY <2>1, <2>2, <2>3, <2>4 DEF TypeOK
<1>2. RowsInOrder
    <2> SUFFICES ASSUME NEW x \in Records
                 PROVE  /\ Seed[x].phase # "absent" => Seed[x].status \in Statuses
                        /\ Seed[x].phase = "absent" => Seed[x].status = ""
        BY DEF Init, StoreInit, RowsInOrder
    <2>1. Seed[x].phase \in {"absent", "live"} /\ Seed[x].status \in Statuses \cup {""}
        BY SeedIsCommitted DEF Row
    <2>2. Seed[x].phase = "live" => Seed[x].status # ""
        BY SeedIsCommitted
    <2>3. Seed[x].phase = "absent" => Seed[x].status = ""
        <3>1. AbsentRow.status = ""
            BY DEF AbsentRow
        <3>2. Seed[x].phase = "absent" => Seed[x] = AbsentRow
            BY SeedIsCommitted
        <3> QED BY <3>1, <3>2
    <2> QED BY <2>1, <2>2, <2>3
<1>3. ASSUME NEW r \in Requests
      PROVE  InOrder(req[r], rows[req[r].rec]) /\ Locked(req[r], rows[req[r].rec])
    BY DEF Init, StoreInit, Idle, InOrder, Locked
<1> QED BY <1>1, <1>2, <1>3 DEF IInv, TypeInv, LockInv

LEMMA NextInv == IInv /\ [Next]_vars => IInv'
<1> SUFFICES ASSUME IInv, [Next]_vars PROVE IInv'
    OBVIOUS
<1>1. ASSUME NEW r \in Requests, GeneratorReceive(r) PROVE IInv'
    BY <1>1, GeneratorReceiveStep
<1>2. ASSUME NEW r \in Requests, CarrierReceive(r) PROVE IInv'
    BY <1>2, CarrierReceiveStep
<1>3. ASSUME NEW r \in Requests, ManifestReceive(r) PROVE IInv'
    BY <1>3, ManifestReceiveStep
<1>4. ASSUME NEW r \in Requests, CheckReceive(r) PROVE IInv'
    BY <1>4, CheckReceiveStep
<1>5. ASSUME NEW r \in Requests, FindGenerator(r) PROVE IInv'
    BY <1>5, LookStep DEF FindGenerator
<1>6. ASSUME NEW r \in Requests, FindCarrier(r) PROVE IInv'
    BY <1>6, LookStep DEF FindCarrier
<1>7. ASSUME NEW r \in Requests, FindManifest(r) PROVE IInv'
    BY <1>7, LookStep DEF FindManifest
<1>8. ASSUME NEW r \in Requests, Commit(r) PROVE IInv'
    BY <1>8, CreateAuditedStep, UpdateAuditedStep, DeleteAuditedStep DEF Commit
<1>9. ASSUME NEW r \in Requests, Reply(r) \/ Abort(r) PROVE IInv'
    BY <1>9, FinishStep DEF Reply, Abort
<1>10. CASE Tick
    BY <1>10, TickStep
<1>11. CASE UNCHANGED vars
    BY <1>11, StutterStep
<1> QED BY <1>1, <1>2, <1>3, <1>4, <1>5, <1>6, <1>7, <1>8, <1>9, <1>10, <1>11
        DEF Next, Proceed

THEOREM Invariance == Spec => []IInv
BY InitInv, NextInv, PTL DEF Spec

(***************************************************************************)
(* Every reachable state is well typed.                                    *)
(***************************************************************************)
THEOREM TypeCorrect == Spec => []TypeOK
<1>1. IInv => TypeOK
    BY DEF IInv, TypeInv
<1> QED BY <1>1, Invariance, PTL

\* A request that has the lock, and whose write can succeed, keeps what it does
\* not mean to change.
LEMMA LockProtects ==
    ASSUME NEW q \in Request, NEW current \in Row, InOrder(q, current), Locked(q, current),
           q.pc \notin {"idle", "reply"}, q.op \in {"update", "transition"},
           current.phase = "live", current.version = q.expected
    PROVE  /\ q.before = current.status
           /\ q.op = "update" => q.row.status = current.status
           /\ q.op = "transition" =>
                 q.row = [current EXCEPT !.status = q.row.status, !.version = @ + 1]
<1>1. q.before = current.status /\ (q.op = "update" => q.row.status = current.status)
    BY DEF InOrder, Locked
<1>2. ASSUME q.op = "transition"
      PROVE  q.row = [current EXCEPT !.status = q.row.status, !.version = @ + 1]
    <2>1. q.row = [current EXCEPT !.phase = "live", !.status = q.row.status, !.version = @ + 1]
        BY <1>2 DEF Locked
    <2>2. [current EXCEPT !.phase = "live", !.status = q.row.status, !.version = @ + 1]
            = [current EXCEPT !.status = q.row.status, !.version = @ + 1]
        BY DEF Row
    <2> QED BY <2>1, <2>2
<1> QED BY <1>1, <1>2

\* What NoLostUpdate says of one request.
NothingLost(r) ==
    LET q       == req[r]
        current == rows[q.rec] IN
    Writing(r) /\ UpdatesOneRow(r) =>
        /\ q.before = current.status
        /\ q.op = "update" => q.row.status = current.status
        /\ q.op = "transition" =>
              q.row = [current EXCEPT !.status = q.row.status, !.version = @ + 1]

(***************************************************************************)
(* Optimistic locking protects what a request does not mean to change      *)
(* (repository/base.go 94-105), provided that no client sends a version    *)
(* the record has not had yet.                                             *)
(***************************************************************************)
THEOREM NoUpdateIsLost ==
    ASSUME Ahead = 0
    PROVE  Spec => []NoLostUpdate
<1>1. IInv => NoLostUpdate
    <2>1. ASSUME IInv, NEW r \in Requests, Writing(r) PROVE NothingLost(r)
        <3>1. /\ req[r] \in Request /\ req[r].rec \in Records /\ rows[req[r].rec] \in Row
              /\ InOrder(req[r], rows[req[r].rec]) /\ Locked(req[r], rows[req[r].rec])
              /\ req[r].pc \notin {"idle", "reply"} /\ req[r].op \in {"update", "transition"}
            BY <2>1, Ahead = 0 DEF IInv, TypeInv, TypeOK, LockInv, InOrder, Writing, InFlight
        <3> QED BY <3>1, LockProtects DEF NothingLost, UpdatesOneRow, Live
    <2> QED BY <2>1 DEF NoLostUpdate, NothingLost
<1> QED BY <1>1, Invariance, PTL
=============================================================================
