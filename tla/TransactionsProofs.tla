------------------------- MODULE TransactionsProofs -------------------------
(***************************************************************************)
(* Proofs about AuditedTransactions: that the statements of a transaction  *)
(* make the one step that Compliance takes them for, for every number of   *)
(* requests, and that histories are in order although their times are      *)
(* taken early.                                                            *)
(***************************************************************************)
EXTENDS AuditedTransactions, ComplianceProofs

(***************************************************************************)
(* What a transaction knows while it is open.  The row that its statement  *)
(* found stays as it was found until the commit, because nobody else has   *)
(* the lock and a row changes at a commit only.                            *)
(***************************************************************************)
Holds(r) == tx[r].at \in {"locked", "logged"}

TxInv ==
    /\ TxTypeOK
    /\ \A r \in Requests :
          /\ req[r].pc # "idle" => req[r].op # ""
          /\ tx[r].at # "none" => req[r].pc = "commit"
          /\ Holds(r) => AffectsARow(r)
    /\ \A r, s \in Requests : Holds(r) /\ Holds(s) /\ req[r].rec = req[s].rec => r = s

-----------------------------------------------------------------------------
(* Steps outside of a transaction.                                         *)

\* What every request is taken up as, and what it goes on or ends as.
Known(q) == q.pc # "idle" => q.op # ""

\* A request is taken up in an idle slot.
LEMMA TakeUpFrame ==
    ASSUME NEW r \in Requests, TakeUp(r)
    PROVE  /\ req[r].pc = "idle"
           /\ UNCHANGED <<rows, audit, now>>
           /\ \E q : Known(q) /\ req' = [req EXCEPT ![r] = q]
<1>1. ASSUME NEW q, Receive(r, q), q.op # ""
      PROVE  /\ req[r].pc = "idle"
             /\ UNCHANGED <<rows, audit, now>>
             /\ \E p : Known(p) /\ req' = [req EXCEPT ![r] = p]
    BY <1>1 DEF Receive, Known
<1>2. \A pc, x, row : CreateRequest(pc, x, row).op # ""
    BY DEF CreateRequest
<1>3. \A pc, x, expected, row : /\ WriteRequest(pc, "update", x, expected, row).op # ""
                                /\ WriteRequest(pc, "transition", x, expected, row).op # ""
    BY DEF WriteRequest
<1>4. \A x : DeleteRequest(x).op # ""
    BY DEF DeleteRequest
<1>5. CASE GeneratorReceive(r)
    BY <1>1, <1>2, <1>3, <1>4, <1>5
       DEF GeneratorReceive, CreateGenerator, UpdateGenerator, TransitionGenerator, DeleteGenerator
<1>6. CASE CarrierReceive(r)
    BY <1>1, <1>2, <1>3, <1>4, <1>6
       DEF CarrierReceive, CreateCarrier, UpdateCarrier, TransitionCarrier, DeleteCarrier
<1>7. CASE ManifestReceive(r)
    BY <1>1, <1>2, <1>3, <1>4, <1>7
       DEF ManifestReceive, CreateManifest, UpdateManifest, TransitionManifest, DeleteManifest
<1>8. CASE CheckReceive(r)
    BY <1>1, <1>2, <1>3, <1>4, <1>8
       DEF CheckReceive, CreateCheck, UpdateCheck, TransitionCheck, DeleteCheck
<1> QED BY <1>5, <1>6, <1>7, <1>8 DEF TakeUp

LEMMA IdleKnown == Known(Idle)
BY DEF Known, Idle

\* A request that looks something up, or answers, has not come to its write.
LEMMA ConsultFrame ==
    ASSUME IInv, TxInv, NEW r \in Requests, Consult(r)
    PROVE  /\ req[r].pc # "commit"
           /\ UNCHANGED <<rows, audit, now>>
           /\ \E q : Known(q) /\ req' = [req EXCEPT ![r] = q]
<1>1. req[r].pc # "commit" /\ req[r].pc # "idle" /\ UNCHANGED <<rows, audit, now>>
    BY DEF Consult, FindGenerator, FindCarrier, FindManifest, Reply, Look, Continue
<1>2. ASSUME NEW pc, Continue(r, pc) PROVE \E q : Known(q) /\ req' = [req EXCEPT ![r] = q]
    <2> DEFINE q == [req[r] EXCEPT !.pc = pc]
    <2>1. req' = [req EXCEPT ![r] = q]
        BY <1>2 DEF Continue
    <2>2. q.op = req[r].op
        BY DEF IInv, TypeInv, TypeOK, Request
    <2> QED BY <1>1, <2>1, <2>2 DEF TxInv, Known
<1>3. ASSUME Finish(r) PROVE \E q : Known(q) /\ req' = [req EXCEPT ![r] = q]
    BY <1>3, IdleKnown DEF Finish
<1> QED BY <1>1, <1>2, <1>3 DEF Consult, FindGenerator, FindCarrier, FindManifest, Reply, Look

\* A step of a request that has no transaction leaves all transactions alone.
LEMMA OutsideStep ==
    ASSUME IInv, TxInv, NEW r \in Requests, NEW q, Known(q),
           tx[r].at = "none", req' = [req EXCEPT ![r] = q],
           UNCHANGED <<rows, audit, now, txVars>>
    PROVE  TxInv'
<1>1. TxTypeOK'
    BY DEF TxInv, TxTypeOK, txVars
<1>2. ASSUME NEW s \in Requests, tx'[s].at # "none"
      PROVE  req'[s] = req[s] /\ tx'[s] = tx[s] /\ tx[s].at # "none"
    BY <1>2 DEF IInv, TypeInv, TypeOK, txVars
<1>3. ASSUME NEW s \in Requests, Holds(s)' PROVE tx'[s].at # "none" /\ Holds(s)
    BY <1>3 DEF Holds, txVars
<1>4. ASSUME NEW s \in Requests
      PROVE  /\ tx'[s].at # "none" => req'[s].pc = "commit"
             /\ Holds(s)' => AffectsARow(s)'
    BY <1>2, <1>3 DEF TxInv, AffectsARow, Live, UpdatesOneRow
<1>5. ASSUME NEW s \in Requests, NEW p \in Requests, Holds(s)', Holds(p)', req'[s].rec = req'[p].rec
      PROVE  s = p
    BY <1>2, <1>3, <1>5 DEF TxInv
<1>6. ASSUME NEW s \in Requests PROVE Known(req'[s])
    BY DEF TxInv, Known, IInv, TypeInv, TypeOK
<1> QED BY <1>1, <1>4, <1>5, <1>6 DEF TxInv, Known

-----------------------------------------------------------------------------
(* The steps of a transaction.                                             *)

\* The statements before the commit change nothing that others see; a
\* transaction may take the lock only of a row that nobody else has locked.
LEMMA InsideStep ==
    ASSUME IInv, TxInv, NEW r \in Requests, NEW t \in Transaction,
           req[r].pc = "commit",
           tx' = [tx EXCEPT ![r] = t], UNCHANGED <<rows, audit, now, req, stamps>>,
           t.at \in {"locked", "logged"} =>
               /\ AffectsARow(r)
               /\ Holds(r) \/ \A other \in Requests : ~Locks(other, req[r].rec)
    PROVE  TxInv'
<1>1. TxTypeOK'
    BY DEF TxInv, TxTypeOK
<1>2. tx'[r] = t /\ \A s \in Requests : s # r => tx'[s] = tx[s]
    BY DEF TxInv, TxTypeOK
<1>3. ASSUME NEW s \in Requests
      PROVE  /\ req'[s].pc # "idle" => req'[s].op # ""
             /\ tx'[s].at # "none" => req'[s].pc = "commit"
             /\ Holds(s)' => AffectsARow(s)'
    <2>1. AffectsARow(s)' <=> AffectsARow(s)
        BY DEF AffectsARow, Live, UpdatesOneRow
    <2> QED BY <1>2, <2>1 DEF TxInv, Holds
<1>4. ASSUME NEW s \in Requests, NEW p \in Requests, Holds(s)', Holds(p)', req'[s].rec = req'[p].rec
      PROVE  s = p
    BY <1>2, <1>4 DEF TxInv, Holds, Locks
<1> QED BY <1>1, <1>3, <1>4 DEF TxInv

\* A transaction is over: no one waits for its request any more, and if it
\* changed a row nobody else had that row locked.
LEMMA EndStep ==
    ASSUME IInv, TxInv, NEW r \in Requests, NEW q, Known(q), Close(r),
           req' = [req EXCEPT ![r] = q],
           stamps' \in [Records -> Seq(Nat)],
           \A x \in Records : rows'[x] = rows[x] \/ (Holds(r) /\ x = req[r].rec)
    PROVE  TxInv'
<1>1. NoTransaction \in Transaction
    BY DEF NoTransaction, Transaction
<1>2. TxTypeOK'
    BY <1>1 DEF TxInv, TxTypeOK, Close
<1>3. ASSUME NEW s \in Requests, tx'[s].at # "none"
      PROVE  s # r /\ req'[s] = req[s] /\ tx'[s] = tx[s] /\ tx[s].at # "none"
    BY <1>3 DEF IInv, TypeInv, TypeOK, TxInv, TxTypeOK, Close, NoTransaction
<1>4. ASSUME NEW s \in Requests, Holds(s)' PROVE tx'[s].at # "none" /\ Holds(s) /\ s # r
    BY <1>3, <1>4 DEF Holds, NoTransaction, Close, TxInv, TxTypeOK
<1>5. ASSUME NEW s \in Requests, Holds(s)' PROVE AffectsARow(s)'
    <2>1. Holds(s) /\ s # r /\ req'[s] = req[s] /\ req[s].pc = "commit" /\ AffectsARow(s)
        BY <1>3, <1>4, <1>5 DEF TxInv
    <2>2. req[s].rec \in Records
        BY <2>1, AboutToCommit
    <2>3. rows'[req[s].rec] = rows[req[s].rec]
        BY <2>1, <2>2 DEF TxInv
    <2> QED BY <2>1, <2>3 DEF AffectsARow, Live, UpdatesOneRow
<1>6. ASSUME NEW s \in Requests, tx'[s].at # "none" PROVE req'[s].pc = "commit"
    BY <1>3, <1>6 DEF TxInv
<1>7. ASSUME NEW s \in Requests, NEW p \in Requests, Holds(s)', Holds(p)', req'[s].rec = req'[p].rec
      PROVE  s = p
    BY <1>3, <1>4, <1>7 DEF TxInv
<1>8. ASSUME NEW s \in Requests PROVE Known(req'[s])
    BY DEF TxInv, Known, IInv, TypeInv, TypeOK
<1> QED BY <1>2, <1>5, <1>6, <1>7, <1>8 DEF TxInv, Known

\* What the commit writes is what the one step writes.
LEMMA CommitIsCommit ==
    ASSUME IInv, TxInv, NEW r \in Requests, CommitTransaction(r)
    PROVE  Commit(r)
<1> DEFINE x == req[r].rec
<1>1. /\ req[r].pc = "commit" /\ AffectsARow(r)
      /\ rows' = [rows EXCEPT ![x] = Written(r)]
      /\ Logged(x, req[r].op, BeforeState(r), AfterState(r))
      /\ now' = now
    BY DEF CommitTransaction, TxInv, Holds
<1>2. req[r] \in Request /\ x \in Records
    BY <1>1, AboutToCommit
<1>3. CASE req[r].op = "create"
    BY <1>1, <1>3 DEF CommitTransaction, Commit, CreateAudited, AffectsARow, Written,
                      BeforeState, AfterState
<1>4. CASE req[r].op = "delete"
    BY <1>1, <1>4 DEF CommitTransaction, Commit, DeleteAudited, AffectsARow, Written,
                      BeforeState, AfterState
<1>5. CASE req[r].op \in {"update", "transition"}
    <2>1. UpdatesOneRow(r)
        BY <1>1, <1>5 DEF AffectsARow
    <2> QED BY <1>1, <1>5, <2>1 DEF CommitTransaction, Commit, UpdateAudited, Written,
                                    BeforeState, AfterState
<1> QED BY <1>3, <1>4, <1>5 DEF CommitTransaction

-----------------------------------------------------------------------------
(* Every step, seen from outside.                                          *)

\* A statement that affects no row ends its request as a failing one does.
LEMMA RefinesStep ==
    ASSUME IInv, TxInv, [TxNext]_allVars
    PROVE  [Next]_vars
<1>1. ASSUME NEW r \in Requests, TakeUp(r) PROVE Next
    BY <1>1 DEF TakeUp, Next
<1>2. ASSUME NEW r \in Requests, Consult(r) PROVE Next
    BY <1>2 DEF Consult, Next, Proceed
<1>3. ASSUME NEW r \in Requests, Begin(r) \/ InsertEntry(r) PROVE UNCHANGED vars
    BY <1>3 DEF Begin, InsertEntry
<1>4. ASSUME NEW r \in Requests, CommitTransaction(r) PROVE Next
    BY <1>4, CommitIsCommit DEF Next, Proceed
<1>5. ASSUME NEW r \in Requests, ChangeRow(r) PROVE Next \/ UNCHANGED vars
    <2>1. req[r].pc = "commit"
        BY <1>5 DEF ChangeRow, TxInv
    <2>2. ~UNCHANGED vars => Abort(r)
        BY <1>5, <2>1 DEF ChangeRow, Abort
    <2> QED BY <2>2 DEF Next
<1>6. ASSUME NEW r \in Requests, RollBack(r) PROVE Next
    BY <1>6 DEF RollBack, Next
<1>7. CASE Tick
    BY <1>7 DEF Next
<1>8. CASE UNCHANGED allVars
    BY <1>8 DEF allVars
<1> QED BY <1>1, <1>2, <1>3, <1>4, <1>5, <1>6, <1>7, <1>8 DEF TxNext, Work

LEMMA TxInitInv == TxInit => IInv /\ TxInv
<1> SUFFICES ASSUME TxInit PROVE TxInv
    BY InitInv DEF TxInit
<1>1. NoTransaction \in Transaction /\ NoTransaction.at = "none"
    BY DEF NoTransaction, Transaction
<1>2. TxTypeOK
    BY <1>1 DEF TxInit, TxTypeOK
<1> QED BY <1>1, <1>2 DEF TxInit, TxInv, Holds, Init, StoreInit, Idle

LEMMA TxNextInv == IInv /\ TxInv /\ [TxNext]_allVars => TxInv'
<1> SUFFICES ASSUME IInv, TxInv, [TxNext]_allVars PROVE TxInv'
    OBVIOUS
<1> USE DEF allVars
<1>0. \A r \in Requests : tx[r] \in Transaction
    BY DEF TxInv, TxTypeOK
<1>1. ASSUME NEW r \in Requests, TakeUp(r), UNCHANGED txVars PROVE TxInv'
    <2>1. req[r].pc = "idle" /\ UNCHANGED <<rows, audit, now>> /\ \E q : Known(q) /\ req' = [req EXCEPT ![r] = q]
        BY <1>1, TakeUpFrame
    <2>2. tx[r].at = "none"
        BY <2>1 DEF TxInv
    <2> QED BY <1>1, <2>1, <2>2, OutsideStep
<1>2. ASSUME NEW r \in Requests, Consult(r), UNCHANGED txVars PROVE TxInv'
    <2>1. /\ req[r].pc # "commit" /\ UNCHANGED <<rows, audit, now>>
          /\ \E q : Known(q) /\ req' = [req EXCEPT ![r] = q]
        BY <1>2, ConsultFrame
    <2>2. tx[r].at = "none"
        BY <2>1 DEF TxInv
    <2> QED BY <1>2, <2>1, <2>2, OutsideStep
<1>3. ASSUME NEW r \in Requests, Begin(r) PROVE TxInv'
    <2> DEFINE t == [at |-> "begun", stamp |-> now]
    <2>1. t \in Transaction /\ t.at = "begun"
        BY BoundsAreNaturals DEF Transaction, IInv, TypeInv, TypeOK
    <2>2. req[r].pc = "commit" /\ tx' = [tx EXCEPT ![r] = t] /\ UNCHANGED <<rows, audit, now, req, stamps>>
        BY <1>3 DEF Begin, vars
    <2> HIDE DEF t
    <2> QED BY <2>1, <2>2, InsideStep
<1>4. ASSUME NEW r \in Requests, NEW at \in {"locked", "logged"}, Reach(r, at),
             tx[r].at # "none", UNCHANGED <<vars, stamps>>, AffectsARow(r),
             Holds(r) \/ \A other \in Requests : ~Locks(other, req[r].rec)
      PROVE  TxInv'
    <2> DEFINE t == [tx[r] EXCEPT !.at = at]
    <2>1. t \in Transaction /\ tx' = [tx EXCEPT ![r] = t]
        BY <1>0, <1>4 DEF Transaction, Reach
    <2>2. req[r].pc = "commit" /\ UNCHANGED <<rows, audit, now, req, stamps>>
        BY <1>4 DEF TxInv, vars
    <2> HIDE DEF t
    <2> QED BY <1>4, <2>1, <2>2, InsideStep
<1>5. ASSUME NEW r \in Requests, InsertEntry(r) PROVE TxInv'
    BY <1>4, <1>5 DEF InsertEntry, TxInv, Holds
<1>6. ASSUME NEW r \in Requests, NEW q, Known(q), Close(r), req' = [req EXCEPT ![r] = q],
             UNCHANGED <<rows, stamps>>
      PROVE  TxInv'
    BY <1>6, EndStep DEF TxInv, TxTypeOK
<1>7. ASSUME NEW r \in Requests, ChangeRow(r) PROVE TxInv'
    <2>1. CASE Reach(r, "locked") /\ AffectsARow(r) /\ UNCHANGED <<vars, stamps>>
        BY <1>4, <1>7, <2>1 DEF ChangeRow
    <2>2. CASE Close(r) /\ Finish(r) /\ UNCHANGED <<rows, audit, now, stamps>>
        BY <1>6, <2>2, IdleKnown DEF Finish
    <2> QED BY <1>7, <2>1, <2>2 DEF ChangeRow
<1>8. ASSUME NEW r \in Requests, RollBack(r) PROVE TxInv'
    BY <1>6, <1>8, IdleKnown DEF RollBack, Abort, Finish
<1>9. ASSUME NEW r \in Requests, CommitTransaction(r) PROVE TxInv'
    <2>1. /\ Holds(r) /\ Close(r)
          /\ rows' = [rows EXCEPT ![req[r].rec] = Written(r)]
          /\ stamps' = [stamps EXCEPT ![req[r].rec] = Append(@, tx[r].stamp)]
        BY <1>9 DEF CommitTransaction, Holds
    <2>2. \E q : Known(q) /\ req' = [req EXCEPT ![r] = q]
        <3>1. CASE Finish(r)
            BY <3>1, IdleKnown DEF Finish
        <3>2. CASE req' = [req EXCEPT ![r].pc = "reply"] /\ req[r].op \in {"update", "transition"}
            <4>1. [req[r] EXCEPT !.pc = "reply"].op = req[r].op
                BY DEF IInv, TypeInv, TypeOK, Request
            <4> QED BY <3>2, <4>1 DEF Known
        <3> QED BY <1>9, <3>1, <3>2 DEF CommitTransaction
    <2>3. stamps' \in [Records -> Seq(Nat)]
        <3>1. tx[r].stamp \in Nat
            BY <1>0 DEF Transaction
        <3>2. ASSUME NEW x \in Records PROVE Append(stamps[x], tx[r].stamp) \in Seq(Nat)
            <4>1. stamps[x] \in Seq(Nat)
                BY DEF TxInv, TxTypeOK
            <4> QED BY <3>1, <4>1, AppendProperties
        <3> QED BY <2>1, <3>2 DEF TxInv, TxTypeOK
    <2>4. \A x \in Records : rows'[x] = rows[x] \/ x = req[r].rec
        BY <2>1 DEF IInv, TypeInv, TypeOK
    <2> QED BY <2>1, <2>2, <2>3, <2>4, EndStep
<1>10. CASE Tick /\ UNCHANGED txVars
    BY <1>10 DEF Tick, txVars, TxInv, TxTypeOK, Holds, AffectsARow, Live, UpdatesOneRow
<1>11. CASE UNCHANGED allVars
    BY <1>11 DEF vars, txVars, TxInv, TxTypeOK, Holds, AffectsARow, Live, UpdatesOneRow
<1> QED BY <1>1, <1>2, <1>3, <1>5, <1>7, <1>8, <1>9, <1>10, <1>11 DEF TxNext, Work

\* The invariant the theorems below rest on: what Compliance keeps, and that the
\* condition a row statement found holds as long as its lock, which one request has.
THEOREM TxInvariance == TxSpec => [](IInv /\ TxInv)
<1>1. IInv /\ TxInv /\ [TxNext]_allVars => (IInv /\ TxInv)'
    BY RefinesStep, NextInv, TxNextInv
<1> QED BY <1>1, TxInitInv, PTL DEF TxSpec

(***************************************************************************)
(* The transactions of repository/base.go implement the commits of         *)
(* Compliance in one step, so that whatever holds of Compliance holds of   *)
(* the statements too.                                                     *)
(***************************************************************************)
THEOREM TransactionsRefineCommits == TxSpec => CommitsAreOneStep
<1>1. TxInit => Init
    BY DEF TxInit
<1>2. IInv /\ TxInv /\ [TxNext]_allVars => [Next]_vars
    BY RefinesStep
<1> QED BY <1>1, <1>2, TxInvariance, PTL DEF TxSpec, CommitsAreOneStep, Spec
-----------------------------------------------------------------------------
(***************************************************************************)
(* The order of the entries.                                               *)
(*                                                                         *)
(* What makes it hold is not the clock but the version: a transaction that *)
(* began before another write of its record no longer finds the version it *)
(* expects.  So whoever still affects its row began after every write of   *)
(* it so far, and its entry bears a time at least as late as theirs.       *)
(***************************************************************************)
Later(x, t) == \A i \in DOMAIN stamps[x] : stamps[x][i] <= t

StampInv ==
    /\ \A x \in Records :
          /\ Len(stamps[x]) = Len(audit[x])
          /\ rows[x].phase = "absent" => stamps[x] = <<>>
          /\ Later(x, now)
    /\ \A r \in Requests :
          tx[r].at # "none" =>
              /\ tx[r].stamp <= now
              /\ req[r].op # "delete" /\ AffectsARow(r) => Later(req[r].rec, tx[r].stamp)
    /\ HistoryInOrder

\* A request whose transaction is open, with what is known of it.
LEMMA OpenTransaction ==
    ASSUME IInv, TxInv, NEW r \in Requests, tx[r].at # "none"
    PROVE  /\ req[r].pc = "commit"
           /\ req[r] \in Request /\ req[r].rec \in Records /\ req[r].row \in Row
           /\ rows[req[r].rec] \in Row
           /\ InOrder(req[r], rows[req[r].rec])
           /\ Ahead = 0 => Locked(req[r], rows[req[r].rec])
           /\ tx[r].stamp \in Nat
<1>1. req[r].pc = "commit"
    BY DEF TxInv
<1>2. tx[r].stamp \in Nat
    BY DEF TxInv, TxTypeOK, Transaction
<1> QED BY <1>1, <1>2, AboutToCommit

\* Another transaction on the row that a commit wrote affects it no more.
LEMMA LeftBehind ==
    ASSUME IInv, TxInv, Ahead = 0,
           NEW r \in Requests, CommitTransaction(r),
           NEW s \in Requests, s # r, tx[s].at # "none",
           req[s].rec = req[r].rec, req[s].op # "delete"
    PROVE  ~AffectsARow(s)'
<1> DEFINE x == req[r].rec
           current == rows[x]
           written == Written(r)
<1>1. /\ tx[r].at = "logged" /\ AffectsARow(r)
      /\ rows' = [rows EXCEPT ![x] = written]
      /\ req[r].op \in {"create", "update", "transition", "delete"}
    BY DEF CommitTransaction, TxInv, Holds
<1>2. /\ req[r].pc = "commit" /\ x \in Records /\ current \in Row /\ req[r].row \in Row
      /\ InOrder(req[r], current) /\ req[r] \in Request
    BY <1>1, OpenTransaction
<1>3. /\ req[s].pc = "commit" /\ req[s] \in Request
      /\ InOrder(req[s], current) /\ Locked(req[s], current)
    BY OpenTransaction
<1>4. req'[s] = req[s]
    BY DEF CommitTransaction, Finish, IInv, TypeInv, TypeOK
<1>5. rows'[x] = written
    BY <1>1, <1>2 DEF IInv, TypeInv, TypeOK
<1>6. written.phase # "absent"
    BY <1>1, <1>2 DEF Written, InOrder, Row
<1>7. CASE req[s].op = "create"
    <2>1. AffectsARow(s)' <=> written.phase = "absent"
        BY <1>4, <1>5, <1>7 DEF AffectsARow
    <2> QED BY <1>6, <2>1
<1>8. CASE req[s].op # "create"
    <2>1. AffectsARow(s)' => written.phase = "live" /\ written.version = req[s].expected
        BY <1>4, <1>5, <1>8 DEF AffectsARow, Live, UpdatesOneRow
    <2>2. CASE req[r].op = "delete"
        <3>1. written.phase = "deleted"
            BY <1>2, <2>2 DEF Written, Row
        <3> QED BY <2>1, <3>1
    <2>3. CASE req[r].op # "delete" /\ AffectsARow(s)'
        <3>1. req[s].op \in {"update", "transition"} /\ req[r].op \in {"create", "update", "transition"}
            BY <1>1, <1>3, <1>8, <2>3 DEF Request, TxInv
        <3>2. req[r].op = "create" => current.phase = "absent"
            BY <1>1 DEF AffectsARow
        <3>3. req[r].op \in {"update", "transition"}
            BY <1>3, <3>1, <3>2 DEF InOrder
        <3>4. /\ current.version = req[r].expected
              /\ written.version = current.version + 1
            BY <1>1, <1>2, <3>3 DEF AffectsARow, UpdatesOneRow, InOrder, Written
        <3>5. req[s].expected <= current.version
            BY <1>3, <3>1 DEF Locked
        <3>6. current.version \in Nat /\ req[s].expected \in Nat
            BY <1>2, <1>3 DEF Row, Request
        <3> HIDE DEF current, written
        <3> QED BY <2>1, <2>3, <3>4, <3>5, <3>6
    <2> QED BY <2>2, <2>3
<1> QED BY <1>7, <1>8

LEMMA Types ==
    ASSUME IInv, TxInv
    PROVE  /\ now \in Nat
           /\ \A x \in Records : stamps[x] \in Seq(Nat) /\ audit[x] \in Seq(Entry)
<1>1. now \in Nat
    BY BoundsAreNaturals DEF IInv, TypeInv, TypeOK
<1>2. stamps \in [Records -> Seq(Nat)] /\ audit \in [Records -> Seq(Entry)]
    BY DEF IInv, TypeInv, TypeOK, TxInv, TxTypeOK
<1> QED BY <1>1, <1>2

\* A step that adds no entry, and opens a transaction only with the present
\* time.
LEMMA NoEntryStep ==
    ASSUME IInv, TxInv, StampInv, UNCHANGED <<rows, audit, stamps>>,
           now' \in Nat, now <= now',
           \A r \in Requests : tx'[r].at # "none" =>
               /\ req'[r] = req[r]
               /\ \/ tx[r].at # "none" /\ tx'[r].stamp = tx[r].stamp
                  \/ req[r].pc # "idle" /\ tx'[r].stamp = now
    PROVE  StampInv'
<1>0. now \in Nat /\ \A x \in Records : stamps[x] \in Seq(Nat)
    BY Types
<1>1. ASSUME NEW x \in Records
      PROVE  /\ Len(stamps'[x]) = Len(audit'[x])
             /\ rows'[x].phase = "absent" => stamps'[x] = <<>>
             /\ Later(x, now)'
    <2>1. ASSUME NEW i \in DOMAIN stamps[x] PROVE stamps[x][i] <= now'
        <3>1. stamps[x][i] <= now /\ stamps[x][i] \in Nat
            BY <1>0, <2>1 DEF StampInv, Later
        <3> QED BY <1>0, <3>1
    <2> QED BY <2>1 DEF StampInv, Later
<1>2. ASSUME NEW r \in Requests, tx'[r].at # "none"
      PROVE  /\ tx'[r].stamp <= now'
             /\ req'[r].op # "delete" /\ AffectsARow(r)' => Later(req[r].rec, tx[r].stamp)'
    <2>0. req'[r] = req[r] /\ (AffectsARow(r)' <=> AffectsARow(r))
        BY <1>2 DEF AffectsARow, Live, UpdatesOneRow
    <2>1. CASE tx[r].at # "none" /\ tx'[r].stamp = tx[r].stamp
        <3>1. tx[r].stamp \in Nat /\ tx[r].stamp <= now
            BY <2>1, OpenTransaction DEF StampInv
        <3>2. tx'[r].stamp <= now'
            BY <1>0, <2>1, <3>1
        <3> QED BY <2>0, <2>1, <3>2 DEF StampInv, Later
    <2>2. CASE req[r].pc # "idle" /\ tx'[r].stamp = now
        <3>1. ASSUME req[r].op # "delete", AffectsARow(r) PROVE req[r].rec \in Records
            <4>1. req[r].pc # "idle" => req[r].rec \in Records
                BY DEF IInv, TypeInv, InOrder
            <4> QED BY <2>2, <4>1
        <3> QED BY <1>0, <2>0, <2>2, <3>1 DEF StampInv, Later
    <2> QED BY <1>2, <2>1, <2>2
<1>3. HistoryInOrder'
    BY DEF StampInv, HistoryInOrder
<1> QED BY <1>1, <1>2, <1>3 DEF StampInv

\* The entry of a change comes after all that the record has.
LEMMA EntryStep ==
    ASSUME IInv, TxInv, StampInv, Ahead = 0, NEW r \in Requests, CommitTransaction(r)
    PROVE  StampInv'
<1> DEFINE x == req[r].rec
           t == tx[r].stamp
           n == Len(stamps[x])
<1>1. /\ tx[r].at = "logged" /\ tx[r].at # "none" /\ AffectsARow(r)
      /\ rows' = [rows EXCEPT ![x] = Written(r)]
      /\ stamps' = [stamps EXCEPT ![x] = Append(@, t)]
      /\ Logged(x, req[r].op, BeforeState(r), AfterState(r))
      /\ now' = now /\ Close(r)
      /\ req[r].op \in {"create", "update", "transition", "delete"}
    BY DEF CommitTransaction, TxInv, Holds
<1>2. /\ req[r].pc = "commit" /\ x \in Records /\ req[r].row \in Row /\ rows[x] \in Row
      /\ InOrder(req[r], rows[x]) /\ t \in Nat
    BY <1>1, OpenTransaction
<1>3. /\ now \in Nat /\ t <= now
      /\ \A y \in Records : stamps[y] \in Seq(Nat) /\ audit[y] \in Seq(Entry)
    BY <1>1, Types DEF StampInv
<1>4. \A y \in Records \ {x} : stamps'[y] = stamps[y] /\ audit'[y] = audit[y] /\ rows'[y] = rows[y]
    BY <1>1, <1>2 DEF Logged, IInv, TypeInv, TypeOK, TxInv, TxTypeOK
<1>5. /\ rows'[x] = Written(r)
      /\ stamps'[x] = Append(stamps[x], t)
      /\ \E e : audit'[x] = Append(audit[x], e) /\ e.action = req[r].op
    <2>1. rows'[x] = Written(r) /\ stamps'[x] = Append(stamps[x], t)
        BY <1>1, <1>2 DEF IInv, TypeInv, TypeOK, TxInv, TxTypeOK
    <2> DEFINE e == [action |-> req[r].op, before |-> BeforeState(r), after |-> AfterState(r)]
    <2>2. audit'[x] = Append(audit[x], e)
        BY <1>1, <1>2 DEF Logged, IInv, TypeInv, TypeOK
    <2>3. e.action = req[r].op
        OBVIOUS
    <2> HIDE DEF e
    <2> QED BY <2>1, <2>2, <2>3
<1>6. /\ DOMAIN stamps'[x] = 1 .. n + 1
      /\ \A i \in 1 .. n : stamps'[x][i] = stamps[x][i]
      /\ stamps'[x][n + 1] = t
      /\ Len(stamps'[x]) = n + 1 /\ n \in Nat /\ DOMAIN stamps[x] = 1 .. n
    BY <1>2, <1>3, <1>5
<1>7. PICK e : audit'[x] = Append(audit[x], e) /\ e.action = req[r].op
    BY <1>5
<1>8. /\ Len(audit[x]) = n
      /\ Len(audit'[x]) = n + 1
      /\ \A i \in 1 .. n : audit'[x][i] = audit[x][i]
      /\ audit'[x][n + 1] = e
    BY <1>2, <1>3, <1>7 DEF StampInv
<1>9. Written(r).phase # "absent"
    BY <1>1, <1>2 DEF Written, InOrder, Row
<1>10. ASSUME NEW y \in Records
       PROVE  /\ Len(stamps'[y]) = Len(audit'[y])
              /\ rows'[y].phase = "absent" => stamps'[y] = <<>>
              /\ \A i \in DOMAIN stamps'[y] : stamps'[y][i] <= now
    <2>1. CASE y # x
        BY <1>4, <2>1 DEF StampInv, Later
    <2>2. CASE y = x
        <3>1. ASSUME NEW i \in 1 .. n + 1 PROVE stamps'[x][i] <= now
            <4>1. i \in 1 .. n \/ i = n + 1
                BY <1>6
            <4> QED BY <1>2, <1>3, <1>6, <4>1 DEF StampInv, Later
        <3> HIDE DEF x, n
        <3> QED BY <1>5, <1>6, <1>8, <1>9, <2>2, <3>1
    <2> QED BY <2>1, <2>2
<1>11. ASSUME NEW s \in Requests, tx'[s].at # "none"
       PROVE  /\ tx'[s].stamp <= now'
              /\ req'[s].op # "delete" /\ AffectsARow(s)' => Later(req[s].rec, tx[s].stamp)'
    <2>1. s # r /\ tx'[s] = tx[s] /\ req'[s] = req[s]
        <3>1. s # r /\ tx'[s] = tx[s]
            BY <1>1, <1>11 DEF Close, NoTransaction, TxInv, TxTypeOK
        <3>2. \E q : req' = [req EXCEPT ![r] = q]
            BY DEF CommitTransaction, Finish
        <3> QED BY <3>1, <3>2 DEF IInv, TypeInv, TypeOK
    <2>2. req[s].rec \in Records /\ tx[s].at # "none"
        BY <1>11, <2>1, OpenTransaction
    <2>3. CASE req[s].rec = x
        BY <1>1, <2>1, <2>2, <2>3, LeftBehind DEF StampInv
    <2>4. CASE req[s].rec # x
        <3>1. stamps'[req[s].rec] = stamps[req[s].rec] /\ rows'[req[s].rec] = rows[req[s].rec]
            BY <1>4, <2>2, <2>4
        <3>2. AffectsARow(s)' <=> AffectsARow(s)
            BY <2>1, <3>1 DEF AffectsARow, Live, UpdatesOneRow
        <3> QED BY <1>1, <2>1, <2>2, <3>1, <3>2 DEF StampInv, Later
    <2> QED BY <2>3, <2>4
<1>12. HistoryInOrder'
    <2> SUFFICES ASSUME NEW y \in Records, NEW i \in DOMAIN stamps'[y], NEW j \in DOMAIN stamps'[y],
                        i < j, audit'[y][j].action # "delete"
                 PROVE  stamps'[y][i] <= stamps'[y][j]
        BY DEF HistoryInOrder
    <2>1. CASE y # x
        BY <1>4, <2>1 DEF StampInv, HistoryInOrder
    <2>2. CASE y = x /\ j \in 1 .. n
        <3>1. i \in 1 .. n
            BY <1>6, <2>2
        <3> QED BY <1>6, <1>8, <2>2, <3>1 DEF StampInv, HistoryInOrder
    <2>3. CASE y = x /\ j = n + 1
        <3>1. i \in 1 .. n /\ req[r].op # "delete"
            <4>1. audit'[x][n + 1] = e
                BY <1>8
            <4>2. req[r].op # "delete"
                BY <1>7, <2>3, <4>1
            <4>3. n \in Nat /\ i \in 1 .. n + 1 /\ i < n + 1
                BY <1>6, <2>3
            <4> QED BY <4>2, <4>3
        <3>2. Later(x, t)
            BY <1>1, <3>1 DEF StampInv
        <3> QED BY <1>6, <2>3, <3>1, <3>2 DEF Later
    <2> QED BY <1>6, <2>1, <2>2, <2>3
<1> QED BY <1>1, <1>10, <1>11, <1>12 DEF StampInv, Later

\* Every other step adds no entry.
LEMMA OtherSteps ==
    ASSUME IInv, TxInv, StampInv,
           \/ \E r \in Requests :
                 \/ (TakeUp(r) \/ Consult(r)) /\ UNCHANGED txVars
                 \/ Begin(r) \/ InsertEntry(r) \/ ChangeRow(r) \/ RollBack(r)
           \/ Tick /\ UNCHANGED txVars
           \/ UNCHANGED allVars
    PROVE  StampInv'
<1>0. now \in Nat /\ now <= now /\ (\A s \in Requests : tx[s].at # "none" => req[s].pc = "commit")
    <2>1. now \in Nat
        BY Types
    <2>2. now <= now
        BY <2>1
    <2>3. \A s \in Requests : tx[s].at # "none" => req[s].pc = "commit"
        BY DEF TxInv
    <2> QED BY <2>1, <2>2, <2>3
<1>1. ASSUME NEW r \in Requests, TakeUp(r) \/ Consult(r), UNCHANGED txVars
      PROVE  StampInv'
    <2>1. /\ req[r].pc # "commit" /\ UNCHANGED <<rows, audit, now>>
          /\ \E q : req' = [req EXCEPT ![r] = q]
        BY <1>1, TakeUpFrame, ConsultFrame
    <2>2. ASSUME NEW s \in Requests, tx'[s].at # "none"
          PROVE  req'[s] = req[s] /\ tx[s].at # "none" /\ tx'[s].stamp = tx[s].stamp
        BY <1>0, <1>1, <2>1, <2>2 DEF txVars, IInv, TypeInv, TypeOK
    <2> QED BY <1>0, <1>1, <2>1, <2>2, NoEntryStep DEF txVars
<1>2. ASSUME NEW r \in Requests, Begin(r) PROVE StampInv'
    <2>1. ASSUME NEW s \in Requests, tx'[s].at # "none"
          PROVE  /\ req'[s] = req[s]
                 /\ \/ tx[s].at # "none" /\ tx'[s].stamp = tx[s].stamp
                    \/ req[s].pc # "idle" /\ tx'[s].stamp = now
        BY <1>2, <2>1 DEF Begin, vars, TxInv, TxTypeOK
    <2> QED BY <1>0, <1>2, <2>1, NoEntryStep DEF Begin, vars
<1>3. ASSUME NEW r \in Requests, NEW at, tx[r].at # "none", Reach(r, at), UNCHANGED <<vars, stamps>>
      PROVE  StampInv'
    <2>1. ASSUME NEW s \in Requests, tx'[s].at # "none"
          PROVE  req'[s] = req[s] /\ tx[s].at # "none" /\ tx'[s].stamp = tx[s].stamp
        BY <1>3, <2>1 DEF Reach, vars, TxInv, TxTypeOK, Transaction
    <2> QED BY <1>0, <1>3, <2>1, NoEntryStep DEF vars
<1>4. ASSUME NEW r \in Requests, Close(r), Finish(r), UNCHANGED <<rows, audit, now, stamps>>
      PROVE  StampInv'
    <2>1. ASSUME NEW s \in Requests, tx'[s].at # "none"
          PROVE  req'[s] = req[s] /\ tx[s].at # "none" /\ tx'[s].stamp = tx[s].stamp
        BY <1>4, <2>1 DEF Close, Finish, NoTransaction, TxInv, TxTypeOK, IInv, TypeInv, TypeOK
    <2> QED BY <1>0, <1>4, <2>1, NoEntryStep
<1>5. ASSUME NEW r \in Requests, InsertEntry(r) \/ ChangeRow(r) \/ RollBack(r) PROVE StampInv'
    BY <1>3, <1>4, <1>5 DEF InsertEntry, ChangeRow, RollBack, Abort
<1>6. CASE Tick /\ UNCHANGED txVars
    <2>1. now' \in Nat /\ now <= now'
        BY <1>0, <1>6 DEF Tick
    <2> QED BY <1>6, <2>1, NoEntryStep DEF Tick, txVars
<1>7. CASE UNCHANGED allVars
    BY <1>0, <1>7, NoEntryStep DEF allVars, vars, txVars
<1> QED BY <1>1, <1>2, <1>5, <1>6, <1>7

LEMMA StampInitInv == TxInit => StampInv
<1> SUFFICES ASSUME TxInit PROVE StampInv
    OBVIOUS
<1>1. \A x \in Records : stamps[x] = <<>> /\ audit[x] = <<>>
    BY DEF TxInit, Init, StoreInit
<1>2. \A r \in Requests : tx[r].at = "none"
    BY DEF TxInit, NoTransaction
<1> QED BY <1>1, <1>2 DEF StampInv, Later, HistoryInOrder

LEMMA StampInvariance ==
    ASSUME Ahead = 0
    PROVE  TxSpec => []StampInv
<1>1. IInv /\ TxInv /\ StampInv /\ [TxNext]_allVars => StampInv'
    BY Ahead = 0, EntryStep, OtherSteps DEF TxNext, Work
<1> QED BY <1>1, StampInitInv, TxInvariance, PTL DEF TxSpec

(***************************************************************************)
(* The entries of a record tell its creation and changes in the order in   *)
(* which they were committed, although each bears a time from before its   *)
(* transaction (service/security.go 98), as long as no client sends a      *)
(* version that the record has not had yet.                                *)
(***************************************************************************)
THEOREM HistoriesAreInOrder ==
    ASSUME Ahead = 0
    PROVE  TxSpec => []HistoryInOrder
<1>1. StampInv => HistoryInOrder
    BY DEF StampInv
<1> QED BY <1>1, StampInvariance, PTL
=============================================================================
