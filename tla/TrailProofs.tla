----------------------------- MODULE TrailProofs -----------------------------
(***************************************************************************)
(* Proofs about AuditTrail: what is read back from the audit entries while *)
(* the transactions of the services go on, for histories of any length and *)
(* any number of records and requests.                                     *)
(***************************************************************************)
EXTENDS AuditTrail, TransactionsProofs, RecordProofs, FiniteSetTheorems

(***************************************************************************)
(* The entries of a record are chained: an entry states as its before the  *)
(* after of the one committed before it, and as long as the record is on   *)
(* file the last of them states its status.  A deletion states the status  *)
(* its request had seen, which nothing ties to the chain, but nothing      *)
(* follows it either.                                                      *)
(***************************************************************************)
Linked(x) ==
    /\ Live(x) =>
          /\ \A i \in DOMAIN audit[x] : audit[x][i].action # "delete"
          /\ audit[x] # <<>> => audit[x][Len(audit[x])].after = rows[x].status
    /\ \A i \in DOMAIN audit[x] \ {1} :
          audit[x][i].action # "delete" => audit[x][i].before = audit[x][i - 1].after

\* A code that has no row has no entries.
Chained == \A x \in Records : Linked(x) /\ (rows[x].phase = "absent" => audit[x] = <<>>)

\* An entry is added to a chain that it fits.
LEMMA LinkAdded ==
    ASSUME NEW x \in Records, audit[x] \in Seq(Entry), NEW e \in Entry,
           audit'[x] = Append(audit[x], e), Linked(x),
           e.action # "delete" =>
               /\ audit[x] = <<>> \/ (Live(x) /\ e.before = rows[x].status)
               /\ rows'[x].phase = "live" /\ e.after = rows'[x].status,
           e.action = "delete" => rows'[x].phase = "deleted"
    PROVE  Linked(x)'
<1> DEFINE n == Len(audit[x])
<1>1. /\ n \in Nat /\ DOMAIN audit[x] = 1 .. n
      /\ Len(audit'[x]) = n + 1 /\ DOMAIN audit'[x] = 1 .. n + 1
      /\ \A i \in 1 .. n : audit'[x][i] = audit[x][i]
      /\ audit'[x][n + 1] = e
      /\ audit[x] = <<>> <=> n = 0
    OBVIOUS
<1> HIDE DEF n
<1>2. audit[x] # <<>> => audit[x][n].after = rows[x].status \/ ~Live(x)
    BY DEF Linked, n
<1>3. ASSUME rows'[x].phase = "live"
      PROVE  /\ \A i \in 1 .. n + 1 : audit'[x][i].action # "delete"
             /\ audit'[x][n + 1].after = rows'[x].status
    <2>1. e.action # "delete" /\ e.after = rows'[x].status
        BY <1>3
    <2>2. \A i \in 1 .. n : audit[x][i].action # "delete"
        <3>1. CASE audit[x] = <<>>
            BY <1>1, <3>1
        <3>2. CASE Live(x)
            BY <1>1, <3>2 DEF Linked
        <3> QED BY <2>1, <3>1, <3>2
    <2>3. \A i \in 1 .. n + 1 : i \in 1 .. n \/ i = n + 1
        BY <1>1
    <2> QED BY <1>1, <2>1, <2>2, <2>3
<1>4. ASSUME NEW i \in (1 .. n + 1) \ {1}, audit'[x][i].action # "delete"
      PROVE  audit'[x][i].before = audit'[x][i - 1].after
    <2>1. i - 1 \in 1 .. n /\ (i \in 1 .. n \/ i = n + 1)
        BY <1>1
    <2>2. CASE i \in 1 .. n
        BY <1>1, <1>4, <2>1, <2>2 DEF Linked
    <2>3. CASE i = n + 1
        <3>1. e.action # "delete" /\ n # 0 /\ i - 1 = n
            BY <1>1, <1>4, <2>3
        <3>2. Live(x) /\ e.before = rows[x].status /\ audit[x][n].after = rows[x].status
            BY <1>1, <1>2, <3>1
        <3>3. n \in 1 .. n
            BY <1>1, <3>1
        <3> QED BY <1>1, <2>3, <3>1, <3>2, <3>3
    <2> QED BY <2>1, <2>2, <2>3
<1>5. audit'[x][Len(audit'[x])] = audit'[x][n + 1]
    BY <1>1
<1> QED BY <1>1, <1>3, <1>4, <1>5 DEF Linked, Live

LEMMA ChainedStep ==
    ASSUME Ahead = 0, IInv, Chained, [Next]_vars
    PROVE  Chained'
<1> SUFFICES ASSUME NEW x \in Records
             PROVE  Linked(x)' /\ (rows'[x].phase = "absent" => audit'[x] = <<>>)
    BY DEF Chained
<1>1. /\ Linked(x) /\ (rows[x].phase = "absent" => audit[x] = <<>>)
      /\ audit[x] \in Seq(Entry) /\ rows[x] \in Row
    BY DEF Chained, IInv, TypeInv, TypeOK
<1>2. CASE UNCHANGED <<rows[x], audit[x]>>
    BY <1>1, <1>2 DEF Linked, Live
<1>3. ASSUME NEW r \in Requests, Inserted(r, x)
      PROVE  Linked(x)' /\ rows'[x].phase # "absent"
    <2> DEFINE e == [action |-> "create", before |-> "", after |-> req[r].row.status]
    <2>1. /\ req[r].row.phase = "live" /\ req[r].row.status \in Statuses
          /\ rows'[x] = req[r].row /\ audit'[x] = Append(audit[x], e) /\ audit[x] = <<>>
        BY <1>1, <1>3, AboutToCommit, InitialStatusOf DEF Inserted, InOrder
    <2>2. e \in Entry /\ e.action = "create" /\ e.after = rows'[x].status
        BY <2>1 DEF Entry
    <2> HIDE DEF e
    <2> QED BY <1>1, <2>1, <2>2, LinkAdded
<1>4. ASSUME NEW r \in Requests, Updated(r, x)
      PROVE  Linked(x)' /\ rows'[x].phase # "absent"
    <2> DEFINE e == [action |-> req[r].op, before |-> req[r].before, after |-> req[r].row.status]
    <2>1. /\ rows[x].phase = "live" /\ req[r].row.phase = "live"
          /\ req[r].before = rows[x].status
          /\ req[r].op \in {"update", "transition"}
          /\ rows'[x] = req[r].row /\ audit'[x] = Append(audit[x], e)
        BY <1>4, UpdatedFacts DEF Updated
    <2>2. req[r].before \in Statuses /\ req[r].row.status \in Statuses
        BY <1>4, AboutToCommit, EdgeEnds DEF Updated, InOrder
    <2>3. /\ e \in Entry /\ e.action # "delete" /\ e.before = rows[x].status
          /\ e.after = rows'[x].status
        BY <2>1, <2>2 DEF Entry
    <2> HIDE DEF e
    <2> QED BY <1>1, <2>1, <2>3, LinkAdded DEF Live
<1>5. ASSUME NEW r \in Requests, Deleted(r, x)
      PROVE  Linked(x)' /\ rows'[x].phase # "absent"
    <2> DEFINE e == [action |-> "delete", before |-> req[r].before, after |-> "deleted"]
    <2>1. /\ req[r].before \in Statuses /\ rows'[x].phase = "deleted"
          /\ audit'[x] = Append(audit[x], e)
        BY <1>1, <1>5, AboutToCommit DEF Deleted, InOrder, Row
    <2>2. e \in Entry /\ e.action = "delete"
        BY <2>1 DEF Entry
    <2> HIDE DEF e
    <2> QED BY <1>1, <2>1, <2>2, LinkAdded
<1> QED BY <1>1, <1>2, <1>3, <1>4, <1>5, RecordStep

LEMMA ChainedInv ==
    ASSUME Ahead = 0
    PROVE  Spec => []Chained
<1>1. Init => Chained
    <2> SUFFICES ASSUME Init PROVE Chained
        OBVIOUS
    <2>1. \A x \in Records : audit[x] = <<>>
        BY DEF Init, StoreInit
    <2> QED BY <2>1 DEF Chained, Linked
<1>2. IInv /\ Chained /\ [Next]_vars => Chained'
    BY ChainedStep, Ahead = 0
<1> QED BY <1>1, <1>2, Invariance, PTL DEF Spec

-----------------------------------------------------------------------------
(* Histories.                                                              *)

\* As long as the times of the entries differ, sorting them by time puts them
\* into the order of the commits: a history lists the newest entry first and
\* leaves none out on its way down.
LEMMA NewestFirst ==
    ASSUME NEW x \in Records, stamps[x] \in Seq(Nat),
           \A i, j \in DOMAIN stamps[x] : i < j => stamps[x][i] < stamps[x][j],
           NEW limit \in Nat, NEW h \in EntityHistory(x, limit)
    PROVE  /\ \A i \in DOMAIN h : h[i] \in DOMAIN stamps[x]
           /\ 1 \in DOMAIN h => h[1] = Len(stamps[x])
           /\ \A i \in DOMAIN h \ {1} : i - 1 \in DOMAIN h /\ h[i] = h[i - 1] - 1
<1> DEFINE all == Len(stamps[x])
           n   == IF all < limit THEN all ELSE limit
           t   == stamps[x]
<1>1. /\ all \in Nat /\ DOMAIN t = 1 .. all /\ n \in Nat
      /\ \A k \in 1 .. all : t[k] \in Nat
    OBVIOUS
<1>2. /\ h \in [1 .. n -> 1 .. all]
      /\ \A i, j \in 1 .. n : i < j => h[i] # h[j] /\ t[h[i]] >= t[h[j]]
      /\ \A k \in 1 .. all :
            (\A i \in 1 .. n : h[i] # k) => \A i \in 1 .. n : t[k] <= t[h[i]]
    BY <1>1 DEF EntityHistory
<1>3. \A j, k \in 1 .. all : j < k => t[j] < t[k]
    BY <1>1
<1> HIDE DEF all, n, t
<1>4. DOMAIN h = 1 .. n /\ \A i \in 1 .. n : h[i] \in 1 .. all
    BY <1>2
<1>5. ASSUME NEW i \in 1 .. n, NEW j \in 1 .. n, i < j PROVE h[j] < h[i]
    <2>1. h[i] \in 1 .. all /\ h[j] \in 1 .. all /\ h[i] # h[j] /\ t[h[i]] >= t[h[j]]
        BY <1>2, <1>4, <1>5
    <2>2. h[i] < h[j] => t[h[i]] < t[h[j]]
        BY <1>3, <2>1
    <2>3. t[h[i]] \in Nat /\ t[h[j]] \in Nat
        BY <1>1, <2>1
    <2>4. ~(h[i] < h[j])
        BY <2>1, <2>2, <2>3
    <2> QED BY <1>1, <2>1, <2>4
\* What is not listed is older than all that is.
<1>6. ASSUME NEW k \in 1 .. all, \A i \in 1 .. n : h[i] # k, NEW i \in 1 .. n
      PROVE  k < h[i]
    <2>1. h[i] \in 1 .. all /\ h[i] # k /\ t[k] <= t[h[i]]
        BY <1>2, <1>4, <1>6
    <2>2. h[i] < k => t[h[i]] < t[k]
        BY <1>3, <2>1
    <2>3. t[h[i]] \in Nat /\ t[k] \in Nat
        BY <1>1, <2>1
    <2>4. ~(h[i] < k)
        BY <2>1, <2>2, <2>3
    <2> QED BY <1>1, <2>1, <2>4
<1>7. ASSUME 1 \in 1 .. n PROVE h[1] = all
    <2>1. h[1] \in 1 .. all /\ all \in 1 .. all
        BY <1>1, <1>4, <1>7
    <2>2. CASE \A i \in 1 .. n : h[i] # all
        <3>1. all < h[1]
            BY <1>6, <1>7, <2>1, <2>2
        <3> QED BY <1>1, <2>1, <3>1
    <2>3. ASSUME NEW i \in 1 .. n, h[i] = all PROVE h[1] = all
        <3>1. i # 1 => h[i] < h[1]
            BY <1>1, <1>5, <1>7
        <3> QED BY <1>1, <2>1, <2>3, <3>1
    <2> QED BY <2>2, <2>3
<1>8. ASSUME NEW i \in (1 .. n) \ {1} PROVE i - 1 \in 1 .. n /\ h[i] = h[i - 1] - 1
    <2>1. i - 1 \in 1 .. n /\ i - 1 < i
        BY <1>1
    <2>2. h[i] < h[i - 1] /\ h[i] \in 1 .. all /\ h[i - 1] \in 1 .. all
        BY <1>4, <1>5, <2>1
    <2>3. ASSUME NEW k, k = h[i - 1] - 1, h[i] # k PROVE FALSE
        <3>1. k \in 1 .. all /\ h[i] < k /\ k < h[i - 1]
            <4>1. ASSUME NEW a \in 1 .. all, NEW b \in 1 .. all, b < a, b # a - 1
                  PROVE  a - 1 \in 1 .. all /\ b < a - 1 /\ a - 1 < a
                BY <1>1, <4>1
            <4> QED BY <2>2, <2>3, <4>1
        <3>2. PICK m \in 1 .. n : h[m] = k
            <4> SUFFICES ASSUME \A m \in 1 .. n : h[m] # k PROVE FALSE
                OBVIOUS
            <4>1. k < h[i]
                BY <1>6, <3>1
            <4> QED BY <1>1, <2>2, <3>1, <4>1
        <3>3. m = i \/ m = i - 1 \/ i < m \/ m < i - 1
            BY <1>1, <2>1
        <3>4. i < m => k < h[i]
            BY <1>5, <3>2
        <3>5. m < i - 1 => h[i - 1] < k
            BY <1>5, <2>1, <3>2
        <3>6. h[i] \in Nat /\ h[i - 1] \in Nat /\ k \in Nat
            BY <1>1, <2>2, <3>1
        <3> QED BY <3>1, <3>2, <3>3, <3>4, <3>5, <3>6
    <2> QED BY <2>1, <2>3
<1> QED BY <1>1, <1>4, <1>7, <1>8 DEF all, t

\* A state whose chain is whole and whose entries bear times in their order.
LEMMA StoryTold ==
    ASSUME TxInv, IInv, StampInv, Chained, NEW limit \in Nat
    PROVE  ReadsAsStory(limit)
<1> SUFFICES ASSUME NEW x \in Records, Live(x), TimesDiffer(x), NEW h \in EntityHistory(x, limit)
             PROVE  /\ 1 \in DOMAIN h => audit[x][h[1]].after = rows[x].status
                    /\ \A i \in DOMAIN h \ {1} :
                          audit[x][h[i - 1]].before = audit[x][h[i]].after
    BY DEF ReadsAsStory
<1>1. /\ stamps[x] \in Seq(Nat) /\ audit[x] \in Seq(Entry)
      /\ Len(stamps[x]) = Len(audit[x])
    BY Types DEF StampInv
<1>2. DOMAIN stamps[x] = DOMAIN audit[x] /\ DOMAIN audit[x] = 1 .. Len(audit[x])
    BY <1>1
<1>3. Linked(x) /\ \A i \in DOMAIN audit[x] : audit[x][i].action # "delete"
    BY DEF Chained, Linked
<1>4. ASSUME NEW i \in DOMAIN stamps[x], NEW j \in DOMAIN stamps[x], i < j
      PROVE  stamps[x][i] < stamps[x][j]
    <2>1. stamps[x][i] <= stamps[x][j]
        BY <1>2, <1>3, <1>4 DEF StampInv, HistoryInOrder
    <2>2. stamps[x][i] # stamps[x][j]
        BY <1>2, <1>4 DEF TimesDiffer
    <2>3. stamps[x][i] \in Nat /\ stamps[x][j] \in Nat
        BY <1>1
    <2> QED BY <2>1, <2>2, <2>3
<1>5. /\ \A i \in DOMAIN h : h[i] \in DOMAIN stamps[x]
      /\ 1 \in DOMAIN h => h[1] = Len(stamps[x])
      /\ \A i \in DOMAIN h \ {1} : i - 1 \in DOMAIN h /\ h[i] = h[i - 1] - 1
    BY <1>1, <1>4, NewestFirst
<1>6. ASSUME 1 \in DOMAIN h PROVE audit[x][h[1]].after = rows[x].status
    BY <1>1, <1>2, <1>3, <1>5, <1>6 DEF Linked
<1>7. ASSUME NEW i \in DOMAIN h \ {1} PROVE audit[x][h[i - 1]].before = audit[x][h[i]].after
    <2>1. /\ h[i - 1] \in DOMAIN audit[x] /\ h[i] \in DOMAIN audit[x]
          /\ h[i] = h[i - 1] - 1
        BY <1>2, <1>5
    <2>2. h[i - 1] \in DOMAIN audit[x] \ {1}
        BY <1>1, <1>2, <2>1
    <2> QED BY <1>3, <2>1, <2>2 DEF Linked
<1> QED BY <1>6, <1>7

\* Reading the audit entries changes nothing of what the transactions do.
LEMMA TrailRefinesTx == TrailSpec => TxSpec
<1>1. TrailInit => TxInit
    BY DEF TrailInit
<1>2. [TrailNext]_trailVars => [TxNext]_allVars
    BY DEF TrailNext, trailVars
<1> QED BY <1>1, <1>2, PTL DEF TrailSpec, TxSpec

(***************************************************************************)
(* The history of a record on file reads as its story (README 45, 47):     *)
(* whatever limit it is asked for with, it begins with the entry that      *)
(* states the present status, and each entry starts where the next one     *)
(* down ended, as long as the times of the entries differ and no client    *)
(* runs ahead of the record.                                               *)
(***************************************************************************)
THEOREM HistoriesReadAsStories ==
    ASSUME Ahead = 0
    PROVE  TrailSpec => [](HistoryIsAStory /\ \A limit \in Nat : ReadsAsStory(limit))
<1>1. TxSpec => []Chained
    BY Ahead = 0, ChainedInv, TransactionsRefineCommits, PTL DEF CommitsAreOneStep
<1>2. TxSpec => []StampInv
    BY Ahead = 0, StampInvariance
<1>3. IInv /\ TxInv /\ StampInv /\ Chained => \A limit \in Nat : ReadsAsStory(limit)
    BY StoryTold
<1>4. (\A limit \in Nat : ReadsAsStory(limit)) => HistoryIsAStory
    BY DEF HistoryIsAStory
<1> QED BY <1>1, <1>2, <1>3, <1>4, TrailRefinesTx, TxInvariance, PTL

-----------------------------------------------------------------------------
(***************************************************************************)
(* Summaries.                                                              *)
(*                                                                         *)
(* Entries are added and never changed, so the entries in the window and   *)
(* the transitions among them only grow.  A figure that was counted is a   *)
(* lower bound of what there is to count from then on.                     *)
(***************************************************************************)
Summary == [at : {"none", "transitions", "actions", "reply"}, total : Nat,
            transitions : Nat, actions : Nat, moves : Nat]

CountInv ==
    /\ summary \in Summary
    /\ IsFiniteSet(InWindow)
    /\ summary.total <= Cardinality(InWindow)
    /\ summary.transitions <= Cardinality(Transitions)
    /\ SummaryMissesNothing

LEMMA Counts ==
    ASSUME IsFiniteSet(InWindow)
    PROVE  /\ Cardinality(InWindow) \in Nat
           /\ IsFiniteSet(Transitions)
           /\ Cardinality(Transitions) \in Nat
<1>1. Transitions \in SUBSET InWindow
    BY DEF Transitions
<1>2. IsFiniteSet(Transitions)
    BY <1>1, FS_Subset
<1> QED BY <1>2, FS_CardinalityType

\* Each entry has its time.
Paired == \A x \in Records : Len(stamps[x]) = Len(audit[x])

\* Entries and times are added together, by the commit of one request.
LEMMA LogStep ==
    ASSUME IInv, TxInv, [TxNext]_allVars
    PROVE  \/ UNCHANGED <<audit, stamps>>
           \/ \E r \in Requests, t \in Nat : \E e : LET x == req[r].rec IN
                 /\ x \in Records
                 /\ stamps' = [stamps EXCEPT ![x] = Append(@, t)]
                 /\ audit' = [audit EXCEPT ![x] = Append(@, e)]
<1>1. ASSUME NEW r \in Requests, CommitTransaction(r)
      PROVE  \E t \in Nat : \E e : LET x == req[r].rec IN
                 /\ x \in Records
                 /\ stamps' = [stamps EXCEPT ![x] = Append(@, t)]
                 /\ audit' = [audit EXCEPT ![x] = Append(@, e)]
    <2>1. req[r].rec \in Records /\ tx[r].stamp \in Nat
        BY <1>1, OpenTransaction DEF CommitTransaction
    <2> QED BY <1>1, <2>1 DEF CommitTransaction, Logged
<1>2. ASSUME NEW r \in Requests, TakeUp(r) \/ Consult(r), UNCHANGED txVars
      PROVE  UNCHANGED <<audit, stamps>>
    BY <1>2, TakeUpFrame, ConsultFrame DEF txVars
<1>3. ASSUME NEW r \in Requests, Begin(r) \/ InsertEntry(r) \/ ChangeRow(r) \/ RollBack(r)
      PROVE  UNCHANGED <<audit, stamps>>
    BY <1>3 DEF Begin, InsertEntry, ChangeRow, RollBack, Abort, vars
<1>4. (Tick /\ UNCHANGED txVars) \/ UNCHANGED allVars => UNCHANGED <<audit, stamps>>
    BY DEF Tick, allVars, vars, txVars
<1> QED BY <1>1, <1>2, <1>3, <1>4 DEF TxNext, Work

\* One commit adds one entry, at the end of one record's.
LEMMA WindowGrows ==
    ASSUME IInv, TxInv, Paired, IsFiniteSet(InWindow), [TxNext]_allVars
    PROVE  /\ Paired'
           /\ IsFiniteSet(InWindow)'
           /\ InWindow \subseteq InWindow'
           /\ Transitions \subseteq Transitions'
<1>1. CASE UNCHANGED <<audit, stamps>>
    BY <1>1 DEF Paired, InWindow, Transitions
<1>2. ASSUME NEW r \in Requests, NEW t \in Nat, NEW e, NEW x, x = req[r].rec, x \in Records,
             stamps' = [stamps EXCEPT ![x] = Append(@, t)],
             audit' = [audit EXCEPT ![x] = Append(@, e)]
      PROVE  /\ Paired'
             /\ IsFiniteSet(InWindow)'
             /\ InWindow \subseteq InWindow'
             /\ Transitions \subseteq Transitions'
    <2> DEFINE n == Len(stamps[x])
    <2>1. /\ \A y \in Records : stamps[y] \in Seq(Nat) /\ audit[y] \in Seq(Entry)
          /\ stamps'[x] = Append(stamps[x], t) /\ audit'[x] = Append(audit[x], e)
          /\ \A y \in Records \ {x} : stamps'[y] = stamps[y] /\ audit'[y] = audit[y]
        BY <1>2, Types DEF TxInv, TxTypeOK, IInv, TypeInv, TypeOK
    <2>2. /\ n \in Nat /\ Len(stamps'[x]) = n + 1 /\ DOMAIN stamps[x] = 1 .. n
          /\ DOMAIN stamps'[x] = 1 .. n + 1
          /\ Len(audit[x]) = n /\ Len(audit'[x]) = n + 1
          /\ \A i \in 1 .. n : audit'[x][i] = audit[x][i]
        BY <1>2, <2>1 DEF Paired
    <2> HIDE DEF n
    <2>3. Paired'
        BY <2>1, <2>2 DEF Paired
    <2>4. InWindow' = InWindow \cup {<<x, n + 1>>}
        <3>1. DOMAIN stamps'[x] = DOMAIN stamps[x] \cup {n + 1}
            BY <2>2
        <3> QED BY <1>2, <2>1, <3>1 DEF InWindow
    <2>5. IsFiniteSet(InWindow')
        BY <2>4, FS_AddElement
    <2>6. ASSUME NEW w \in InWindow PROVE audit'[w[1]][w[2]] = audit[w[1]][w[2]]
        <3>1. PICK y \in Records : w \in {y} \X DOMAIN stamps[y]
            BY DEF InWindow
        <3>2. w[1] = y /\ w[2] \in DOMAIN stamps[y]
            BY <3>1
        <3>3. y = x => w[2] \in 1 .. n
            BY <2>2, <3>2
        <3> QED BY <2>1, <2>2, <3>2, <3>3
    <2> QED BY <2>3, <2>4, <2>5, <2>6 DEF Transitions
<1> QED BY <1>1, <1>2, LogStep

LEMMA SummaryStep ==
    ASSUME IInv, TxInv, Paired, CountInv, [TrailNext]_trailVars
    PROVE  Paired' /\ CountInv'
<1>1. IsFiniteSet(InWindow)
    BY DEF CountInv
<1> DEFINE all == Cardinality(InWindow)
           moves == Cardinality(Transitions)
<1>2. all \in Nat /\ moves \in Nat
    BY <1>1, Counts
<1>3. CASE [TxNext]_allVars /\ UNCHANGED summary
    <2>1. /\ Paired' /\ IsFiniteSet(InWindow')
          /\ InWindow \subseteq InWindow' /\ Transitions \subseteq Transitions'
        BY <1>1, <1>3, WindowGrows
    <2>2. IsFiniteSet(Transitions')
        <3>1. Transitions' \in SUBSET InWindow'
            BY DEF Transitions
        <3> QED BY <2>1, <3>1, FS_Subset
    <2>3. all <= all' /\ moves <= moves' /\ all' \in Nat /\ moves' \in Nat
        BY <2>1, <2>2, FS_Subset, FS_CardinalityType
    <2> HIDE DEF all, moves
    <2>4. summary.total <= all /\ summary.transitions <= moves
        BY DEF CountInv, all, moves
    <2>5. summary.total \in Nat /\ summary.transitions \in Nat
        BY DEF CountInv, Summary
    <2>6. summary.total <= all' /\ summary.transitions <= moves'
        <3>1. \A i, j, k \in Nat : i <= j /\ j <= k => i <= k
            OBVIOUS
        <3> QED BY <1>2, <2>3, <2>4, <2>5, <3>1
    <2> QED BY <1>3, <2>1, <2>6 DEF CountInv, SummaryMissesNothing, all, moves
<1>4. CASE SummarizeAudits /\ UNCHANGED allVars
    <2>1. UNCHANGED <<InWindow, Transitions, Paired>>
        BY <1>4 DEF allVars, vars, txVars, InWindow, Transitions, Paired
    <2>2. all <= all /\ moves <= moves
        BY <1>2
    <2> HIDE DEF all, moves
    <2>3. /\ summary \in Summary /\ summary.total <= all /\ summary.transitions <= moves
          /\ 0 <= all /\ 0 <= moves
        BY <1>2 DEF CountInv, all, moves
    <2> DEFINE Fits(s) ==
            /\ s \in Summary /\ s.total <= all /\ s.transitions <= moves
            /\ s.at = "reply" => s.total <= s.actions /\ s.transitions <= s.moves
    <2>4. Fits(summary')
        <3>1. CASE CountTotal
            BY <1>2, <2>2, <2>3, <3>1 DEF CountTotal, NoSummary, Summary, all
        <3>2. CASE CountTransitions
            BY <1>2, <2>2, <2>3, <3>2 DEF CountTransitions, Summary, moves
        <3>3. CASE CountActions
            BY <1>2, <2>2, <2>3, <3>3 DEF CountActions, Summary, all, moves
        <3>4. CASE EndSummary
            BY <2>3, <3>4 DEF EndSummary, NoSummary, Summary
        <3> QED BY <1>4, <3>1, <3>2, <3>3, <3>4 DEF SummarizeAudits
    <2> QED BY <1>1, <2>1, <2>4 DEF CountInv, SummaryMissesNothing, all, moves
<1> QED BY <1>3, <1>4 DEF TrailNext, trailVars

(***************************************************************************)
(* A summary misses nothing (repository/security.go 60-88): of the figures *)
(* that count the same entries, the one taken later is never the smaller,  *)
(* although entries commit between the queries.                            *)
(***************************************************************************)
THEOREM SummariesMissNothing == TrailSpec => []SummaryMissesNothing
<1>1. TrailInit => Paired /\ CountInv
    <2> SUFFICES ASSUME TrailInit PROVE Paired /\ CountInv
        OBVIOUS
    <2>1. \A x \in Records : stamps[x] = <<>> /\ audit[x] = <<>>
        BY DEF TrailInit, TxInit, Init, StoreInit
    <2>2. InWindow = {} /\ Transitions = {}
        BY <2>1 DEF InWindow, Transitions
    <2>3. IsFiniteSet(InWindow) /\ Cardinality(InWindow) = 0 /\ Cardinality(Transitions) = 0
        BY <2>2, FS_EmptySet
    <2> QED BY <2>1, <2>3 DEF TrailInit, NoSummary, Summary, Paired, CountInv, SummaryMissesNothing
<1>2. IInv /\ TxInv /\ Paired /\ CountInv /\ [TrailNext]_trailVars => (Paired /\ CountInv)'
    BY SummaryStep
<1>3. CountInv => SummaryMissesNothing
    BY DEF CountInv
<1> QED BY <1>1, <1>2, <1>3, TrailRefinesTx, TxInvariance, PTL DEF TrailSpec

-----------------------------------------------------------------------------
(***************************************************************************)
(* Whatever the services keep while each commit is one step they keep      *)
(* statement by statement, with the history and the summaries read in      *)
(* between: the optimistic lock, the ledger of every record (README        *)
(* 43-45), and what the checks before a write are worth when it commits.   *)
(***************************************************************************)
THEOREM StatementsKeepThePromises ==
    ASSUME Ahead = 0
    PROVE  TrailSpec => /\ []NoLostUpdate
                        /\ KeepsLedger
                        /\ FrozenLinks
                        /\ RetentionHolds
                        /\ RejectionHolds
                        /\ RevocationHolds
                        /\ LapseHolds
<1>1. TrailSpec => Spec
    BY TrailRefinesTx, TransactionsRefineCommits, PTL DEF CommitsAreOneStep
<1>2. Spec => []NoLostUpdate
    BY Ahead = 0, NoUpdateIsLost
<1>3. Spec => KeepsLedger
    BY Ahead = 0, RecordsKeepLedger
<1>4. Spec => FrozenLinks
    BY Ahead = 0, LinksAreFrozen
<1>5. Spec => RetentionHolds
    BY Ahead = 0, WhatIsFrozenIsRetained
<1>6. Spec => RejectionHolds
    BY Ahead = 0, RejectionIsFinal
<1>7. Spec => RevocationHolds
    BY Ahead = 0, RevocationIsFinal
<1>8. Spec => LapseHolds
    BY Ahead = 0, LapseLasts
<1> QED BY <1>1, <1>2, <1>3, <1>4, <1>5, <1>6, <1>7, <1>8, PTL
=============================================================================
