------------------------------ MODULE Workbench ------------------------------
(***************************************************************************)
(* The manifests page of one browser tab (components/entity-page.component *)
(* .ts over stores/factory.ts) in front of the manifests table, which      *)
(* other people change as well.                                            *)
(*                                                                         *)
(* A handler of the page runs up to its next await; every request in       *)
(* flight then goes on by itself.  Requests reach the server, and answers  *)
(* the page, in any order, and either may be lost.  The table commits a    *)
(* transition in one step here; that it may is what Compliance and         *)
(* AuditedTransactions are about.                                          *)
(***************************************************************************)
EXTENDS Naturals, StatusGraphs

CONSTANTS
    Manifests,
    Seeded,      \* those on record when the page is opened
    Calls,       \* the requests the page may have in flight
    None,
    MaxVersion   \* bound: the last version of a manifest

ASSUME ManifestsOnRecord == Seeded \subseteq Manifests
ASSUME VersionsAreBounded == MaxVersion \in Nat \ {0}

Row == [status : Statuses \cup {"deleted"}, version : 1 .. MaxVersion]

ASSUME NoneIsNoRow == None \notin Row

VARIABLES
    rows,        \* the table
    items,       \* EntityState.items: the rows the page shows
    loading,     \* EntityState.loading
    pending,     \* the transition whose confirmation is asked for
    showCreate,  \* whether the confirmation of a creation is asked for
    call,        \* the request in each slot
    past         \* history: the status of each manifest at each of its versions

vars == <<rows, items, loading, pending, showCreate, call, past>>

Versions == 1 .. MaxVersion

Table  == [Manifests -> Row \cup {None}]
Dialog == [manifest : Manifests, row : Row, to : Statuses]

\* A "create" or a "transition" posts and then, in the same slot, loads.
Call == [flow   : {"none", "load", "create", "transition"},
         stage  : {"post", "get"},
         dialog : Dialog \cup {None},
         expectedVersion : 0 .. MaxVersion,
         wanted : SUBSET Manifests,
         answer : {"pending", "ok", "failed"},
         table  : Table \cup {None}]

NoCall == [flow |-> "none", stage |-> "get", dialog |-> None, expectedVersion |-> 0,
           wanted |-> {}, answer |-> "pending", table |-> None]

TypeOK ==
    /\ rows \in Table
    /\ items \in Table
    /\ loading \in BOOLEAN
    /\ pending \in Dialog \cup {None}
    /\ showCreate \in BOOLEAN
    /\ call \in [Calls -> Call]
    /\ past \in [Manifests -> [Versions -> Statuses \cup {None}]]

Init ==
    /\ rows  = [x \in Manifests |-> IF x \in Seeded THEN [status |-> "draft", version |-> 1] ELSE None]
    /\ items = [x \in Manifests |-> None]
    /\ loading = FALSE
    /\ pending = None
    /\ showCreate = FALSE
    /\ call = [c \in Calls |-> NoCall]
    /\ past = [x \in Manifests |-> [v \in Versions |-> IF x \in Seeded /\ v = 1 THEN "draft" ELSE None]]

Free(c)      == call[c].flow = "none"
Send(c, new) == Free(c) /\ call' = [call EXCEPT ![c] = new]

-----------------------------------------------------------------------------
(* What the user does.                                                     *)

\* ngOnInit, query, reset, previousPage, nextPage: a search and a page select
\* some of the rows.
Load ==
    /\ \E c \in Calls, S \in SUBSET Manifests :
          Send(c, [NoCall EXCEPT !.flow = "load", !.wanted = S])
    /\ loading' = TRUE
    /\ UNCHANGED <<rows, past, items, pending, showCreate>>

\* transitions(item) offers the edges of the graph.
OpenTransition(x) ==
    /\ items[x] # None
    /\ \E to \in Statuses :
          /\ CanTransition(TransferManifestTransitions, items[x].status, to)
          /\ pending' = [manifest |-> x, row |-> items[x], to |-> to]
    /\ UNCHANGED <<rows, past, items, loading, showCreate, call>>

CloseTransition ==
    /\ pending # None
    /\ pending' = None
    /\ UNCHANGED <<rows, past, items, loading, showCreate, call>>

PostTransition(version) ==
    /\ \E c \in Calls :
          Send(c, [NoCall EXCEPT !.flow = "transition", !.stage = "post",
                     !.dialog = pending, !.expectedVersion = version])
    /\ loading' = TRUE
    /\ UNCHANGED <<rows, past, items, pending, showCreate>>

\* Posts the version that is listed by now instead of the one of the dialog.
ConfirmAsListed ==
    /\ pending # None
    /\ items[pending.manifest] # None
    /\ PostTransition(items[pending.manifest].version)

\* confirmTransition up to its await.  The dialog stays open, so that it may
\* be confirmed again, cancelled, or make room for another.
Confirm == pending # None /\ PostTransition(pending.row.version)

OpenOrCloseCreate ==
    /\ showCreate' = ~showCreate
    /\ UNCHANGED <<rows, past, items, loading, pending, call>>

CreateDemo ==
    /\ showCreate
    /\ \E c \in Calls : Send(c, [NoCall EXCEPT !.flow = "create", !.stage = "post"])
    /\ loading' = TRUE
    /\ UNCHANGED <<rows, past, items, pending, showCreate>>

-----------------------------------------------------------------------------
(* What the server makes of a request.                                     *)

OnRecord(x) == rows[x] # None /\ rows[x].status # "deleted"

Write(x, status, version) ==
    /\ rows' = [rows EXCEPT ![x] = [status |-> status, version |-> version]]
    /\ past' = [past EXCEPT ![x][version] = status]

\* The compare-and-set of updateRecord.
Move(x, version, to) ==
    /\ OnRecord(x)
    /\ version < MaxVersion
    /\ rows[x].version = version
    /\ CanTransition(TransferManifestTransitions, rows[x].status, to)
    /\ Write(x, to, version + 1)

\* A new record without its Version: 1.
AddUnversioned(x) ==
    /\ rows[x] = None
    /\ rows' = [rows EXCEPT ![x] = [status |-> TransferManifestInitialStatus, version |-> 0]]
    /\ UNCHANGED past

Add(x) ==
    /\ rows[x] = None
    /\ Write(x, TransferManifestInitialStatus, 1)

Serving(c, flow, stage) ==
    call[c].flow = flow /\ call[c].stage = stage /\ call[c].answer = "pending"

Answer(c, answer) == call' = [call EXCEPT ![c].answer = answer]

\* The commit may be answered with a failure: the answer is lost, or the Get
\* after the commit fails.
ServeTransition(c) ==
    /\ Serving(c, "transition", "post")
    /\ Move(call[c].dialog.manifest, call[c].expectedVersion, call[c].dialog.to)
    /\ \E answer \in {"ok", "failed"} : Answer(c, answer)

ServeCreate(c) ==
    /\ Serving(c, "create", "post")
    /\ \E x \in Manifests : Add(x)
    /\ \E answer \in {"ok", "failed"} : Answer(c, answer)

ServeList(c) ==
    /\ \E flow \in {"load", "create", "transition"} : Serving(c, flow, "get")
    /\ call' = [call EXCEPT
                  ![c].answer = "ok",
                  ![c].table  = [x \in Manifests |->
                                   IF x \in call[c].wanted /\ OnRecord(x) THEN rows[x] ELSE None]]
    /\ UNCHANGED <<rows, past>>

\* Refused, or lost on its way.
Fail(c) ==
    /\ ~Free(c)
    /\ call[c].answer = "pending"
    /\ Answer(c, "failed")
    /\ UNCHANGED <<rows, past>>

Serve(c) ==
    /\ ServeTransition(c) \/ ServeCreate(c) \/ ServeList(c) \/ Fail(c)
    /\ UNCHANGED <<items, loading, pending, showCreate>>

-----------------------------------------------------------------------------
(* What the page makes of an answer.                                       *)

PostAnswered(c, answer) == call[c].stage = "post" /\ call[c].answer = answer

\* load(path) with its defaults asks for the first page of twenty, which may be
\* any of the rows.
Reload(c) ==
    /\ \E S \in SUBSET Manifests :
          call' = [call EXCEPT ![c].stage = "get", ![c].answer = "pending", ![c].wanted = S]
    /\ loading' = TRUE

\* Shows the row as moved before it is loaded again.
DeliverPostShowing(c) ==
    /\ PostAnswered(c, "ok") /\ Reload(c)
    /\ items' = LET d == call[c].dialog IN
                IF d = None THEN items ELSE [items EXCEPT ![d.manifest] = [d.row EXCEPT !.status = d.to]]
    /\ UNCHANGED <<pending, showCreate>>

\* Done without loading again.
DeliverPostOnly(c) ==
    /\ PostAnswered(c, "ok")
    /\ call' = [call EXCEPT ![c] = NoCall]
    /\ loading' = FALSE
    /\ UNCHANGED <<items, pending, showCreate>>

DeliverPost(c) ==
    /\ PostAnswered(c, "ok") /\ Reload(c)
    /\ UNCHANGED <<items, pending, showCreate>>

\* A catch that only throws again.
DeliverPostFailureLoading(c) ==
    /\ PostAnswered(c, "failed")
    /\ call' = [call EXCEPT ![c] = NoCall]
    /\ UNCHANGED <<items, loading, pending, showCreate>>

\* The dialog stays open beside the error.
DeliverPostFailure(c) ==
    /\ PostAnswered(c, "failed")
    /\ call' = [call EXCEPT ![c] = NoCall]
    /\ loading' = FALSE
    /\ UNCHANGED <<items, pending, showCreate>>

\* load swallows its own failure, so that whatever dialog is open by now is
\* closed when a transition or a creation gets here.
DeliverList(c) ==
    /\ ~Free(c)
    /\ call[c].stage = "get"
    /\ call[c].answer # "pending"
    /\ call' = [call EXCEPT ![c] = NoCall]
    /\ items' = IF call[c].answer = "ok" THEN call[c].table ELSE items
    /\ loading' = FALSE
    /\ pending' = IF call[c].flow = "transition" THEN None ELSE pending
    /\ showCreate' = (showCreate /\ call[c].flow # "create")

Deliver(c) ==
    /\ DeliverPost(c) \/ DeliverPostFailure(c) \/ DeliverList(c)
    /\ UNCHANGED <<rows, past>>

-----------------------------------------------------------------------------
(* What other people do: transitions, updates (drafts only), deletions     *)
(* (that a deletion may race with a submission is shown in Compliance),    *)
(* creations.                                                              *)

\* Their writes carry whatever version they like.  The graph and the draft are
\* looked for in the row as it was read, which may be any version v so far; the
\* version they expect is compared with the row that is overwritten.
Overwrite(x) ==
    /\ OnRecord(x)
    /\ rows[x].version < MaxVersion
    /\ \E v \in 1 .. rows[x].version, to \in Statuses :
          /\ \/ CanTransition(TransferManifestTransitions, past[x][v], to)
             \/ past[x][v] = "draft" /\ to = "draft"
          /\ Write(x, to, rows[x].version + 1)

Remove(x) ==
    /\ OnRecord(x)
    /\ rows' = [rows EXCEPT ![x].status = "deleted"]
    /\ UNCHANGED past

Others(x) ==
    /\ Overwrite(x) \/ Remove(x) \/ Add(x)
    /\ UNCHANGED <<items, loading, pending, showCreate, call>>

Next ==
    \/ Load \/ CloseTransition \/ Confirm \/ OpenOrCloseCreate \/ CreateDemo
    \/ \E x \in Manifests : OpenTransition(x) \/ Others(x)
    \/ \E c \in Calls : Serve(c) \/ Deliver(c)

Spec == Init /\ [][Next]_vars

\* A fetch is answered or fails, and the code after its await runs.
Fairness == \A c \in Calls : WF_vars(Serve(c)) /\ WF_vars(Deliver(c))

FairSpec == Spec /\ Fairness

-----------------------------------------------------------------------------

\* A row the table has had at some time.
WasTrue(x, row) ==
    /\ rows[x] # None
    /\ row.version <= rows[x].version
    /\ row.status = past[x][row.version]

\* Whatever order the answers come in, what the page shows, what its dialog
\* shows and what is on its way may be old but was never wrong.
StaleButTrue ==
    /\ \A x \in Manifests : items[x] # None => WasTrue(x, items[x])
    /\ pending # None => WasTrue(pending.manifest, pending.row)
    /\ \A c \in Calls :
          /\ call[c].dialog # None => WasTrue(call[c].dialog.manifest, call[c].dialog.row)
          /\ call[c].table # None =>
                \A x \in Manifests : call[c].table[x] # None => WasTrue(x, call[c].table[x])

\* The page says it is synchronising only while a request of its own is on
\* its way: no path through the store leaves the flag behind.
SpinnerMeansWaiting == loading => \E c \in Calls : ~Free(c)

\* What the user confirmed is what happens: a transition that the server
\* commits for the page takes the manifest from the very status that the
\* dialog showed to the one it named, however often the dialog was confirmed,
\* and whatever was loaded, lost or done by others in the meantime.
AppliedAsShown ==
    [][\A c \in Calls :
          Serving(c, "transition", "post") /\ call'[c].answer # "pending" /\ rows' # rows =>
              LET d == call[c].dialog IN
              /\ rows[d.manifest] = d.row
              /\ rows'[d.manifest].status = d.to
      ]_vars

\* A transition that comes to its end, with its reload, shows the manifest
\* later than the dialog did, or not any more.
ReadYourWrites ==
    [][\A c \in Calls :
          call[c].flow = "transition" /\ call[c].answer = "ok" /\ call'[c] = NoCall =>
              LET d == call[c].dialog IN
              items'[d.manifest] # None => items'[d.manifest].version > d.row.version
      ]_vars

\* The synchronising message goes away, even if the user goes on and on.
SyncEnds == loading ~> ~loading
=============================================================================
