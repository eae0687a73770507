--------------------------- MODULE WorkbenchProofs ---------------------------
(***************************************************************************)
(* What holds of Workbench for any number of manifests, of requests in     *)
(* flight and of versions.                                                 *)
(*                                                                         *)
(* The rows of the table only grow in version, and a version never changes *)
(* its status (Grows); hence whatever was read from the table stays a row  *)
(* that the table once had, wherever it is kept meanwhile.                 *)
(***************************************************************************)
EXTENDS Workbench, TLAPS

TrueTable(T)  == \A x \in Manifests : T[x] # None => WasTrue(x, T[x])
TrueDialog(d) == WasTrue(d.manifest, d.row)

\* The transition that the dialog asked for has been made.
Passed(d) == rows[d.manifest] # None /\ d.row.version < rows[d.manifest].version

CallOK(k) ==
    /\ k.stage = "post" => k.flow # "none"
    /\ k.dialog # None => TrueDialog(k.dialog)
    /\ k.table # None => TrueTable(k.table)
    /\ k.flow = "transition" =>
          /\ k.dialog # None
          /\ k.stage = "post" => k.expectedVersion = k.dialog.row.version
          /\ k.stage = "get" \/ k.answer = "ok" => Passed(k.dialog)
    /\ k.stage = "get" /\ k.answer = "ok" =>
          /\ k.table \in Table /\ TrueTable(k.table)
          /\ k.flow = "transition" =>
                LET m == k.dialog.manifest IN
                k.table[m] # None => k.dialog.row.version < k.table[m].version

\* The last status of the history is the one in the table.
Current == \A x \in Manifests : OnRecord(x) => rows[x].status = past[x][rows[x].version]

PageOK == TrueTable(items) /\ (pending # None => TrueDialog(pending))

IInv ==
    /\ TypeOK
    /\ Current
    /\ PageOK
    /\ \A c \in Calls : CallOK(call[c])
    /\ SpinnerMeansWaiting

\* What a step may do to the table.
Grows ==
    \A x \in Manifests :
        /\ \A row \in Row : WasTrue(x, row) => WasTrue(x, row)'
        /\ rows[x] # None => rows'[x] # None /\ rows[x].version <= rows'[x].version

TablesType ==
    /\ rows \in Table
    /\ past \in [Manifests -> [Versions -> Statuses \cup {None}]]

-----------------------------------------------------------------------------
(* The table.                                                              *)

LEMMA VersionFacts == MaxVersion \in Nat /\ 1 \in Versions /\ \A v \in Versions : v \in Nat
BY VersionsAreBounded DEF Versions

LEMMA WriteStep ==
    ASSUME TablesType, Current,
           NEW x \in Manifests, NEW status \in Statuses, NEW version \in Versions,
           rows[x] # None => rows[x].version < version,
           Write(x, status, version)
    PROVE  Grows /\ TablesType' /\ Current'
<1>1. rows' = [rows EXCEPT ![x] = [status |-> status, version |-> version]]
      /\ past' = [past EXCEPT ![x][version] = status]
    BY DEF Write
<1>2. [status |-> status, version |-> version] \in Row
    BY DEF Row, Versions
<1>3. TablesType'
    BY <1>1, <1>2 DEF TablesType, Table
<1>4. [status |-> status, version |-> version] # None
    BY <1>2, NoneIsNoRow
<1>5. rows'[x] = [status |-> status, version |-> version]
      /\ past'[x] = [past[x] EXCEPT ![version] = status]
    BY <1>1 DEF TablesType, Table
<1>6. \A y \in Manifests \ {x} : rows'[y] = rows[y] /\ past'[y] = past[y]
    BY <1>1 DEF TablesType, Table
<1>7. ASSUME NEW y \in Manifests
      PROVE  /\ \A row \in Row : WasTrue(y, row) => WasTrue(y, row)'
             /\ rows[y] # None => rows'[y] # None /\ rows[y].version <= rows'[y].version
    <2>1. rows[y] # None => rows[y] \in Row /\ rows[y].version \in Versions
        BY DEF TablesType, Table, Row, Versions
    <2>2. CASE y # x
        BY <1>6, <2>1, <2>2, VersionFacts DEF WasTrue
    <2>3. CASE y = x
        <3>1. ASSUME NEW row \in Row, WasTrue(x, row)
              PROVE  WasTrue(x, row)'
            <4>1. row.version \in Versions /\ row.version < version
                BY <2>1, <2>3, <3>1, VersionFacts DEF WasTrue, Row, Versions
            <4>2. past'[x][row.version] = past[x][row.version]
                BY <1>5, <4>1, VersionFacts DEF TablesType
            <4> QED BY <1>4, <1>5, <3>1, <4>1, <4>2, VersionFacts DEF WasTrue
        <3> QED BY <1>4, <1>5, <2>1, <2>3, <3>1, VersionFacts
    <2> QED BY <2>2, <2>3
<1>8. Current'
    <2> SUFFICES ASSUME NEW y \in Manifests, OnRecord(y)'
                 PROVE  rows'[y].status = past'[y][rows'[y].version]
        BY DEF Current
    <2>1. CASE y # x
        BY <1>6, <2>1 DEF Current, OnRecord
    <2>2. CASE y = x
        BY <1>5, <2>2 DEF TablesType
    <2> QED BY <2>1, <2>2
<1> QED BY <1>3, <1>7, <1>8 DEF Grows

LEMMA MoveStep ==
    ASSUME TablesType, Current,
           NEW x \in Manifests, NEW version \in 0 .. MaxVersion, NEW to \in Statuses,
           Move(x, version, to)
    PROVE  Grows /\ TablesType' /\ Current'
<1>1. version + 1 \in Versions /\ rows[x].version < version + 1 /\ Write(x, to, version + 1)
    BY VersionsAreBounded DEF Move, Versions
<1> QED BY <1>1, WriteStep

LEMMA AddStep ==
    ASSUME TablesType, Current, NEW x \in Manifests, Add(x)
    PROVE  Grows /\ TablesType' /\ Current'
<1>1. TransferManifestInitialStatus \in Statuses
    BY DEF TransferManifestInitialStatus, Statuses
<1> QED BY <1>1, VersionFacts, WriteStep DEF Add

LEMMA StillStep ==
    ASSUME TablesType, Current, UNCHANGED <<rows, past>>
    PROVE  Grows /\ TablesType' /\ Current'
<1>1. \A x \in Manifests : rows[x] # None => rows[x].version \in Nat
    BY VersionsAreBounded DEF TablesType, Table, Row
<1>2. Grows
    BY <1>1 DEF Grows, WasTrue
<1> QED BY <1>2 DEF TablesType, Current, OnRecord

LEMMA OthersStep ==
    ASSUME TablesType, Current, NEW x \in Manifests, Others(x)
    PROVE  Grows /\ TablesType' /\ Current'
<1>1. rows[x] # None => rows[x] \in Row /\ rows[x].version \in Versions
    BY DEF TablesType, Table, Row, Versions
<1>2. CASE Overwrite(x)
    <2>1. rows[x].version + 1 \in Versions /\ rows[x].version < rows[x].version + 1
        BY <1>1, <1>2, VersionsAreBounded DEF Overwrite, Versions, OnRecord
    <2>2. PICK to \in Statuses : Write(x, to, rows[x].version + 1)
        BY <1>2 DEF Overwrite
    <2> QED BY <2>1, <2>2, WriteStep
<1>3. CASE Remove(x)
    <2>1. rows[x] # None
        BY <1>3 DEF Remove, OnRecord
    <2>2. [rows[x] EXCEPT !.status = "deleted"] \in Row
        BY <1>1, <2>1 DEF Row
    <2>3. rows' = [rows EXCEPT ![x] = [rows[x] EXCEPT !.status = "deleted"]] /\ past' = past
        BY <1>3 DEF Remove
    <2>4. /\ rows'[x] = [rows[x] EXCEPT !.status = "deleted"]
          /\ \A y \in Manifests \ {x} : rows'[y] = rows[y]
        BY <2>3 DEF TablesType, Table
    <2>5. rows'[x].status = "deleted" /\ rows'[x].version = rows[x].version /\ rows'[x] # None
        BY <1>1, <2>1, <2>2, <2>4, NoneIsNoRow DEF Row
    <2>6. TablesType'
        BY <2>2, <2>3 DEF TablesType, Table
    <2>7. Current'
        BY <2>3, <2>4, <2>5 DEF Current, OnRecord
    <2>8. \A y \in Manifests : rows[y] # None => rows[y].version \in Nat
        BY VersionsAreBounded DEF TablesType, Table, Row
    <2>9. Grows
        BY <2>1, <2>3, <2>4, <2>5, <2>8 DEF Grows, WasTrue
    <2> QED BY <2>6, <2>7, <2>9
<1>4. CASE Add(x)
    BY <1>4, AddStep
<1> QED BY <1>2, <1>3, <1>4 DEF Others

-----------------------------------------------------------------------------
(* What was read stays true while the table grows.                         *)

LEMMA TrueTableStays ==
    ASSUME Grows, NEW T \in Table, TrueTable(T)
    PROVE  TrueTable(T)'
BY DEF TrueTable, Table, Grows

LEMMA TrueDialogStays ==
    ASSUME Grows, NEW d \in Dialog, TrueDialog(d)
    PROVE  TrueDialog(d)'
BY DEF TrueDialog, Dialog, Grows

LEMMA PassedStays ==
    ASSUME TablesType, TablesType', Grows, NEW d \in Dialog, Passed(d)
    PROVE  Passed(d)'
<1>1. d.manifest \in Manifests /\ d.row.version \in Nat
    BY VersionsAreBounded DEF Dialog, Row
<1>2. rows[d.manifest] # None /\ rows'[d.manifest] # None
      /\ rows[d.manifest].version <= rows'[d.manifest].version
    BY <1>1 DEF Grows, Passed
<1>3. rows[d.manifest].version \in Nat /\ rows'[d.manifest].version \in Nat
    BY <1>1, <1>2, VersionsAreBounded DEF TablesType, Table, Row
<1> QED BY <1>1, <1>2, <1>3 DEF Passed

LEMMA CallStays ==
    ASSUME TablesType, TablesType', Grows, NEW k \in Call, CallOK(k)
    PROVE  CallOK(k)'
<1>1. /\ k.dialog # None => k.dialog \in Dialog
      /\ k.table # None => k.table \in Table
    BY DEF Call
<1>2. k.dialog # None => TrueDialog(k.dialog)'
    BY <1>1, TrueDialogStays DEF CallOK
<1>3. /\ k.table # None => TrueTable(k.table)'
      /\ k.stage = "get" /\ k.answer = "ok" => TrueTable(k.table)'
    BY <1>1, TrueTableStays DEF CallOK
<1>4. k.flow = "transition" /\ (k.stage = "get" \/ k.answer = "ok") => Passed(k.dialog)'
    BY <1>1, PassedStays DEF CallOK
<1> QED BY <1>2, <1>3, <1>4 DEF CallOK

\* One slot changes, the others wait.
LEMMA SlotStep ==
    ASSUME TypeOK, TablesType', Grows, \A c \in Calls : CallOK(call[c]),
           NEW c \in Calls, NEW k \in Call, CallOK(k)',
           call' = [call EXCEPT ![c] = k]
    PROVE  /\ call' \in [Calls -> Call]
           /\ call'[c] = k
           /\ \A b \in Calls \ {c} : call'[b] = call[b]
           /\ \A b \in Calls : CallOK(call[b])'
<1>1. call' \in [Calls -> Call] /\ call'[c] = k /\ \A b \in Calls \ {c} : call'[b] = call[b]
    BY DEF TypeOK
<1>2. TablesType
    BY DEF TypeOK, TablesType
<1>3. ASSUME NEW b \in Calls \ {c}
      PROVE  CallOK(call[b])'
    <2>1. PICK j \in Call : j = call[b]
        BY DEF TypeOK
    <2>2. CallOK(j)'
        BY <1>2, <2>1, CallStays
    <2> QED BY <1>1, <2>1, <2>2
<1>4. CallOK(call[c])'
    BY <1>1
<1> QED BY <1>1, <1>3, <1>4

-----------------------------------------------------------------------------
(* The steps of the user, of the server, of the page, and of others.       *)

LEMMA NoCallType == NoCall \in Call
BY VersionsAreBounded DEF NoCall, Call

LEMMA InitInv == Init => IInv
<1> SUFFICES ASSUME Init PROVE IInv
    OBVIOUS
<1>1. [status |-> "draft", version |-> 1] \in Row /\ [status |-> "draft", version |-> 1] # None
    BY NoneIsNoRow, VersionsAreBounded DEF Row, Statuses
<1>3. TypeOK
    BY <1>1, NoCallType DEF Init, TypeOK, Table, Statuses
<1>4. Current
    BY <1>1, VersionFacts DEF Init, Current, OnRecord
<1>5. PageOK /\ SpinnerMeansWaiting
    BY DEF Init, PageOK, TrueTable, SpinnerMeansWaiting
<1>6. CallOK(NoCall)
    BY DEF CallOK, NoCall
<1>7. \A c \in Calls : CallOK(call[c])
    BY <1>6 DEF Init
<1> QED BY <1>3, <1>4, <1>5, <1>7 DEF IInv

\* The page, if a step leaves it alone.
LEMMA PageStays ==
    ASSUME TypeOK, PageOK, Grows, UNCHANGED <<items, pending>>
    PROVE  PageOK'
<1>1. TrueTable(items)'
    <2>1. PICK T \in Table : T = items
        BY DEF TypeOK
    <2>2. TrueTable(T)'
        BY <2>1, TrueTableStays DEF PageOK
    <2> QED BY <2>1, <2>2
<1>2. ASSUME pending' # None PROVE TrueDialog(pending)'
    <2>1. PICK d \in Dialog : d = pending
        BY <1>2 DEF TypeOK
    <2>2. TrueDialog(d)'
        BY <1>2, <2>1, TrueDialogStays DEF PageOK
    <2> QED BY <2>1, <2>2
<1> QED BY <1>1, <1>2 DEF PageOK

\* A request leaves the page: the spinner waits for it.
LEMMA SendStep ==
    ASSUME IInv, NEW c \in Calls, NEW k \in Call, k.flow # "none", CallOK(k)',
           Send(c, k), loading' = TRUE, UNCHANGED <<rows, past, items, pending, showCreate>>
    PROVE  IInv'
<1>1. Grows /\ TablesType' /\ Current'
    BY StillStep DEF IInv, TypeOK, TablesType
<1>2. /\ call' \in [Calls -> Call]
      /\ call'[c] = k
      /\ \A b \in Calls : CallOK(call[b])'
    BY <1>1, SlotStep DEF IInv, Send
<1>3. TypeOK'
    BY <1>1, <1>2 DEF IInv, TypeOK, TablesType
<1>4. PageOK'
    BY <1>1, PageStays DEF IInv
<1>5. SpinnerMeansWaiting'
    BY <1>2 DEF SpinnerMeansWaiting, Free
<1> QED BY <1>1, <1>2, <1>3, <1>4, <1>5 DEF IInv

LEMMA LoadInv == IInv /\ Load => IInv'
<1> SUFFICES ASSUME IInv, Load PROVE IInv'
    OBVIOUS
<1>1. PICK c \in Calls, S \in SUBSET Manifests :
         Send(c, [NoCall EXCEPT !.flow = "load", !.wanted = S])
    BY DEF Load
<1> DEFINE k == [NoCall EXCEPT !.flow = "load", !.wanted = S]
<1>2. k \in Call
    BY NoCallType DEF Call
<1>3. k.flow = "load" /\ k.dialog = None /\ k.table = None /\ k.answer = "pending"
    BY DEF NoCall
<1>4. CallOK(k)'
    BY <1>3 DEF CallOK
<1> HIDE DEF k
<1> QED BY <1>1, <1>2, <1>3, <1>4, SendStep DEF Load, k

LEMMA ConfirmInv == IInv /\ Confirm => IInv'
<1> SUFFICES ASSUME IInv, Confirm PROVE IInv'
    OBVIOUS
<1>1. PICK d \in Dialog : d = pending /\ d # None
    BY DEF IInv, TypeOK, Confirm
<1> DEFINE k == [NoCall EXCEPT !.flow = "transition", !.stage = "post",
                    !.dialog = d, !.expectedVersion = d.row.version]
<1>2. PICK c \in Calls : Send(c, k)
    BY <1>1 DEF Confirm, PostTransition
<1>3. d.row.version \in 0 .. MaxVersion
    BY VersionsAreBounded DEF Dialog, Row
<1>4. k \in Call
    BY <1>3 DEF NoCall, Call
<1>5. k.flow = "transition" /\ k.stage = "post" /\ k.dialog = d /\ k.table = None
      /\ k.expectedVersion = d.row.version /\ k.answer = "pending"
    BY DEF NoCall
<1>6. Grows /\ TrueDialog(d)
    BY <1>1, StillStep DEF IInv, TypeOK, TablesType, PageOK, Confirm, PostTransition
<1>7. TrueDialog(d)'
    BY <1>6, TrueDialogStays
<1>8. CallOK(k)'
    BY <1>1, <1>5, <1>7 DEF CallOK
<1> HIDE DEF k
<1> QED BY <1>2, <1>4, <1>5, <1>8, SendStep DEF Confirm, PostTransition

LEMMA CreateDemoInv == IInv /\ CreateDemo => IInv'
<1> SUFFICES ASSUME IInv, CreateDemo PROVE IInv'
    OBVIOUS
<1> DEFINE k == [NoCall EXCEPT !.flow = "create", !.stage = "post"]
<1>1. PICK c \in Calls : Send(c, k)
    BY DEF CreateDemo
<1>2. k \in Call
    BY NoCallType DEF Call
<1>3. k.flow = "create" /\ k.stage = "post" /\ k.dialog = None /\ k.table = None
    BY DEF NoCall
<1>4. CallOK(k)'
    BY <1>3 DEF CallOK
<1> HIDE DEF k
<1> QED BY <1>1, <1>2, <1>3, <1>4, SendStep DEF CreateDemo

\* The steps that touch the dialogs only.
LEMMA DialogInv ==
    ASSUME IInv,
           OpenOrCloseCreate \/ CloseTransition \/ \E x \in Manifests : OpenTransition(x)
    PROVE  IInv'
<1>1. UNCHANGED <<rows, past, items, loading, call>>
    BY DEF OpenOrCloseCreate, CloseTransition, OpenTransition
<1>2. Grows /\ TablesType' /\ Current'
    BY <1>1, StillStep DEF IInv, TypeOK, TablesType
<1>3. \A c \in Calls : CallOK(call[c])'
    BY <1>1 DEF IInv, CallOK, TrueDialog, TrueTable, WasTrue, Passed
<1>4. SpinnerMeansWaiting'
    BY <1>1 DEF IInv, SpinnerMeansWaiting, Free
<1>5. TrueTable(items)'
    BY <1>1 DEF IInv, PageOK, TrueTable, WasTrue
<1>6. showCreate' \in BOOLEAN /\ pending' \in Dialog \cup {None} /\ (pending' # None => TrueDialog(pending)')
    <2>1. CASE OpenOrCloseCreate
        BY <1>1, <2>1 DEF OpenOrCloseCreate, IInv, TypeOK, PageOK, TrueDialog, WasTrue
    <2>2. CASE CloseTransition
        BY <2>2 DEF CloseTransition, IInv, TypeOK
    <2>3. ASSUME NEW x \in Manifests, OpenTransition(x)
          PROVE  showCreate' \in BOOLEAN /\ pending' \in Dialog \cup {None} /\ (pending' # None => TrueDialog(pending)')
        <3>1. PICK to \in Statuses : pending' = [manifest |-> x, row |-> items[x], to |-> to]
            BY <2>3 DEF OpenTransition
        <3>2. items[x] \in Row /\ WasTrue(x, items[x])
            BY <2>3 DEF OpenTransition, IInv, TypeOK, Table, PageOK, TrueTable
        <3>3. pending' \in Dialog /\ pending'.manifest = x /\ pending'.row = items[x]
            BY <3>1, <3>2 DEF Dialog
        <3>4. TrueDialog(pending)'
            BY <1>1, <3>2, <3>3 DEF TrueDialog, WasTrue
        <3> QED BY <2>3, <3>3, <3>4 DEF OpenTransition, IInv, TypeOK
    <2> QED BY <2>1, <2>2, <2>3
<1>7. TypeOK'
    BY <1>1, <1>6 DEF IInv, TypeOK
<1> QED BY <1>2, <1>3, <1>4, <1>5, <1>6, <1>7 DEF IInv, PageOK

\* A request is served: its slot goes on, the page waits.
LEMMA ServedStep ==
    ASSUME IInv, NEW c \in Calls, NEW k \in Call, k.flow # "none", CallOK(k)',
           call' = [call EXCEPT ![c] = k], Grows, TablesType', Current',
           UNCHANGED <<items, loading, pending, showCreate>>
    PROVE  IInv'
<1>1. /\ call' \in [Calls -> Call]
      /\ call'[c] = k
      /\ \A b \in Calls : CallOK(call[b])'
    BY SlotStep DEF IInv
<1>2. TypeOK'
    BY <1>1 DEF IInv, TypeOK, TablesType
<1>3. PageOK'
    BY PageStays DEF IInv
<1>4. SpinnerMeansWaiting'
    BY <1>1 DEF SpinnerMeansWaiting, Free
<1> QED BY <1>1, <1>2, <1>3, <1>4 DEF IInv

LEMMA SlotType ==
    ASSUME IInv, NEW c \in Calls
    PROVE  call[c] \in Call /\ CallOK(call[c]) /\ TablesType /\ Current
BY DEF IInv, TypeOK, TablesType

LEMMA ServeTransitionInv ==
    ASSUME IInv, NEW c \in Calls, ServeTransition(c), UNCHANGED <<items, loading, pending, showCreate>>
    PROVE  IInv'
<1>1. PICK j \in Call : j = call[c]
    BY SlotType
<1>2. PICK answer \in {"ok", "failed"} : call' = [call EXCEPT ![c] = [j EXCEPT !.answer = answer]]
    BY <1>1 DEF ServeTransition, Answer
<1> DEFINE k == [j EXCEPT !.answer = answer]
<1>3. j.flow = "transition" /\ j.stage = "post" /\ CallOK(j) /\ TablesType
    BY <1>1, SlotType DEF ServeTransition, Serving
<1>4. PICK d \in Dialog : d = j.dialog /\ j.expectedVersion = d.row.version /\ d # None
    BY <1>3 DEF CallOK, Call
<1>5. d.manifest \in Manifests /\ d.to \in Statuses /\ d.row.version \in 0 .. MaxVersion
    BY VersionsAreBounded DEF Dialog, Row
<1>6. Move(d.manifest, d.row.version, d.to)
    BY <1>1, <1>4 DEF ServeTransition
<1>7. Grows /\ TablesType' /\ Current'
    BY <1>5, <1>6, MoveStep, SlotType
<1>8. Passed(d)'
    <2>1. rows'[d.manifest] = [status |-> d.to, version |-> d.row.version + 1]
        BY <1>3, <1>5, <1>6 DEF Move, Write, TablesType, Table
    <2>2. rows'[d.manifest] # None
        BY <1>5, <1>6, <1>7 DEF Grows, Move, OnRecord
    <2> QED BY <1>5, <2>1, <2>2, VersionsAreBounded DEF Passed
<1>9. CallOK(j)'
    BY <1>3, <1>7, CallStays
<1>10. k \in Call
    BY DEF Call
<1>11. /\ k.flow = "transition" /\ k.stage = "post" /\ k.dialog = d
       /\ k.table = j.table /\ k.expectedVersion = j.expectedVersion
    BY <1>3, <1>4 DEF Call
<1>12. CallOK(k)'
    BY <1>3, <1>4, <1>8, <1>9, <1>11 DEF CallOK
<1> HIDE DEF k
<1> QED BY <1>2, <1>7, <1>10, <1>11, <1>12, ServedStep DEF k

LEMMA ServeCreateInv ==
    ASSUME IInv, NEW c \in Calls, ServeCreate(c), UNCHANGED <<items, loading, pending, showCreate>>
    PROVE  IInv'
<1>1. PICK j \in Call : j = call[c]
    BY SlotType
<1>2. PICK answer \in {"ok", "failed"} : call' = [call EXCEPT ![c] = [j EXCEPT !.answer = answer]]
    BY <1>1 DEF ServeCreate, Answer
<1> DEFINE k == [j EXCEPT !.answer = answer]
<1>3. j.flow = "create" /\ j.stage = "post" /\ CallOK(j)
    BY <1>1, SlotType DEF ServeCreate, Serving
<1>4. Grows /\ TablesType' /\ Current'
    BY AddStep, SlotType DEF ServeCreate
<1>5. CallOK(j)'
    BY <1>3, <1>4, CallStays, SlotType
<1>6. k \in Call
    BY DEF Call
<1>7. k.flow = "create" /\ k.stage = "post" /\ k.dialog = j.dialog /\ k.table = j.table
    BY <1>3 DEF Call
<1>8. CallOK(k)'
    BY <1>5, <1>7 DEF CallOK
<1> HIDE DEF k
<1> QED BY <1>2, <1>4, <1>6, <1>7, <1>8, ServedStep DEF k

\* A list holds true rows; a transition's own is later than its dialog's.
LEMMA ServeListInv ==
    ASSUME IInv, NEW c \in Calls, ServeList(c), UNCHANGED <<items, loading, pending, showCreate>>
    PROVE  IInv'
<1>1. PICK j \in Call : j = call[c]
    BY SlotType
<1>2. PICK T \in Table : T = [x \in Manifests |-> IF x \in j.wanted /\ OnRecord(x) THEN rows[x] ELSE None]
    BY SlotType DEF TablesType, Table
<1>3. PICK k : k = [j EXCEPT !.answer = "ok", !.table = T]
    OBVIOUS
<1>4. call' = [call EXCEPT ![c] = k]
    BY <1>1, <1>2, <1>3 DEF ServeList
<1>5. j.flow # "none" /\ j.stage = "get" /\ CallOK(j)
    BY <1>1, SlotType DEF ServeList, Serving
<1>6. Grows /\ TablesType' /\ Current' /\ UNCHANGED <<rows, past>>
    BY StillStep, SlotType DEF ServeList
<1>7. TrueTable(T)
    <2> SUFFICES ASSUME NEW x \in Manifests, T[x] # None
                 PROVE  WasTrue(x, T[x])
        BY DEF TrueTable
    <2>1. OnRecord(x) /\ T[x] = rows[x]
        BY <1>2
    <2>2. rows[x] # None /\ rows[x].status = past[x][rows[x].version] /\ rows[x].version \in Nat
        BY <2>1, SlotType, VersionsAreBounded DEF Current, OnRecord, TablesType, Table, Row
    <2> QED BY <2>1, <2>2 DEF WasTrue
<1>8. TrueTable(T)' /\ CallOK(j)'
    BY <1>5, <1>6, <1>7, TrueTableStays, CallStays, SlotType
<1>9. ASSUME j.flow = "transition"
      PROVE  T[j.dialog.manifest] # None => j.dialog.row.version < T[j.dialog.manifest].version
    <2>1. Passed(j.dialog) /\ j.dialog \in Dialog
        BY <1>5, <1>9 DEF CallOK, Call
    <2> QED BY <1>2, <2>1 DEF Passed, Dialog
<1>10. k \in Call
    BY <1>3 DEF Call
<1>11. /\ k.flow = j.flow /\ k.stage = "get" /\ k.dialog = j.dialog
       /\ k.table = T /\ k.answer = "ok"
    BY <1>3, <1>5 DEF Call
<1>12. CallOK(k)'
    BY <1>5, <1>8, <1>9, <1>11 DEF CallOK
<1> QED BY <1>4, <1>5, <1>6, <1>10, <1>11, <1>12, ServedStep

LEMMA FailInv ==
    ASSUME IInv, NEW c \in Calls, Fail(c), UNCHANGED <<items, loading, pending, showCreate>>
    PROVE  IInv'
<1>1. PICK j \in Call : j = call[c]
    BY SlotType
<1> DEFINE k == [j EXCEPT !.answer = "failed"]
<1>2. call' = [call EXCEPT ![c] = k]
    BY <1>1 DEF Fail, Answer
<1>3. j.flow # "none" /\ CallOK(j)
    BY <1>1, SlotType DEF Fail, Free
<1>4. Grows /\ TablesType' /\ Current'
    BY StillStep, SlotType DEF Fail
<1>5. CallOK(j)'
    BY <1>3, <1>4, CallStays, SlotType
<1>6. k \in Call
    BY DEF Call
<1>7. /\ k.flow = j.flow /\ k.stage = j.stage /\ k.dialog = j.dialog /\ k.table = j.table
      /\ k.expectedVersion = j.expectedVersion /\ k.answer = "failed"
    BY DEF Call
<1>8. CallOK(k)'
    BY <1>5, <1>7 DEF CallOK
<1> HIDE DEF k
<1> QED BY <1>2, <1>3, <1>4, <1>6, <1>7, <1>8, ServedStep

LEMMA ServeInv == ASSUME IInv, NEW c \in Calls, Serve(c) PROVE IInv'
BY ServeTransitionInv, ServeCreateInv, ServeListInv, FailInv DEF Serve

LEMMA DeliverPostInv ==
    ASSUME IInv, NEW c \in Calls, DeliverPost(c), UNCHANGED <<rows, past>>
    PROVE  IInv'
<1>1. PICK j \in Call : j = call[c]
    BY SlotType
<1>s. PICK S \in SUBSET Manifests :
         call' = [call EXCEPT ![c].stage = "get", ![c].answer = "pending", ![c].wanted = S]
    BY DEF DeliverPost, Reload
<1> DEFINE k == [j EXCEPT !.stage = "get", !.answer = "pending", !.wanted = S]
<1>2. call' = [call EXCEPT ![c] = k]
    BY <1>1, <1>s
<1>3. j.stage = "post" /\ j.answer = "ok" /\ CallOK(j)
    BY <1>1, SlotType DEF DeliverPost, PostAnswered
<1>4. Grows /\ TablesType' /\ Current'
    BY StillStep, SlotType
<1>5. CallOK(j)'
    BY <1>3, <1>4, CallStays, SlotType
<1>6. k \in Call
    BY DEF Call
<1>7. /\ k.flow = j.flow /\ k.flow # "none" /\ k.stage = "get" /\ k.dialog = j.dialog
      /\ k.table = j.table /\ k.answer = "pending"
    BY <1>3 DEF Call, CallOK
<1>8. CallOK(k)'
    BY <1>3, <1>5, <1>7 DEF CallOK
<1> HIDE DEF k
<1>9. /\ call' \in [Calls -> Call]
      /\ call'[c] = k
      /\ \A b \in Calls : CallOK(call[b])'
    BY <1>2, <1>4, <1>6, <1>8, SlotStep DEF IInv
<1>10. TypeOK'
    BY <1>4, <1>9 DEF IInv, TypeOK, TablesType, DeliverPost, Reload
<1>11. PageOK'
    BY <1>4, PageStays DEF IInv, DeliverPost
<1>12. SpinnerMeansWaiting'
    BY <1>7, <1>9 DEF SpinnerMeansWaiting, Free
<1> QED BY <1>4, <1>9, <1>10, <1>11, <1>12 DEF IInv

\* A slot is free again, and the spinner gone.
LEMMA FreedStep ==
    ASSUME IInv, NEW c \in Calls, call' = [call EXCEPT ![c] = NoCall],
           loading' = FALSE, UNCHANGED <<rows, past>>,
           items' \in Table, pending' \in Dialog \cup {None}, showCreate' \in BOOLEAN, PageOK'
    PROVE  IInv'
<1>1. Grows /\ TablesType' /\ Current'
    BY StillStep, SlotType
<1>2. CallOK(NoCall)'
    BY DEF CallOK, NoCall
<1>3. call' \in [Calls -> Call] /\ \A b \in Calls : CallOK(call[b])'
    BY <1>1, <1>2, NoCallType, SlotStep DEF IInv
<1>4. TypeOK'
    BY <1>1, <1>3 DEF TypeOK, TablesType
<1> QED BY <1>1, <1>3, <1>4 DEF IInv, SpinnerMeansWaiting

LEMMA DeliverPostFailureInv ==
    ASSUME IInv, NEW c \in Calls, DeliverPostFailure(c), UNCHANGED <<rows, past>>
    PROVE  IInv'
<1>1. PageOK'
    BY StillStep, SlotType, PageStays DEF IInv, DeliverPostFailure
<1> QED BY <1>1, FreedStep DEF DeliverPostFailure, IInv, TypeOK

LEMMA DeliverListInv ==
    ASSUME IInv, NEW c \in Calls, DeliverList(c), UNCHANGED <<rows, past>>
    PROVE  IInv'
<1>1. CallOK(call[c]) /\ call[c] \in Call /\ Grows
    BY StillStep, SlotType
<1>2. items' \in Table /\ TrueTable(items)'
    <2>1. PICK T \in Table : T = items'
        BY <1>1 DEF DeliverList, IInv, TypeOK, CallOK
    <2>2. TrueTable(T)
        <3>1. CASE call[c].answer = "ok" /\ T = call[c].table
            BY <1>1, <3>1 DEF CallOK, DeliverList
        <3>2. CASE T = items
            BY <3>2 DEF IInv, PageOK
        <3> QED BY <2>1, <3>1, <3>2 DEF DeliverList
    <2>3. TrueTable(T)'
        BY <1>1, <2>2, TrueTableStays
    <2> QED BY <2>1, <2>3
<1>3. pending' \in Dialog \cup {None} /\ (pending' # None => TrueDialog(pending)')
    <2>1. CASE pending' = None
        BY <2>1
    <2>2. CASE pending' = pending
        BY <2>2 DEF IInv, TypeOK, PageOK, TrueDialog, WasTrue
    <2> QED BY <2>1, <2>2 DEF DeliverList
<1>4. PageOK'
    BY <1>2, <1>3 DEF PageOK
<1> QED BY <1>2, <1>3, <1>4, FreedStep DEF DeliverList, IInv, TypeOK

LEMMA DeliverInv == ASSUME IInv, NEW c \in Calls, Deliver(c) PROVE IInv'
BY DeliverPostInv, DeliverPostFailureInv, DeliverListInv DEF Deliver

LEMMA OthersInv == ASSUME IInv, NEW x \in Manifests, Others(x) PROVE IInv'
<1>1. Grows /\ TablesType' /\ Current' /\ UNCHANGED <<items, loading, pending, showCreate, call>>
    BY OthersStep DEF IInv, TypeOK, TablesType, Others
<1>2. \A c \in Calls : CallOK(call[c])'
    <2> SUFFICES ASSUME NEW c \in Calls PROVE CallOK(call[c])'
        OBVIOUS
    <2>1. PICK j \in Call : j = call[c]
        BY SlotType
    <2>2. CallOK(j)'
        BY <1>1, <2>1, CallStays, SlotType
    <2> QED BY <1>1, <2>1, <2>2
<1>3. PageOK'
    BY <1>1, PageStays DEF IInv
<1>4. TypeOK'
    BY <1>1 DEF IInv, TypeOK, TablesType
<1> QED BY <1>1, <1>2, <1>3, <1>4 DEF IInv, SpinnerMeansWaiting, Free

LEMMA NextInv == IInv /\ [Next]_vars => IInv'
<1> SUFFICES ASSUME IInv, [Next]_vars PROVE IInv'
    OBVIOUS
<1>1. CASE UNCHANGED vars
    BY <1>1 DEF vars, IInv, TypeOK, Current, OnRecord, PageOK, TrueTable, TrueDialog, WasTrue,
                CallOK, Passed, SpinnerMeansWaiting, Free
<1> QED BY <1>1, LoadInv, ConfirmInv, CreateDemoInv, DialogInv, ServeInv, DeliverInv, OthersInv
        DEF Next

-----------------------------------------------------------------------------

\* The invariant the theorems below rest on: versions only grow, a version keeps
\* its status, and what the page and its requests carry was in the table.
THEOREM Invariance == Spec => []IInv
<1>1. Init => IInv
    BY InitInv
<1>2. IInv /\ [Next]_vars => IInv'
    BY NextInv
<1> QED BY <1>1, <1>2, PTL DEF Spec

\* The state of the page and of the table keeps its type.
THEOREM TypeCorrect == Spec => []TypeOK
<1>1. IInv => TypeOK
    BY DEF IInv
<1> QED BY <1>1, Invariance, PTL

\* What the page shows, and what is on its way to it, was in the table.
THEOREM NothingShownIsWrong == Spec => []StaleButTrue
<1>1. IInv => StaleButTrue
    BY DEF IInv, PageOK, CallOK, TrueTable, TrueDialog, StaleButTrue
<1> QED BY <1>1, Invariance, PTL

\* The spinner is shown only while a request of the page is in flight.
THEOREM NoSpinnerIsLeftBehind == Spec => []SpinnerMeansWaiting
<1>1. IInv => SpinnerMeansWaiting
    BY DEF IInv
<1> QED BY <1>1, Invariance, PTL

\* A confirmed transition is applied to the row the dialog showed, or not at all.
THEOREM ConfirmedIsApplied == Spec => AppliedAsShown
<1> DEFINE Applied(c) ==
              Serving(c, "transition", "post") /\ call'[c].answer # "pending" /\ rows' # rows =>
                  LET d == call[c].dialog IN
                  /\ rows[d.manifest] = d.row
                  /\ rows'[d.manifest].status = d.to
           A == \A c \in Calls : Applied(c)
<1>1. IInv /\ [Next]_vars => [A]_vars
    <2> SUFFICES ASSUME IInv, Next, NEW c \in Calls, Serving(c, "transition", "post"),
                        call'[c].answer # "pending", rows' # rows
                 PROVE  /\ rows[call[c].dialog.manifest] = call[c].dialog.row
                        /\ rows'[call[c].dialog.manifest].status = call[c].dialog.to
        BY DEF vars
    <2>1. ServeTransition(c)
        <3>1. call'[c] # call[c]
            BY DEF Serving
        <3>2. PICK b \in Calls : Serve(b)
            BY <3>1 DEF Next, Load, CloseTransition, Confirm, PostTransition, OpenOrCloseCreate, CreateDemo,
                        OpenTransition, Others, Deliver
        <3>3. ServeTransition(b) \/ ServeCreate(b)
            BY <3>2 DEF Serve, ServeList, Fail
        <3>4. b = c
            BY <3>1, <3>3 DEF ServeTransition, ServeCreate, Answer, IInv, TypeOK
        <3> QED BY <3>3, <3>4 DEF ServeCreate, Serving
    <2>2. PICK j \in Call : j = call[c] /\ CallOK(j)
        BY SlotType
    <2>3. PICK d \in Dialog : d = j.dialog /\ j.expectedVersion = d.row.version /\ TrueDialog(d)
        BY <2>1, <2>2 DEF ServeTransition, Serving, CallOK, Call
    <2>4. d.manifest \in Manifests /\ d.row \in Row
        BY DEF Dialog
    <2>5. Move(d.manifest, d.row.version, d.to)
        BY <2>1, <2>2, <2>3 DEF ServeTransition
    <2>6. rows[d.manifest] \in Row /\ rows[d.manifest].version = d.row.version
        BY <2>4, <2>5, SlotType DEF Move, OnRecord, TablesType, Table
    <2>7. rows[d.manifest].status = d.row.status
        BY <2>3, <2>4, <2>5, <2>6, SlotType DEF Move, Current, TrueDialog, WasTrue
    <2>8. rows[d.manifest] = d.row
        BY <2>4, <2>6, <2>7 DEF Row
    <2>9. rows'[d.manifest].status = d.to
        BY <2>4, <2>5, SlotType DEF Move, Write, TablesType, Table
    <2> QED BY <2>2, <2>3, <2>8, <2>9
<1>2. Spec => [][A]_vars
    BY <1>1, Invariance, PTL DEF Spec
<1> QED BY <1>2 DEF AppliedAsShown

\* When a transition is over, the page is past what its dialog showed.
THEOREM WritesAreRead == Spec => ReadYourWrites
<1> DEFINE A == \A c \in Calls :
              call[c].flow = "transition" /\ call[c].answer = "ok" /\ call'[c] = NoCall =>
                  LET d == call[c].dialog IN
                  items'[d.manifest] # None => items'[d.manifest].version > d.row.version
<1>1. IInv /\ [Next]_vars => [A]_vars
    <2> SUFFICES ASSUME IInv, Next, NEW c \in Calls,
                        call[c].flow = "transition", call[c].answer = "ok", call'[c] = NoCall,
                        items'[call[c].dialog.manifest] # None
                 PROVE  items'[call[c].dialog.manifest].version > call[c].dialog.row.version
        BY DEF vars
    <2>1. DeliverList(c)
        <3>1. call'[c] # call[c]
            BY DEF NoCall
        <3>2. call'[c].flow = "none" /\ call'[c].answer = "pending"
            BY DEF NoCall
        <3>3. PICK b \in Calls : Serve(b) \/ Deliver(b)
            BY <3>1 DEF Next, Load, CloseTransition, Confirm, PostTransition, OpenOrCloseCreate, CreateDemo,
                        OpenTransition, Others, Send, Free, IInv, TypeOK
        <3>4. ~Serve(b)
            BY <3>2 DEF Serve, ServeTransition, ServeCreate, ServeList, Fail, Answer, IInv, TypeOK, Call
        <3>5. ~DeliverPost(b)
            BY <3>2 DEF DeliverPost, Reload, IInv, TypeOK, Call
        <3>6. DeliverPostFailure(b) \/ DeliverList(b)
            BY <3>3, <3>4, <3>5 DEF Deliver
        <3>7. b = c
            BY <3>1, <3>6 DEF DeliverPostFailure, DeliverList, IInv, TypeOK
        <3> QED BY <3>6, <3>7 DEF DeliverPostFailure, PostAnswered
    <2>2. PICK j \in Call : j = call[c] /\ CallOK(j)
        BY SlotType
    <2>3. items' = j.table /\ j.stage = "get"
        BY <2>1, <2>2 DEF DeliverList
    <2>4. j.dialog \in Dialog /\ j.table \in Table
        BY <2>2, <2>3 DEF CallOK, Call
    <2>5. j.dialog.row.version < j.table[j.dialog.manifest].version
        BY <2>2, <2>3 DEF CallOK
    <2> QED BY <2>2, <2>3, <2>4, <2>5, VersionsAreBounded DEF Dialog, Table, Row
<1>2. Spec => [][A]_vars
    BY <1>1, Invariance, PTL DEF Spec
<1> QED BY <1>2 DEF ReadYourWrites
=============================================================================
