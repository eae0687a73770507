--------------------------- MODULE StartupProofs ----------------------------
(***************************************************************************)
(* Proofs about Startup, for every set of codes, any number of attempts    *)
(* and of interruptions.                                                   *)
(***************************************************************************)
EXTENDS Startup, TLAPS

(***************************************************************************)
(* The inductive invariant.  Requests run only on a server that has seeded *)
(* every table, so while a seeded code is still absent no request has ever *)
(* run: nothing is deleted and nothing but seeds is on record (Untouched). *)
(* Behind the table that is being seeded all are seeded (Behind).          *)
(***************************************************************************)
Seeded(t) == \A c \in Seeds[t] : phase[c] # "absent"

Untouched ==
    (\E c \in AllSeeds : phase[c] = "absent") =>
        /\ pc # "serving"
        /\ \A c \in Codes : phase[c] # "deleted"
        /\ \A c \in AllExtra : phase[c] = "absent"

Behind ==
    /\ pc \in {"count", "insert"} => \A i \in 1 .. next - 1 : Seeded(SeedOrder[i])
    /\ pc \in {"redis", "serving"} => \A t \in Tables : Seeded(t)

SInv == TypeOK /\ SeededAsAWhole /\ Untouched /\ Behind

-----------------------------------------------------------------------------

LEMMA Order ==
    /\ Len(SeedOrder) = 5
    /\ \A i \in 1 .. 5 : SeedOrder[i] \in Tables
    /\ \A t \in Tables : \E i \in 1 .. 5 : SeedOrder[i] = t
    /\ \A i, j \in 1 .. 5 : SeedOrder[i] = SeedOrder[j] => i = j
BY DEF SeedOrder, Tables

LEMMA CodesOf ==
    /\ \A t \in Tables : Seeds[t] \subseteq AllSeeds /\ Extra[t] \subseteq AllExtra
    /\ AllSeeds \subseteq Codes /\ AllExtra \subseteq Codes
    /\ \A c \in AllSeeds : \E t \in Tables : c \in Seeds[t]
BY DEF AllSeeds, AllExtra, Codes

\* Going on behind a table that is seeded.
LEMMA GoOnStep ==
    ASSUME SInv, pc \in {"count", "insert"}, GoOn,
           NEW table, table = SeedOrder[next], Seeded(table)',
           \A t \in Tables : Seeded(t) => Seeded(t)'
    PROVE  /\ pc' \in {"count", "redis"}
           /\ next' \in 1 .. Len(SeedOrder)
           /\ Behind'
<1>1. next \in 1 .. 5
    BY Order DEF SInv, TypeOK
<1>2. \A i \in 1 .. next - 1 : Seeded(SeedOrder[i])
    BY DEF SInv, Behind
<1>3. \A i \in 1 .. next : Seeded(SeedOrder[i])'
    <2> SUFFICES ASSUME NEW i \in 1 .. next PROVE Seeded(SeedOrder[i])'
        OBVIOUS
    <2>1. CASE i = next
        BY <2>1
    <2>2. CASE i # next
        <3>1. i \in 1 .. next - 1 /\ i \in 1 .. 5
            BY <1>1, <2>2
        <3>2. SeedOrder[i] \in Tables /\ Seeded(SeedOrder[i])
            BY <1>2, <3>1, Order
        <3> QED BY <3>2
    <2> QED BY <2>1, <2>2
<1>4. CASE next < 5
    <2>1. pc' = "count" /\ next' = next + 1 /\ next + 1 \in 1 .. 5
        BY <1>1, <1>4, Order DEF GoOn
    <2>2. next' - 1 = next
        BY <1>1, <2>1
    <2>3. \A i \in 1 .. next' - 1 : Seeded(SeedOrder[i])'
        BY <1>3, <2>2
    <2> QED BY <2>1, <2>3, Order DEF Behind
<1>5. CASE next = 5
    <2>1. pc' = "redis" /\ next' = next
        BY <1>5, Order DEF GoOn
    <2>2. ASSUME NEW t \in Tables PROVE Seeded(t)'
        <3>1. PICK i \in 1 .. 5 : SeedOrder[i] = t
            BY Order
        <3>2. i \in 1 .. next
            BY <1>5
        <3> QED BY <1>3, <3>1, <3>2
    <2> QED BY <1>1, <2>1, <2>2, Order DEF Behind
<1> QED BY <1>1, <1>4, <1>5

\* Which steps change the tables.
LEMMA CountStep ==
    ASSUME SInv, Count
    PROVE  SInv'
<1>1. next \in 1 .. 5 /\ SeedOrder[next] \in Tables
    BY Order DEF SInv, TypeOK
<1>2. phase' = phase /\ \A t \in Tables : Seeded(t) => Seeded(t)'
    BY DEF Count, Seeded
<1>3. pc' \in {"count", "insert", "redis"} /\ next' \in 1 .. Len(SeedOrder) /\ Behind'
    <2>1. CASE (\E c \in InTable(SeedOrder[next]) : phase[c] = "live") /\ GoOn
        <3>1. PICK t \in Tables : t = SeedOrder[next]
            BY <1>1
        <3>2. PICK c \in InTable(t) : phase[c] = "live"
            BY <2>1, <3>1
        <3>3. Seeded(t)
            <4>1. CASE c \in Seeds[t]
                BY <3>2, <4>1 DEF SInv, SeededAsAWhole, Seeded
            <4>2. CASE c \in Extra[t]
                <5>1. \A d \in AllSeeds : phase[d] # "absent"
                    BY <3>2, <4>2, CodesOf DEF SInv, Untouched
                <5> QED BY <5>1, CodesOf DEF Seeded
            <4> QED BY <3>2, <4>1, <4>2 DEF InTable
        <3>4. Seeded(t)'
            BY <1>2, <3>3
        <3>5. pc = "count"
            BY DEF Count
        <3> QED BY <1>2, <2>1, <3>1, <3>4, <3>5, GoOnStep
    <2>2. CASE pc' = "insert" /\ next' = next
        BY <1>1, <1>2, <2>2, Order DEF SInv, Behind, Count
    <2> QED BY <2>1, <2>2 DEF Count
<1> QED BY <1>2, <1>3 DEF SInv, TypeOK, SeededAsAWhole, Untouched, Count

LEMMA InsertStep ==
    ASSUME SInv, Insert
    PROVE  SInv'
<1>1. next \in 1 .. 5 /\ pc = "insert" /\ UNCHANGED <<attempt, interruptions>>
    BY Order DEF SInv, TypeOK, Insert
<1>2. PICK t \in Tables : t = SeedOrder[next]
    BY <1>1, Order
<1>3. CASE pc' = "down" /\ UNCHANGED <<phase, next>>
    BY <1>1, <1>3 DEF SInv, TypeOK, SeededAsAWhole, Untouched, Behind
<1>4. CASE /\ \A c \in Seeds[t] : phase[c] = "absent"
           /\ phase' = [c \in Codes |-> IF c \in Seeds[t] THEN "live" ELSE phase[c]]
           /\ GoOn
    <2>1. \A c \in Codes : phase'[c] = IF c \in Seeds[t] THEN "live" ELSE phase[c]
        BY <1>4
    <2>2. Seeded(t)' /\ \A s \in Tables : Seeded(s) => Seeded(s)'
        BY <2>1, CodesOf DEF Seeded
    <2>3. pc' \in {"count", "redis"} /\ next' \in 1 .. Len(SeedOrder) /\ Behind'
        BY <1>1, <1>2, <1>4, <2>2, GoOnStep
    <2>4. TypeOK'
        BY <1>1, <1>4, <2>3 DEF SInv, TypeOK
    <2>5. SeededAsAWhole'
        <3> SUFFICES ASSUME NEW s \in Tables, NEW c \in Seeds[s], NEW d \in Seeds[s],
                            phase'[c] = "absent"
                     PROVE  phase'[d] = "absent"
            BY DEF SeededAsAWhole
        <3>1. c \in Codes /\ d \in Codes /\ c \notin Seeds[t] /\ phase[c] = "absent"
            BY <2>1, CodesOf
        <3>2. phase[d] = "absent"
            BY <3>1 DEF SInv, SeededAsAWhole
        <3>3. d \notin Seeds[t]
            BY <3>1, TablesHaveCodes
        <3> QED BY <2>1, <3>1, <3>2, <3>3
    <2>6. Untouched'
        <3> SUFFICES ASSUME NEW c \in AllSeeds, phase'[c] = "absent"
                     PROVE  /\ \A d \in Codes : phase'[d] # "deleted"
                            /\ \A d \in AllExtra : phase'[d] = "absent"
            BY <2>3 DEF Untouched
        <3>1. phase[c] = "absent"
            BY <2>1, CodesOf
        <3>2. /\ \A d \in Codes : phase[d] # "deleted"
              /\ \A d \in AllExtra : phase[d] = "absent"
            BY <3>1 DEF SInv, Untouched
        <3>3. \A d \in AllExtra : d \notin Seeds[t]
            BY CodesOf, TablesHaveCodes
        <3> QED BY <2>1, <3>2, <3>3, CodesOf
    <2> QED BY <2>3, <2>4, <2>5, <2>6 DEF SInv
<1> QED BY <1>2, <1>3, <1>4 DEF Insert

LEMMA RequestKeeps ==
    ASSUME SInv, NEW t \in Tables, NEW c \in InTable(t), Create(t, c) \/ Delete(t, c)
    PROVE  SInv'
<1>1. /\ pc = "serving" /\ c \in Codes
      /\ UNCHANGED <<pc, next, attempt, interruptions>>
      /\ \/ phase' = [phase EXCEPT ![c] = "live"]
         \/ phase' = [phase EXCEPT ![c] = "deleted"]
    BY CodesOf DEF Create, Delete, InTable
<1>2. \A s \in Tables : Seeded(s)
    BY <1>1 DEF SInv, Behind
<1>3. \A d \in AllSeeds : phase[d] # "absent"
    BY <1>2, CodesOf DEF Seeded
<1>4. TypeOK'
    BY <1>1 DEF SInv, TypeOK
<1>5. \A d \in AllSeeds : phase'[d] # "absent"
    BY <1>1, <1>3, CodesOf DEF SInv, TypeOK
<1> QED BY <1>1, <1>4, <1>5, CodesOf
        DEF SInv, SeededAsAWhole, Untouched, Behind, Seeded

LEMMA ServerStep ==
    ASSUME SInv, Start \/ Connect \/ Retry \/ Serve \/ Exit \/ UNCHANGED vars
    PROVE  SInv'
<1>1. phase' = phase
    BY DEF Start, Connect, Retry, Serve, Exit, vars
<1>2. TypeOK'
    BY AttemptsAreFinite, Order
       DEF SInv, TypeOK, Start, Connect, Retry, Serve, Exit, Interrupted, vars
<1>3. SeededAsAWhole'
    BY <1>1 DEF SInv, SeededAsAWhole
<1>4. Behind'
    BY <1>1 DEF SInv, Behind, Seeded, Start, Connect, Retry, Serve, Exit, vars
<1>5. Untouched'
    <2>1. pc' # "serving" \/ pc \in {"redis", "serving"}
        BY DEF Start, Connect, Retry, Serve, Exit, vars
    <2>2. pc \in {"redis", "serving"} => \A c \in AllSeeds : phase[c] # "absent"
        BY CodesOf DEF SInv, Behind, Seeded
    <2> QED BY <1>1, <2>1, <2>2 DEF SInv, Untouched
<1> QED BY <1>2, <1>3, <1>4, <1>5 DEF SInv

LEMMA SInvariance == Spec => []SInv
<1>1. Init => SInv
    BY Order, AttemptsAreFinite, CodesOf
       DEF Init, SInv, TypeOK, SeededAsAWhole, Untouched, Behind
<1>2. SInv /\ [Next]_vars => SInv'
    BY CountStep, InsertStep, RequestKeeps, ServerStep DEF Next, Boot
<1> QED BY <1>1, <1>2, PTL DEF Spec

(***************************************************************************)
(* Every reachable state is well typed; Open's loop ends (database.go 38). *)
(***************************************************************************)
THEOREM StartupTypeCorrect == Spec => []TypeOK
BY SInvariance, PTL DEF SInv

(***************************************************************************)
(* A table is seeded as a whole or not at all, wherever a start is cut     *)
(* short.                                                                  *)
(***************************************************************************)
THEOREM TablesAreSeededAsAWhole == Spec => []SeededAsAWhole
BY SInvariance, PTL DEF SInv

\* Only requests and the insert of a seeding change the tables.
LEMMA OnlyInsertSeeds ==
    ASSUME SInv, [Next]_vars, NEW c \in Codes, phase'[c] # phase[c]
    PROVE  \/ /\ pc = "serving"
              /\ phase'[c] = "live" => c \in AllExtra
           \/ \E t \in Tables :
                 /\ pc = "insert" /\ t = SeedOrder[next]
                 /\ c \in Seeds[t] /\ \A d \in Seeds[t] : phase[d] = "absent"
                 /\ phase' = [d \in Codes |-> IF d \in Seeds[t] THEN "live" ELSE phase[d]]
<1>1. phase \in [Codes -> {"absent", "live", "deleted"}] /\ next \in 1 .. 5
    BY Order DEF SInv, TypeOK
<1>2. CASE Insert
    <2>1. PICK t \in Tables : t = SeedOrder[next]
        BY <1>1, Order
    <2> QED BY <1>1, <1>2, <2>1 DEF Insert
<1>3. ASSUME NEW t \in Tables, NEW d \in InTable(t), Create(t, d) \/ Delete(t, d)
      PROVE  pc = "serving" /\ (phase'[c] = "live" => c \in AllExtra)
    <2>1. CASE Create(t, d)
        BY <1>1, <2>1, CodesOf DEF Create
    <2>2. CASE Delete(t, d)
        BY <1>1, <2>2 DEF Delete
    <2> QED BY <1>3, <2>1, <2>2
<1>4. CASE Start \/ Connect \/ Count \/ Serve \/ Retry \/ Exit \/ UNCHANGED vars
    BY <1>4 DEF Start, Connect, Count, Serve, Retry, Exit, vars
<1> QED BY <1>2, <1>3, <1>4 DEF Next, Boot

(***************************************************************************)
(* A row that a seeding adds finds the rows it names on record.            *)
(***************************************************************************)
THEOREM SeedLinksAlwaysResolve == Spec => SeedLinksResolve
<1>1. ASSUME SInv, [Next]_vars, NEW c \in AllSeeds, phase[c] # "live", phase'[c] = "live",
             NEW l \in Links[c]
      PROVE  phase'[l] = "live"
    <2>1. PICK t \in Tables :
              /\ pc = "insert" /\ t = SeedOrder[next]
              /\ c \in Seeds[t] /\ phase[c] = "absent"
              /\ phase' = [d \in Codes |-> IF d \in Seeds[t] THEN "live" ELSE phase[d]]
        BY <1>1, OnlyInsertSeeds, CodesOf, TablesHaveCodes
    <2>2. next \in 1 .. 5 /\ c \in Seeds[SeedOrder[next]]
        BY <1>1, <2>1, Order DEF SInv, TypeOK
    <2>3. PICK j \in 1 .. next - 1 : l \in Seeds[SeedOrder[j]]
        BY <1>1, <2>2, LinksPointBack
    <2>4. j \in 1 .. 5
        BY <2>2, <2>3
    <2>5. l \in Codes /\ phase[l] # "absent"
        BY <1>1, <2>1, <2>3, <2>4, Order, CodesOf DEF SInv, Behind, Seeded
    <2>6. phase[l] # "deleted"
        BY <1>1, <2>1, <2>5 DEF SInv, Untouched
    <2> QED BY <1>1, <2>1, <2>5, <2>6 DEF SInv, TypeOK
<1>2. SInv /\ [Next]_vars =>
         [\A c \in AllSeeds : phase[c] # "live" /\ phase'[c] = "live"
             => \A l \in Links[c] : phase'[l] = "live"]_vars
    BY <1>1
<1> QED BY <1>2, SInvariance, PTL DEF Spec, SeedLinksResolve

(***************************************************************************)
(* Outside of requests a record changes only by coming into being when its *)
(* table is seeded for the first time.                                     *)
(***************************************************************************)
THEOREM StartsAlwaysKeepRecords == Spec => StartsKeepRecords
<1>1. ASSUME SInv, [Next]_vars, pc # "serving", NEW c \in Codes, phase'[c] # phase[c]
      PROVE  phase[c] = "absent" /\ c \in AllSeeds
    BY <1>1, OnlyInsertSeeds, CodesOf
<1>2. SInv /\ [Next]_vars =>
         [pc # "serving" => \A c \in Codes :
             phase'[c] # phase[c] => phase[c] = "absent" /\ c \in AllSeeds]_vars
    BY <1>1
<1> QED BY <1>2, SInvariance, PTL DEF Spec, StartsKeepRecords
=============================================================================
