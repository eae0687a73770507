------------------------------ MODULE Startup -------------------------------
(***************************************************************************)
(* cmd/server/main.go and database/database.go: the server comes up, seeds *)
(* the tables that have no rows, and serves, over a database that outlives *)
(* it.  It may be stopped between any two of its statements and is started *)
(* again (docker-compose.yml: restart: unless-stopped, one container).     *)
(*                                                                         *)
(* A table is seeded when it has no live row.  The codes it is seeded with *)
(* are fixed, and the unique index knows those of deleted rows too.        *)
(***************************************************************************)
EXTENDS Naturals, Sequences

CONSTANTS
    Seeds,            \* the codes each table is seeded with
    Extra,            \* the codes clients create in each table
    Links,            \* the codes a seeded row names
    MaxAttempts,      \* how often Open tries to connect
    MaxInterruptions  \* bound: crashes, stops and outages

Tables == {"users", "generators", "carriers", "manifests", "checks"}

SeedOrder == <<"users", "generators", "carriers", "manifests", "checks">>

AllSeeds == UNION {Seeds[t] : t \in Tables}
AllExtra == UNION {Extra[t] : t \in Tables}
Codes    == AllSeeds \cup AllExtra

ASSUME TablesHaveCodes ==
    /\ DOMAIN Seeds = Tables /\ DOMAIN Extra = Tables
    /\ AllSeeds \cap AllExtra = {}
    /\ \A s, t \in Tables : s # t => Seeds[s] \cap Seeds[t] = {}

\* A seeded row names rows of the tables before its own.
ASSUME LinksPointBack ==
    \A i \in 1 .. 5 : \A c \in Seeds[SeedOrder[i]] : \A l \in Links[c] :
        \E j \in 1 .. i - 1 : l \in Seeds[SeedOrder[j]]

ASSUME AttemptsAreFinite == MaxAttempts \in Nat \ {0} /\ MaxInterruptions \in Nat

VARIABLES
    phase,         \* of each code: "absent", "live" or "deleted"
    pc,            \* what the server does next
    next,          \* the table it is seeding, by its place in SeedOrder
    attempt,       \* of Open's connection loop
    interruptions  \* so far

vars == <<phase, pc, next, attempt, interruptions>>

Init ==
    /\ phase = [c \in Codes |-> "absent"]
    /\ pc = "down"
    /\ next = 1
    /\ attempt = 0
    /\ interruptions = 0

InTable(t) == Seeds[t] \cup Extra[t]

Start ==
    /\ pc = "down"
    /\ pc' = "connect"
    /\ attempt' = 1
    /\ UNCHANGED <<phase, next, interruptions>>

\* The ping succeeds; the migration adds what tables are missing.
Connect ==
    /\ pc = "connect"
    /\ pc' = "count"
    /\ next' = 1
    /\ UNCHANGED <<phase, attempt, interruptions>>

Interrupted ==
    /\ interruptions < MaxInterruptions
    /\ interruptions' = interruptions + 1

\* Were the bound checked after the attempt, it would be passed by one.
RetryOnceMore ==
    /\ pc = "connect"
    /\ Interrupted
    /\ IF attempt <= MaxAttempts
       THEN attempt' = attempt + 1 /\ UNCHANGED pc
       ELSE pc' = "down" /\ UNCHANGED attempt
    /\ UNCHANGED <<phase, next>>

\* The database is not ready: try again, and give up after MaxAttempts.
Retry ==
    /\ pc = "connect"
    /\ Interrupted
    /\ IF attempt < MaxAttempts
       THEN attempt' = attempt + 1 /\ UNCHANGED pc
       ELSE pc' = "down" /\ UNCHANGED attempt
    /\ UNCHANGED <<phase, next>>

GoOn ==
    IF next < Len(SeedOrder)
    THEN pc' = "count" /\ next' = next + 1
    ELSE pc' = "redis" /\ UNCHANGED next

\* Were the insert tried without a count, it would fail on the second start.
InsertAnyway ==
    /\ pc = "count"
    /\ pc' = "insert"
    /\ UNCHANGED <<phase, next, attempt, interruptions>>

\* SELECT count(*): deleted rows do not count.
Count ==
    /\ pc = "count"
    /\ \/ (\E c \in InTable(SeedOrder[next]) : phase[c] = "live") /\ GoOn
       \/ /\ \A c \in InTable(SeedOrder[next]) : phase[c] # "live"
          /\ pc' = "insert"
          /\ UNCHANGED next
    /\ UNCHANGED <<phase, attempt, interruptions>>

\* Were each row inserted for itself, a stop could come in between.
InsertRowByRow ==
    LET new == Seeds[SeedOrder[next]] IN
    /\ pc = "insert"
    /\ \/ /\ \A c \in new : phase[c] # "absent"
          /\ GoOn
          /\ UNCHANGED phase
       \/ \E c \in new :
             /\ phase[c] = "absent"
             /\ phase' = [phase EXCEPT ![c] = "live"]
             /\ UNCHANGED <<pc, next>>
    /\ UNCHANGED <<attempt, interruptions>>

\* Were the insert an upsert, it would bring back what was deleted.
Upsert ==
    LET new == Seeds[SeedOrder[next]] IN
    /\ pc = "insert"
    /\ phase' = [c \in Codes |-> IF c \in new THEN "live" ELSE phase[c]]
    /\ GoOn
    /\ UNCHANGED <<attempt, interruptions>>

\* INSERT of all rows in one statement; a code that was ever used fails it
\* and with it the start.
Insert ==
    LET new == Seeds[SeedOrder[next]] IN
    /\ pc = "insert"
    /\ \/ /\ \A c \in new : phase[c] = "absent"
          /\ phase' = [c \in Codes |-> IF c \in new THEN "live" ELSE phase[c]]
          /\ GoOn
       \/ /\ \E c \in new : phase[c] # "absent"
          /\ pc' = "down"
          /\ UNCHANGED <<phase, next>>
    /\ UNCHANGED <<attempt, interruptions>>

\* The ping of Redis; the routes are set up and the port is open.
Serve ==
    /\ pc = "redis"
    /\ pc' = "serving"
    /\ UNCHANGED <<phase, next, attempt, interruptions>>

\* A client creates a record, or an administrator deletes one.  No request
\* creates or deletes a user.
Create(t, c) ==
    /\ pc = "serving"
    /\ t # "users" /\ c \in Extra[t]
    /\ phase[c] = "absent"
    /\ phase' = [phase EXCEPT ![c] = "live"]
    /\ UNCHANGED <<pc, next, attempt, interruptions>>

Delete(t, c) ==
    /\ pc = "serving"
    /\ t # "users" /\ c \in InTable(t)
    /\ phase[c] = "live"
    /\ phase' = [phase EXCEPT ![c] = "deleted"]
    /\ UNCHANGED <<pc, next, attempt, interruptions>>

\* A statement fails, the start-up time runs out, Redis does not answer, the
\* server is stopped or dies: what it had committed stays.
Exit ==
    /\ pc # "down"
    /\ Interrupted
    /\ pc' = "down"
    /\ UNCHANGED <<phase, next, attempt>>

Boot == Start \/ Connect \/ Count \/ Insert \/ Serve

Next ==
    \/ Boot
    \/ Retry
    \/ \E t \in Tables : \E c \in InTable(t) : Create(t, c) \/ Delete(t, c)
    \/ Exit

Spec == Init /\ [][Next]_vars

\* The container is started again, and a start that nothing interrupts goes on.
FairSpec == Spec /\ WF_vars(Boot)

-----------------------------------------------------------------------------

TypeOK ==
    /\ phase \in [Codes -> {"absent", "live", "deleted"}]
    /\ pc \in {"down", "connect", "count", "insert", "redis", "serving"}
    /\ next \in 1 .. Len(SeedOrder)
    /\ attempt \in 0 .. MaxAttempts
    /\ interruptions \in 0 .. MaxInterruptions

(***************************************************************************)
(* database.go 127-241: a table is seeded as a whole or not at all,        *)
(* wherever the start is cut short: a later start looks at the count only  *)
(* and would never add the rest.                                           *)
(***************************************************************************)
SeededAsAWhole ==
    \A t \in Tables : \A c, d \in Seeds[t] : phase[c] = "absent" => phase[d] = "absent"

(***************************************************************************)
(* database.go 87-125: the order of the seedings and the unique index see  *)
(* to it that a seeded row finds the rows it names on record, although     *)
(* every table is seeded for itself and the rows may be deleted later.     *)
(***************************************************************************)
SeedLinksResolve ==
    [][\A c \in AllSeeds : phase[c] # "live" /\ phase'[c] = "live"
          => \A l \in Links[c] : phase'[l] = "live"]_vars

(***************************************************************************)
(* A start takes nothing back that was done through an earlier one: what   *)
(* was deleted stays deleted, and outside of requests records only come    *)
(* into being by the first seeding of their table.                         *)
(***************************************************************************)
StartsKeepRecords ==
    [][pc # "serving" => \A c \in Codes :
          phase'[c] # phase[c] => phase[c] = "absent" /\ c \in AllSeeds]_vars

(***************************************************************************)
(* docker-compose.yml 63: whatever interrupts it, the server serves again, *)
(* unless all rows of a table were deleted: then every start inserts codes *)
(* that the unique index refuses.                                          *)
(***************************************************************************)
Emptied(t) == /\ \A c \in InTable(t) : phase[c] # "live"
              /\ \E c \in Seeds[t] : phase[c] = "deleted"

ServesAgain == <>(\E t \in Tables : Emptied(t)) \/ []<>(pc = "serving")
=============================================================================
