---------------------------- MODULE RateLimiter -----------------------------
(***************************************************************************)
(* middleware/ratelimit.go: each request is counted under its key (client  *)
(* and route) in a window of one minute, in Redis, or in the memory of the *)
(* process when Redis is not configured or does not answer.                *)
(*                                                                         *)
(* A goroutine reads the clock, then asks Redis, then perhaps takes the    *)
(* mutex and reads the clock again; the minute may turn in between.  The   *)
(* clock does not run backwards.                                           *)
(***************************************************************************)
EXTENDS Naturals, FiniteSets

CONSTANTS
    Keys,             \* a client at a route
    Requests,         \* the slots in which handler goroutines run
    Limit,            \* REQUEST_LIMIT
    Capacity,         \* tracked keys from which on memory is cleaned: 512
    RedisConfigured,
    MaxMinute,        \* bound: the last minute of the clock
    MaxSent           \* bound: requests that arrive within one minute

Minutes == 0 .. MaxMinute
Places  == {"redis", "memory"}

ASSUME LimitsAreNumbers ==
    /\ Limit \in Nat \ {0}
    /\ Capacity \in Nat \ {0}
    /\ RedisConfigured \in BOOLEAN
    /\ MaxMinute \in Nat
    /\ MaxSent \in Nat

VARIABLES
    minute,    \* the wall clock, truncated
    redis,     \* Redis: the counter of each key and minute
    local,     \* Limiter.local: the bucket of each tracked key
    req,       \* the request in each slot
    sent,      \* how many arrived this minute
    admitted,  \* history: admissions by the counter of each place
    lost       \* history: counts in Redis whose answer was lost

vars == <<minute, redis, local, req, sent, admitted, lost>>

None == [k \in Keys |-> [m \in Minutes |-> 0]]

IdleRequest == [pc |-> "idle"]

Init ==
    /\ minute = 0
    /\ redis = None
    /\ local = [k \in {} |-> 0]
    /\ req = [r \in Requests |-> IdleRequest]
    /\ sent = 0
    /\ admitted = [p \in Places |-> None]
    /\ lost = None

\* The key of the counter in Redis names the minute the request arrived in.
Arrive(r, k) ==
    /\ req[r].pc = "idle"
    /\ sent < MaxSent
    /\ sent' = sent + 1
    /\ req' = [req EXCEPT ![r] = [pc |-> IF RedisConfigured THEN "redis" ELSE "memory",
                                  key |-> k, window |-> minute]]
    /\ UNCHANGED <<minute, redis, local, admitted, lost>>

\* What the middleware makes of the count n that a place gave the request.
Decide(r, place, n) ==
    LET q == req[r] IN
    IF n > Limit
    THEN /\ req' = [req EXCEPT ![r] = [pc |-> "refused", key |-> q.key,
                                       window |-> IF place = "redis" THEN q.window ELSE minute,
                                       place |-> place]]
         /\ UNCHANGED admitted
    ELSE /\ req' = [req EXCEPT ![r] = IdleRequest]
         /\ admitted' =
                [admitted EXCEPT ![place][q.key][IF place = "redis" THEN q.window ELSE minute]
                                     = @ + 1]

\* INCR and EXPIRE in one MULTI; the counter of a minute outlives the time
\* within which the client gives up waiting, which is less than a minute.
RedisCounts(r) ==
    LET q == req[r]
        n == redis[q.key][q.window] + 1 IN
    /\ q.pc = "redis"
    /\ minute <= q.window + 1
    /\ redis' = [redis EXCEPT ![q.key][q.window] = n]
    /\ \/ Decide(r, "redis", n) /\ UNCHANGED lost
       \/ /\ req' = [req EXCEPT ![r].pc = "memory"]
          /\ lost' = [lost EXCEPT ![q.key][q.window] = @ + 1]
          /\ UNCHANGED admitted
    /\ UNCHANGED <<minute, local, sent>>

\* Were a count without an answer taken back, one that was never made might be.
RedisFailsUndone(r) ==
    /\ req[r].pc = "redis"
    /\ redis' = [redis EXCEPT ![req[r].key][req[r].window] = @ - 1]
    /\ req' = [req EXCEPT ![r].pc = "memory"]
    /\ UNCHANGED <<minute, local, sent, admitted, lost>>

RedisFails(r) ==
    /\ req[r].pc = "redis"
    /\ req' = [req EXCEPT ![r].pc = "memory"]
    /\ UNCHANGED <<minute, redis, local, sent, admitted, lost>>

\* An off-by-one, and a cleanup that forgets what it must keep.
CleanedLate ==
    IF Cardinality(DOMAIN local) <= Capacity THEN DOMAIN local
    ELSE {k \in DOMAIN local : ~(local[k].window < minute)}

CleanedOut == IF Cardinality(DOMAIN local) < Capacity THEN DOMAIN local ELSE {}

\* cleanupLocal: the keys that stay tracked.
Kept ==
    IF Cardinality(DOMAIN local) < Capacity THEN DOMAIN local
    ELSE {k \in DOMAIN local : ~(local[k].window < minute)}

\* Were the bucket of an old window not emptied, it would fill up for good.
CountForever(k) == IF k \in Kept THEN local[k].count + 1 ELSE 1

CountNow(k) == IF k \in Kept /\ local[k].window = minute THEN local[k].count + 1 ELSE 1

\* incrementLocal, under the mutex.
MemoryCounts(r) ==
    LET k == req[r].key
        n == CountNow(k) IN
    /\ req[r].pc = "memory"
    /\ local' = [j \in Kept \cup {k} |->
                    IF j = k THEN [window |-> minute, count |-> n] ELSE local[j]]
    /\ Decide(r, "memory", n)
    /\ UNCHANGED <<minute, redis, sent, lost>>

\* The 429 has been written.
Leave(r) ==
    /\ req[r].pc = "refused"
    /\ req' = [req EXCEPT ![r] = IdleRequest]
    /\ UNCHANGED <<minute, redis, local, sent, admitted, lost>>

\* The process starts anew: its memory, and what it admitted by it, is gone.
Restart ==
    /\ local' = [k \in {} |-> 0]
    /\ req' = [r \in Requests |-> IdleRequest]
    /\ admitted' = [admitted EXCEPT !["memory"] = None]
    /\ UNCHANGED <<minute, redis, sent, lost>>

Tick ==
    /\ minute < MaxMinute
    /\ minute' = minute + 1
    /\ sent' = 0
    /\ UNCHANGED <<redis, local, req, admitted, lost>>

Next ==
    \/ \E r \in Requests :
          \/ \E k \in Keys : Arrive(r, k)
          \/ RedisCounts(r)
          \/ RedisFails(r)
          \/ MemoryCounts(r)
          \/ Leave(r)
    \/ Restart
    \/ Tick

Spec == Init /\ [][Next]_vars

-----------------------------------------------------------------------------

TypeOK ==
    /\ minute \in Minutes
    /\ redis \in [Keys -> [Minutes -> Nat]]
    /\ DOMAIN local \subseteq Keys
    /\ \A k \in DOMAIN local : local[k] \in [window : Minutes, count : Nat]
    /\ req \in [Requests ->
                   {IdleRequest}
                     \cup [pc : {"redis", "memory"}, key : Keys, window : Minutes]
                     \cup [pc : {"refused"}, key : Keys, window : Minutes, place : Places]]
    /\ sent \in 0 .. MaxSent
    /\ admitted \in [Places -> [Keys -> [Minutes -> Nat]]]
    /\ lost \in [Keys -> [Minutes -> Nat]]

(***************************************************************************)
(* ratelimit.go 42-52: no place admits more than the limit in a window,    *)
(* however often Redis fails or its answer is lost, whatever is cleaned    *)
(* from memory, and whenever the minute turns.  A client that Redis fails  *)
(* may be admitted by both; that Redis keeps its counts is taken as given. *)
(***************************************************************************)
AdmittedWithinLimit ==
    \A p \in Places, k \in Keys, m \in Minutes : admitted[p][k][m] <= Limit

(***************************************************************************)
(* ratelimit.go 49: who is refused has used up the limit of that window;   *)
(* nothing is held against a client that it sent in an earlier window or   *)
(* under another route.  Redis also counts requests whose answer it lost.  *)
(***************************************************************************)
RefusedOnlyWhenSpent ==
    \A r \in Requests :
        LET q == req[r] IN
        q.pc = "refused" =>
            Limit <= admitted[q.place][q.key][q.window]
                       + (IF q.place = "redis" THEN lost[q.key][q.window] ELSE 0)

(***************************************************************************)
(* ratelimit.go 85-94: memory holds more than Capacity keys only as far as *)
(* they were all used within one window; leftovers of earlier windows do   *)
(* not accumulate.                                                         *)
(***************************************************************************)
LeftoversAreBounded ==
    Cardinality(DOMAIN local) > Capacity =>
        \A j, k \in DOMAIN local : local[j].window = local[k].window
=============================================================================
