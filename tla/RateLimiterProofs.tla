------------------------- MODULE RateLimiterProofs --------------------------
(***************************************************************************)
(* Proofs about RateLimiter, for every number of keys and requests, every  *)
(* limit and capacity.                                                     *)
(***************************************************************************)
EXTENDS RateLimiter, FiniteSetTheorems, TLAPS

(***************************************************************************)
(* The inductive invariant.  What a place has admitted in a window it has  *)
(* counted there; memory holds the count of the current minute only, and   *)
(* knows of none to come.                                                  *)
(***************************************************************************)
\* What memory has counted for key k in this minute.
Held(k) == IF k \in DOMAIN local /\ local[k].window = minute THEN local[k].count ELSE 0

Counted ==
    /\ \A k \in DOMAIN local : local[k].window <= minute
    /\ \A k \in Keys, m \in Minutes :
          /\ admitted["redis"][k][m] <= Limit
          /\ admitted["redis"][k][m] <= redis[k][m]
          /\ admitted["memory"][k][m] <= Limit
          /\ m > minute => admitted["memory"][k][m] = 0
    /\ \A k \in Keys : admitted["memory"][k][minute] <= Held(k)

LimiterInv == TypeOK /\ Counted

-----------------------------------------------------------------------------

LEMMA MinutesAreNaturals == Minutes \subseteq Nat /\ Limit \in Nat
BY LimitsAreNumbers DEF Minutes

\* One more admission by a place.
LEMMA OneMore ==
    ASSUME NEW place \in Places, NEW key \in Keys, NEW window \in Minutes,
           NEW a \in [Places -> [Keys -> [Minutes -> Nat]]],
           NEW b, b = [a EXCEPT ![place][key][window] = @ + 1]
    PROVE  /\ b \in [Places -> [Keys -> [Minutes -> Nat]]]
           /\ \A p \in Places, k \in Keys, m \in Minutes :
                 b[p][k][m] = IF p = place /\ k = key /\ m = window
                              THEN a[p][k][m] + 1 ELSE a[p][k][m]
OBVIOUS

LEMMA OneMoreCount ==
    ASSUME NEW key \in Keys, NEW window \in Minutes, NEW a \in [Keys -> [Minutes -> Nat]],
           NEW b, b = [a EXCEPT ![key][window] = @ + 1]
    PROVE  /\ b \in [Keys -> [Minutes -> Nat]]
           /\ \A k \in Keys, m \in Minutes :
                 b[k][m] = IF k = key /\ m = window THEN a[k][m] + 1 ELSE a[k][m]
OBVIOUS

\* Cleaning memory forgets nothing of the current minute.
LEMMA KeptIsHeld ==
    ASSUME LimiterInv, NEW k
    PROVE  CountNow(k) = Held(k) + 1 /\ Held(k) \in Nat /\ Kept \subseteq DOMAIN local
<1>1. Kept \subseteq DOMAIN local
    BY DEF Kept
<1>2. ASSUME k \in DOMAIN local, local[k].window = minute PROVE k \in Kept
    <2>1. minute \in Nat
        BY MinutesAreNaturals DEF LimiterInv, TypeOK
    <2> QED BY <1>2, <2>1 DEF Kept
<1> QED BY <1>1, <1>2 DEF CountNow, Held, LimiterInv, TypeOK

\* The requests that are counted, and what becomes of them.
LEMMA Asking ==
    ASSUME LimiterInv, NEW r \in Requests, req[r].pc \in {"redis", "memory"}
    PROVE  /\ req[r] \in [pc : {"redis", "memory"}, key : Keys, window : Minutes]
           /\ req[r].key \in Keys /\ req[r].window \in Minutes
BY DEF LimiterInv, TypeOK, IdleRequest

RequestType ==
    req \in [Requests ->
               {IdleRequest}
                 \cup [pc : {"redis", "memory"}, key : Keys, window : Minutes]
                 \cup [pc : {"refused"}, key : Keys, window : Minutes, place : Places]]

LEMMA DecideStep ==
    ASSUME LimiterInv, NEW r \in Requests, NEW place \in Places, NEW n \in Nat,
           NEW window \in Minutes, window = IF place = "redis" THEN req[r].window ELSE minute,
           req[r].pc \in {"redis", "memory"}, Decide(r, place, n)
    PROVE  /\ RequestType'
           /\ \/ UNCHANGED admitted
              \/ n <= Limit /\ admitted' = [admitted EXCEPT ![place][req[r].key][window] = @ + 1]
<1>1. req[r].key \in Keys /\ RequestType
    BY Asking DEF LimiterInv, TypeOK, RequestType
<1>2. CASE n > Limit
    <2>1. req' = [req EXCEPT ![r] = [pc |-> "refused", key |-> req[r].key,
                                     window |-> window, place |-> place]]
        BY <1>2 DEF Decide
    <2>2. UNCHANGED admitted
        BY <1>2 DEF Decide
    <2> QED BY <1>1, <2>1, <2>2 DEF RequestType
<1>3. CASE ~(n > Limit)
    <2>1. /\ req' = [req EXCEPT ![r] = IdleRequest]
          /\ admitted' = [admitted EXCEPT ![place][req[r].key][window] = @ + 1]
        BY <1>3 DEF Decide
    <2>2. n <= Limit
        BY <1>3, MinutesAreNaturals
    <2> QED BY <1>1, <2>1, <2>2 DEF RequestType
<1> QED BY <1>2, <1>3

-----------------------------------------------------------------------------

\* An admission by Redis comes from a count that is still within the limit.
LEMMA RedisCountsStep ==
    ASSUME LimiterInv, NEW r \in Requests, RedisCounts(r)
    PROVE  LimiterInv'
<1> DEFINE n == redis[req[r].key][req[r].window] + 1
<1>1. /\ req[r].pc = "redis" /\ req[r].key \in Keys /\ req[r].window \in Minutes
      /\ req[r] \in [pc : {"redis", "memory"}, key : Keys, window : Minutes]
      /\ redis' = [redis EXCEPT ![req[r].key][req[r].window] = @ + 1]
      /\ UNCHANGED <<minute, local, sent>>
    BY Asking DEF RedisCounts
<1>2. PICK key \in Keys, window \in Minutes : key = req[r].key /\ window = req[r].window
    BY <1>1
<1>3. n = redis[key][window] + 1 /\ n \in Nat
    BY <1>2 DEF LimiterInv, TypeOK
<1>4. /\ redis' \in [Keys -> [Minutes -> Nat]]
      /\ \A k \in Keys, m \in Minutes :
            redis'[k][m] = IF k = key /\ m = window THEN redis[k][m] + 1 ELSE redis[k][m]
    BY <1>1, <1>2, OneMoreCount DEF LimiterInv, TypeOK
<1>5. ASSUME NEW k \in Keys, NEW m \in Minutes PROVE admitted["redis"][k][m] <= redis'[k][m]
    <2>1. admitted["redis"][k][m] \in Nat /\ redis[k][m] \in Nat
        BY DEF LimiterInv, TypeOK, Places
    <2>2. admitted["redis"][k][m] <= redis[k][m]
        BY DEF LimiterInv, Counted
    <2>3. redis'[k][m] = redis[k][m] \/ redis'[k][m] = redis[k][m] + 1
        BY <1>4
    <2> QED BY <2>1, <2>2, <2>3
<1>6. CASE Decide(r, "redis", n) /\ UNCHANGED lost
    <2> HIDE DEF n
    <2>1. /\ RequestType'
          /\ \/ UNCHANGED admitted
             \/ n <= Limit /\ admitted' = [admitted EXCEPT !["redis"][key][window] = @ + 1]
        <3>1. "redis" \in Places /\ req[r].pc \in {"redis", "memory"}
            BY <1>1 DEF Places
        <3>2. window = IF "redis" = "redis" THEN req[r].window ELSE minute
            BY <1>2
        <3>3. n \in Nat /\ Decide(r, "redis", n)
            BY <1>3, <1>6
        <3>4. /\ RequestType'
              /\ \/ UNCHANGED admitted
                 \/ n <= Limit /\ admitted' = [admitted EXCEPT !["redis"][req[r].key][window] = @ + 1]
            BY <3>1, <3>2, <3>3, DecideStep
        <3> QED BY <1>2, <3>4
    <2>2. TypeOK'
        <3>1. admitted' \in [Places -> [Keys -> [Minutes -> Nat]]]
            <4>1. CASE UNCHANGED admitted
                BY <4>1 DEF LimiterInv, TypeOK
            <4>2. CASE admitted' = [admitted EXCEPT !["redis"][key][window] = @ + 1]
                BY <4>2, OneMore DEF LimiterInv, TypeOK, Places
            <4> QED BY <2>1, <4>1, <4>2
        <3> QED BY <1>1, <1>4, <1>6, <2>1, <3>1 DEF LimiterInv, TypeOK, RequestType
    <2>3. CASE UNCHANGED admitted
        BY <1>1, <1>5, <2>2, <2>3 DEF LimiterInv, Counted, Held
    <2>4. CASE n <= Limit /\ admitted' = [admitted EXCEPT !["redis"][key][window] = @ + 1]
        <3>1. \A p \in Places, k \in Keys, m \in Minutes :
                 admitted'[p][k][m] = IF p = "redis" /\ k = key /\ m = window
                                      THEN admitted[p][k][m] + 1 ELSE admitted[p][k][m]
            BY <2>4, OneMore DEF LimiterInv, TypeOK, Places
        <3>2. ASSUME NEW k \in Keys, NEW m \in Minutes
              PROVE  admitted'["redis"][k][m] <= redis'[k][m] /\ admitted'["redis"][k][m] <= Limit
            <4>1. admitted["redis"][k][m] \in Nat /\ redis[k][m] \in Nat /\ Limit \in Nat
                BY MinutesAreNaturals DEF LimiterInv, TypeOK, Places
            <4>2. /\ admitted["redis"][k][m] <= redis[k][m]
                  /\ admitted["redis"][k][m] <= Limit
                BY DEF LimiterInv, Counted
            <4>3. CASE k = key /\ m = window
                <5>1. /\ admitted'["redis"][k][m] = admitted["redis"][k][m] + 1
                      /\ redis'[k][m] = redis[k][m] + 1 /\ redis[k][m] + 1 <= Limit
                    BY <1>3, <1>4, <2>4, <3>1, <4>3 DEF Places
                <5> QED BY <4>1, <4>2, <5>1
            <4>4. CASE ~(k = key /\ m = window)
                <5>1. /\ admitted'["redis"][k][m] = admitted["redis"][k][m]
                      /\ redis'[k][m] = redis[k][m]
                    BY <1>4, <3>1, <4>4 DEF Places
                <5> QED BY <4>2, <5>1
            <4> QED BY <4>3, <4>4
        <3>3. \A k \in Keys, m \in Minutes : admitted'["memory"][k][m] = admitted["memory"][k][m]
            BY <3>1 DEF Places
        <3>4. minute \in Minutes
            BY DEF LimiterInv, TypeOK
        <3> QED BY <1>1, <2>2, <3>2, <3>3, <3>4 DEF LimiterInv, Counted, Held
    <2> QED BY <2>1, <2>3, <2>4
<1>7. CASE /\ req' = [req EXCEPT ![r].pc = "memory"]
           /\ lost' = [lost EXCEPT ![req[r].key][req[r].window] = @ + 1]
           /\ UNCHANGED admitted
    <2>1. [req[r] EXCEPT !.pc = "memory"]
             \in [pc : {"redis", "memory"}, key : Keys, window : Minutes]
        BY <1>1
    <2>2. lost' \in [Keys -> [Minutes -> Nat]]
        BY <1>2, <1>7, OneMoreCount DEF LimiterInv, TypeOK
    <2>3. RequestType'
        BY <1>7, <2>1 DEF LimiterInv, TypeOK, RequestType
    <2>4. TypeOK'
        BY <1>1, <1>4, <1>7, <2>2, <2>3 DEF LimiterInv, TypeOK, RequestType
    <2> QED BY <1>1, <1>5, <1>7, <2>4 DEF LimiterInv, Counted, Held
<1> QED BY <1>6, <1>7 DEF RedisCounts

\* An admission by memory comes from a bucket that is still within the limit.
LEMMA MemoryCountsStep ==
    ASSUME LimiterInv, NEW r \in Requests, MemoryCounts(r)
    PROVE  LimiterInv'
<1>1. req[r].pc = "memory" /\ UNCHANGED <<minute, redis, sent, lost>>
    BY DEF MemoryCounts
<1>2. PICK key \in Keys : key = req[r].key
    BY <1>1, Asking
<1>3. PICK n \in Nat : n = CountNow(key)
    BY KeptIsHeld
<1>4. PICK window \in Minutes : window = minute
    BY DEF LimiterInv, TypeOK
<1>5. /\ local' = [j \in Kept \cup {key} |->
                      IF j = key THEN [window |-> window, count |-> n] ELSE local[j]]
      /\ Decide(r, "memory", n)
    BY <1>2, <1>3, <1>4 DEF MemoryCounts
<1>6. /\ RequestType'
      /\ \/ UNCHANGED admitted
         \/ n <= Limit /\ admitted' = [admitted EXCEPT !["memory"][key][window] = @ + 1]
    BY <1>1, <1>2, <1>4, <1>5, DecideStep DEF Places
<1>7. Kept \subseteq DOMAIN local /\ n = Held(key) + 1 /\ Held(key) \in Nat
    BY <1>3, KeptIsHeld
<1>8. /\ DOMAIN local' \subseteq Keys
      /\ \A k \in DOMAIN local' : local'[k] \in [window : Minutes, count : Nat]
    BY <1>5, <1>7 DEF LimiterInv, TypeOK
<1>9. minute \in Nat /\ Minutes \subseteq Nat
    BY MinutesAreNaturals DEF LimiterInv, TypeOK
<1>10. \A k \in DOMAIN local' : local'[k].window <= minute'
    BY <1>1, <1>4, <1>5, <1>7, <1>9 DEF LimiterInv, Counted
<1>11. Held(key)' = n
    BY <1>1, <1>4, <1>5 DEF Held
<1>12. ASSUME NEW k \in Keys, k # key PROVE Held(k)' = Held(k)
    <2>1. k \in DOMAIN local /\ local[k].window = minute => k \in Kept
        BY <1>9 DEF Kept
    <2>2. k \in DOMAIN local' <=> k \in Kept
        BY <1>5, <1>12
    <2>3. k \in Kept => local'[k] = local[k]
        BY <1>5, <1>12
    <2> QED BY <1>1, <1>7, <2>1, <2>2, <2>3 DEF Held
<1>13. CASE UNCHANGED admitted
    <2>1. TypeOK'
        BY <1>1, <1>6, <1>8, <1>13 DEF LimiterInv, TypeOK, RequestType
    <2>2. ASSUME NEW k \in Keys PROVE admitted'["memory"][k][minute'] <= Held(k)'
        <3>1. admitted["memory"][k][minute] \in Nat /\ admitted["memory"][k][minute] <= Held(k)
            BY DEF LimiterInv, TypeOK, Counted, Places
        <3>2. CASE k = key
            BY <1>1, <1>7, <1>11, <1>13, <3>1, <3>2
        <3>3. CASE k # key
            BY <1>1, <1>12, <1>13, <3>1, <3>3
        <3> QED BY <3>2, <3>3
    <2> QED BY <1>1, <1>10, <1>13, <2>1, <2>2 DEF LimiterInv, Counted
<1>14. CASE n <= Limit /\ admitted' = [admitted EXCEPT !["memory"][key][window] = @ + 1]
    <2>1. /\ admitted' \in [Places -> [Keys -> [Minutes -> Nat]]]
          /\ \A p \in Places, k \in Keys, m \in Minutes :
                admitted'[p][k][m] = IF p = "memory" /\ k = key /\ m = window
                                     THEN admitted[p][k][m] + 1 ELSE admitted[p][k][m]
        BY <1>14, OneMore DEF LimiterInv, TypeOK, Places
    <2>2. TypeOK'
        BY <1>1, <1>6, <1>8, <2>1 DEF LimiterInv, TypeOK, RequestType
    <2>3. /\ admitted["memory"][key][window] \in Nat
          /\ admitted["memory"][key][window] <= Held(key)
        BY <1>4 DEF LimiterInv, TypeOK, Counted, Places
    <2>4. admitted'["memory"][key][window] = admitted["memory"][key][window] + 1
        BY <2>1 DEF Places
    <2>5. admitted'["memory"][key][window] <= n /\ admitted'["memory"][key][window] <= Limit
        BY <1>7, <1>14, <2>3, <2>4, MinutesAreNaturals
    <2>6. ASSUME NEW k \in Keys PROVE admitted'["memory"][k][minute'] <= Held(k)'
        <3>1. CASE k = key
            BY <1>1, <1>4, <1>11, <2>5, <3>1
        <3>2. CASE k # key
            <4>1. admitted'["memory"][k][window] = admitted["memory"][k][window]
                BY <2>1, <3>2 DEF Places
            <4> QED BY <1>1, <1>4, <1>12, <3>2, <4>1 DEF LimiterInv, Counted
        <3> QED BY <3>1, <3>2
    <2>7. ASSUME NEW k \in Keys, NEW m \in Minutes
          PROVE  /\ admitted'["redis"][k][m] = admitted["redis"][k][m]
                 /\ admitted'["memory"][k][m] <= Limit
                 /\ m > minute' => admitted'["memory"][k][m] = 0
        <3>1. admitted'["redis"][k][m] = admitted["redis"][k][m]
            BY <2>1 DEF Places
        <3>2. CASE k = key /\ m = window
            BY <1>1, <1>4, <1>9, <2>5, <3>1, <3>2
        <3>3. CASE ~(k = key /\ m = window)
            <4>1. admitted'["memory"][k][m] = admitted["memory"][k][m]
                BY <2>1, <3>3 DEF Places
            <4> QED BY <1>1, <3>1, <4>1 DEF LimiterInv, Counted
        <3> QED BY <3>2, <3>3
    <2> QED BY <1>1, <1>10, <2>2, <2>6, <2>7 DEF LimiterInv, Counted
<1> QED BY <1>6, <1>13, <1>14

LEMMA OtherSteps ==
    ASSUME LimiterInv, [Next]_vars
    PROVE  \/ LimiterInv'
           \/ \E r \in Requests : RedisCounts(r) \/ MemoryCounts(r)
<1>1. ASSUME NEW r \in Requests, NEW k \in Keys, Arrive(r, k) PROVE LimiterInv'
    <2>1. RequestType'
        BY <1>1 DEF Arrive, LimiterInv, TypeOK, RequestType
    <2>2. sent' \in 0 .. MaxSent
        BY <1>1, LimitsAreNumbers DEF Arrive, LimiterInv, TypeOK
    <2> QED BY <1>1, <2>1, <2>2
            DEF Arrive, LimiterInv, TypeOK, RequestType, Counted, Held
<1>2. ASSUME NEW r \in Requests, RedisFails(r) \/ Leave(r) PROVE LimiterInv'
    <2>1. RequestType'
        <3>1. CASE RedisFails(r)
            <4>1. [req[r] EXCEPT !.pc = "memory"]
                     \in [pc : {"redis", "memory"}, key : Keys, window : Minutes]
                BY <3>1, Asking DEF RedisFails
            <4> QED BY <3>1, <4>1 DEF RedisFails, LimiterInv, TypeOK, RequestType
        <3>2. CASE Leave(r)
            BY <3>2 DEF Leave, LimiterInv, TypeOK, RequestType
        <3> QED BY <1>2, <3>1, <3>2
    <2> QED BY <1>2, <2>1
            DEF RedisFails, Leave, LimiterInv, TypeOK, RequestType, Counted, Held
<1>3. ASSUME Restart PROVE LimiterInv'
    <2>1. /\ local' = [k \in {} |-> 0]
          /\ req' = [r \in Requests |-> IdleRequest]
          /\ UNCHANGED <<minute, redis, sent, lost>>
        BY <1>3 DEF Restart
    <2>2. /\ admitted' \in [Places -> [Keys -> [Minutes -> Nat]]]
          /\ \A k \in Keys, m \in Minutes : /\ admitted'["redis"][k][m] = admitted["redis"][k][m]
                                            /\ admitted'["memory"][k][m] = 0
        BY <1>3 DEF Restart, None, LimiterInv, TypeOK, Places
    <2>3. TypeOK'
        BY <2>1, <2>2 DEF LimiterInv, TypeOK
    <2>4. \A k \in Keys : Held(k)' = 0
        BY <2>1 DEF Held
    <2>5. minute \in Minutes /\ 0 <= Limit
        BY MinutesAreNaturals DEF LimiterInv, TypeOK
    <2> QED BY <2>1, <2>2, <2>3, <2>4, <2>5 DEF LimiterInv, Counted
<1>4. ASSUME Tick PROVE LimiterInv'
    <2>1. minute \in Nat /\ minute' = minute + 1 /\ minute' \in Minutes
        BY <1>4, LimitsAreNumbers DEF Tick, LimiterInv, TypeOK, Minutes
    <2>2. UNCHANGED <<redis, local, req, admitted, lost>> /\ sent' = 0
        BY <1>4 DEF Tick
    <2>3. TypeOK'
        BY <2>1, <2>2, LimitsAreNumbers DEF LimiterInv, TypeOK
    <2>4. \A k \in DOMAIN local : local[k].window \in Nat /\ local[k].window <= minute
        BY MinutesAreNaturals DEF LimiterInv, TypeOK, Counted
    <2>5. \A k \in DOMAIN local : local[k].window <= minute' /\ local[k].window # minute'
        BY <2>1, <2>4
    <2>6. \A k \in Keys : Held(k)' = 0
        BY <2>2, <2>5 DEF Held
    <2>7. \A m \in Minutes : m > minute' => m > minute
        BY <2>1, MinutesAreNaturals
    <2>8. \A k \in Keys : admitted'["memory"][k][minute'] <= Held(k)'
        <3>1. minute' > minute
            BY <2>1
        <3>2. \A k \in Keys : admitted["memory"][k][minute'] = 0
            BY <2>1, <3>1 DEF LimiterInv, Counted
        <3>3. 0 <= 0
            OBVIOUS
        <3> QED BY <2>2, <2>6, <3>2, <3>3
    <2>9. \A k \in Keys, m \in Minutes :
             /\ admitted'["redis"][k][m] <= Limit
             /\ admitted'["redis"][k][m] <= redis'[k][m]
             /\ admitted'["memory"][k][m] <= Limit
             /\ m > minute' => admitted'["memory"][k][m] = 0
        BY <2>2, <2>7 DEF LimiterInv, Counted
    <2>10. \A k \in DOMAIN local' : local'[k].window <= minute'
        BY <2>2, <2>5
    <2> QED BY <2>3, <2>8, <2>9, <2>10 DEF LimiterInv, Counted
<1>5. CASE UNCHANGED vars
    BY <1>5 DEF vars, LimiterInv, TypeOK, Counted, Held
<1> QED BY <1>1, <1>2, <1>3, <1>4, <1>5 DEF Next

LEMMA LimiterInvariance == Spec => []LimiterInv
<1>1. Init => LimiterInv
    <2> SUFFICES ASSUME Init PROVE LimiterInv
        OBVIOUS
    <2>1. 0 \in Minutes /\ 0 <= Limit
        BY LimitsAreNumbers DEF Minutes
    <2>2. None \in [Keys -> [Minutes -> Nat]] /\ \A k \in Keys, m \in Minutes : None[k][m] = 0
        BY DEF None
    <2>3. /\ admitted \in [Places -> [Keys -> [Minutes -> Nat]]]
          /\ \A p \in Places, k \in Keys, m \in Minutes : admitted[p][k][m] = 0
        BY <2>2 DEF Init
    <2>4. TypeOK
        BY <2>1, <2>2, <2>3, LimitsAreNumbers DEF Init, TypeOK
    <2>5. \A k \in Keys : Held(k) = 0
        BY DEF Held, Init
    <2>6. "redis" \in Places /\ "memory" \in Places
        BY DEF Places
    <2> QED BY <2>1, <2>2, <2>3, <2>4, <2>5, <2>6 DEF Init, LimiterInv, Counted
<1>2. LimiterInv /\ [Next]_vars => LimiterInv'
    BY OtherSteps, RedisCountsStep, MemoryCountsStep
<1> QED BY <1>1, <1>2, PTL DEF Spec

(***************************************************************************)
(* Every reachable state is well typed; a counter never runs below 0.       *)
(***************************************************************************)
THEOREM LimiterTypeCorrect == Spec => []TypeOK
<1>1. LimiterInv => TypeOK
    BY DEF LimiterInv
<1> QED BY <1>1, LimiterInvariance, PTL

(***************************************************************************)
(* No place admits more than the limit of a key in a window                *)
(* (ratelimit.go 42-52).                                                   *)
(***************************************************************************)
THEOREM LimitIsKept == Spec => []AdmittedWithinLimit
<1>1. LimiterInv => AdmittedWithinLimit
    BY DEF LimiterInv, Counted, AdmittedWithinLimit, Places
<1> QED BY <1>1, LimiterInvariance, PTL

-----------------------------------------------------------------------------
(* Who is refused has used up its limit.                                   *)

\* What a client has had of its limit, or lost of it.
Spent(p, k, m) == admitted[p][k][m] + (IF p = "redis" THEN lost[k][m] ELSE 0)

(***************************************************************************)
(* A counter that is ahead of what was spent is ahead because the limit is *)
(* spent.                                                                  *)
(***************************************************************************)
SpentInv ==
    /\ \A k \in Keys, m \in Minutes : redis[k][m] <= Spent("redis", k, m) \/ Limit <= Spent("redis", k, m)
    /\ \A k \in Keys : Held(k) <= Spent("memory", k, minute) \/ Limit <= Spent("memory", k, minute)
    /\ RefusedOnlyWhenSpent

LEMMA SpentTypes ==
    ASSUME LimiterInv
    PROVE  /\ \A p \in Places, k \in Keys, m \in Minutes : Spent(p, k, m) \in Nat
           /\ \A k \in Keys, m \in Minutes : redis[k][m] \in Nat
           /\ \A k \in Keys : Held(k) \in Nat
           /\ Limit \in Nat /\ minute \in Minutes
<1>1. \A p \in Places, k \in Keys, m \in Minutes : admitted[p][k][m] \in Nat /\ lost[k][m] \in Nat
    BY DEF LimiterInv, TypeOK
<1>2. \A p \in Places, k \in Keys, m \in Minutes : Spent(p, k, m) \in Nat
    BY <1>1 DEF Spent
<1> QED BY <1>2, KeptIsHeld, MinutesAreNaturals DEF LimiterInv, TypeOK

\* A request that is refused was refused before, or has spent the limit.
Justified(r) ==
    req'[r].pc = "refused" =>
        \/ req'[r] = req[r]
        \/ \E p \in Places, k \in Keys, m \in Minutes :
              /\ req'[r].place = p /\ req'[r].key = k /\ req'[r].window = m
              /\ Limit <= Spent(p, k, m)

NothingTakenBack ==
    \A p \in Places, k \in Keys, m \in Minutes : Spent(p, k, m) <= Spent(p, k, m)'

LEMMA RefusedType ==
    ASSUME LimiterInv, NEW r \in Requests, req[r].pc = "refused"
    PROVE  req[r].place \in Places /\ req[r].key \in Keys /\ req[r].window \in Minutes
<1>1. req[r] \in {IdleRequest}
                  \cup [pc : {"redis", "memory"}, key : Keys, window : Minutes]
                  \cup [pc : {"refused"}, key : Keys, window : Minutes, place : Places]
    BY DEF LimiterInv, TypeOK
<1>2. req[r] # IdleRequest
    BY DEF IdleRequest
<1>3. req[r] \notin [pc : {"redis", "memory"}, key : Keys, window : Minutes]
    OBVIOUS
<1>4. req[r] \in [pc : {"refused"}, key : Keys, window : Minutes, place : Places]
    BY <1>1, <1>2, <1>3
<1> QED BY <1>4

LEMMA RefusedStays ==
    ASSUME LimiterInv, LimiterInv', RefusedOnlyWhenSpent, NothingTakenBack,
           \A r \in Requests : Justified(r)
    PROVE  RefusedOnlyWhenSpent'
<1> SUFFICES ASSUME NEW r \in Requests, req'[r].pc = "refused"
             PROVE  Limit <= Spent(req[r].place, req[r].key, req[r].window)'
    BY DEF RefusedOnlyWhenSpent, Spent
<1>1. PICK p \in Places, k \in Keys, m \in Minutes :
         /\ req'[r].place = p /\ req'[r].key = k /\ req'[r].window = m
         /\ Limit <= Spent(p, k, m)
    <2>1. CASE req'[r] = req[r]
        <3>1. req[r].place \in Places /\ req[r].key \in Keys /\ req[r].window \in Minutes
            BY <2>1, RefusedType
        <3>2. Limit <= Spent(req[r].place, req[r].key, req[r].window)
            BY <2>1 DEF RefusedOnlyWhenSpent, Spent
        <3> QED BY <2>1, <3>1, <3>2
    <2> QED BY <2>1 DEF Justified
<1>2. Spent(p, k, m) <= Spent(p, k, m)' /\ Spent(p, k, m) \in Nat /\ Limit \in Nat
    BY SpentTypes DEF NothingTakenBack
<1>3. Spent(p, k, m)' \in Nat
    BY DEF LimiterInv, TypeOK, Spent
<1>4. Limit <= Spent(p, k, m)'
    BY <1>1, <1>2, <1>3
<1> QED BY <1>1, <1>4 DEF Spent

LEMMA SpentStill ==
    ASSUME LimiterInv, UNCHANGED <<admitted, lost>>
    PROVE  /\ NothingTakenBack
           /\ \A p \in Places, k \in Keys, m \in Minutes : Spent(p, k, m)' = Spent(p, k, m)
<1>1. \A p \in Places, k \in Keys, m \in Minutes : Spent(p, k, m)' = Spent(p, k, m)
    BY DEF Spent
<1> QED BY <1>1, SpentTypes DEF NothingTakenBack

\* One admission, or one count whose answer is lost, is one spent.
SpendsOne(place, key, window) ==
    \A p \in Places, k \in Keys, m \in Minutes :
        Spent(p, k, m)' = IF p = place /\ k = key /\ m = window
                          THEN Spent(p, k, m) + 1 ELSE Spent(p, k, m)

LEMMA SpentOne ==
    ASSUME LimiterInv, NEW place \in Places, NEW key \in Keys, NEW window \in Minutes,
           SpendsOne(place, key, window)
    PROVE  NothingTakenBack
BY SpentTypes DEF SpendsOne, NothingTakenBack

LEMMA SpentAdmitted ==
    ASSUME LimiterInv, NEW place \in Places, NEW key \in Keys, NEW window \in Minutes,
           admitted' = [admitted EXCEPT ![place][key][window] = @ + 1], UNCHANGED lost
    PROVE  SpendsOne(place, key, window)
<1>1. \A p \in Places, k \in Keys, m \in Minutes :
         admitted'[p][k][m] = IF p = place /\ k = key /\ m = window
                              THEN admitted[p][k][m] + 1 ELSE admitted[p][k][m]
    BY OneMore DEF LimiterInv, TypeOK
<1>2. \A p \in Places, k \in Keys, m \in Minutes : admitted[p][k][m] \in Nat /\ lost[k][m] \in Nat
    BY DEF LimiterInv, TypeOK
<1> QED BY <1>1, <1>2 DEF Spent, SpendsOne

LEMMA SpentLost ==
    ASSUME LimiterInv, NEW key \in Keys, NEW window \in Minutes,
           lost' = [lost EXCEPT ![key][window] = @ + 1], UNCHANGED admitted
    PROVE  SpendsOne("redis", key, window)
<1>1. \A k \in Keys, m \in Minutes :
         lost'[k][m] = IF k = key /\ m = window THEN lost[k][m] + 1 ELSE lost[k][m]
    BY OneMoreCount DEF LimiterInv, TypeOK
<1>2. \A p \in Places, k \in Keys, m \in Minutes : admitted[p][k][m] \in Nat /\ lost[k][m] \in Nat
    BY DEF LimiterInv, TypeOK
<1> QED BY <1>1, <1>2 DEF Spent, SpendsOne

\* Whoever is refused by a count n that is one more than a counter which is
\* ahead only if the limit is spent has spent it; whoever is not adds to both.
LEMMA DecideSpends ==
    ASSUME LimiterInv, NEW r \in Requests, NEW place \in Places, NEW n \in Nat,
           NEW key \in Keys, NEW window \in Minutes,
           key = req[r].key, window = IF place = "redis" THEN req[r].window ELSE minute,
           NEW old \in Nat, n = old + 1,
           old <= Spent(place, key, window) \/ Limit <= Spent(place, key, window),
           Decide(r, place, n), UNCHANGED lost
    PROVE  /\ NothingTakenBack
           /\ n <= Spent(place, key, window)' \/ Limit <= Spent(place, key, window)'
           /\ \A p \in Places, k \in Keys, m \in Minutes :
                 p # place \/ k # key \/ m # window => Spent(p, k, m)' = Spent(p, k, m)
           /\ \A s \in Requests : Justified(s)
<1>1. Spent(place, key, window) \in Nat /\ Limit \in Nat
    BY SpentTypes
<1>2. CASE n > Limit
    <2>1. /\ req' = [req EXCEPT ![r] = [pc |-> "refused", key |-> key, window |-> window, place |-> place]]
          /\ UNCHANGED admitted
        BY <1>2 DEF Decide
    <2>2. Limit <= Spent(place, key, window)
        BY <1>1, <1>2
    <2>3. /\ req'[r] = [pc |-> "refused", key |-> key, window |-> window, place |-> place]
          /\ \A s \in Requests \ {r} : req'[s] = req[s]
        BY <2>1 DEF LimiterInv, TypeOK
    <2>4. \A s \in Requests : Justified(s)
        BY <2>2, <2>3 DEF Justified
    <2> QED BY <2>1, <2>2, <2>4, SpentStill
<1>3. CASE ~(n > Limit)
    <2>1. /\ req' = [req EXCEPT ![r] = IdleRequest]
          /\ admitted' = [admitted EXCEPT ![place][key][window] = @ + 1]
        BY <1>3 DEF Decide
    <2>2. \A s \in Requests : req'[s].pc = "refused" => req'[s] = req[s]
        BY <2>1 DEF LimiterInv, TypeOK, IdleRequest
    <2>3. SpendsOne(place, key, window) /\ NothingTakenBack
        BY <2>1, SpentAdmitted, SpentOne
    <2>4. /\ Spent(place, key, window)' = Spent(place, key, window) + 1
          /\ \A p \in Places, k \in Keys, m \in Minutes :
                p # place \/ k # key \/ m # window => Spent(p, k, m)' = Spent(p, k, m)
        BY <2>3 DEF SpendsOne
    <2>5. n <= Spent(place, key, window)' \/ Limit <= Spent(place, key, window)'
        BY <1>1, <2>4
    <2> QED BY <2>2, <2>3, <2>4, <2>5 DEF Justified
<1> QED BY <1>2, <1>3

LEMMA RedisSpends ==
    ASSUME LimiterInv, LimiterInv', SpentInv, NEW r \in Requests, RedisCounts(r)
    PROVE  SpentInv'
<1>1. PICK key \in Keys, window \in Minutes : key = req[r].key /\ window = req[r].window
    BY Asking DEF RedisCounts
<1>2. PICK old \in Nat, n \in Nat : old = redis[key][window] /\ n = old + 1
    BY SpentTypes
<1>3. redis' = [redis EXCEPT ![key][window] = n] /\ UNCHANGED <<minute, local, sent>>
    BY <1>1, <1>2 DEF RedisCounts
<1>4. \A k \in Keys, m \in Minutes : redis'[k][m] = IF k = key /\ m = window THEN n ELSE redis[k][m]
    BY <1>3 DEF LimiterInv, TypeOK
<1>5. "redis" \in Places /\ "memory" \in Places
    BY DEF Places
<1>6. old <= Spent("redis", key, window) \/ Limit <= Spent("redis", key, window)
    BY <1>2 DEF SpentInv
<1>7. /\ NothingTakenBack
      /\ n <= Spent("redis", key, window)' \/ Limit <= Spent("redis", key, window)'
      /\ \A p \in Places, k \in Keys, m \in Minutes :
            p # "redis" \/ k # key \/ m # window => Spent(p, k, m)' = Spent(p, k, m)
      /\ \A s \in Requests : Justified(s)
    <2>1. CASE Decide(r, "redis", n) /\ UNCHANGED lost
        BY <1>1, <1>2, <1>5, <1>6, <2>1, DecideSpends
    <2>2. CASE /\ req' = [req EXCEPT ![r].pc = "memory"]
               /\ lost' = [lost EXCEPT ![key][window] = @ + 1]
               /\ UNCHANGED admitted
        <3>1. \A s \in Requests : req'[s].pc = "refused" => req'[s] = req[s]
            <4>1. req' = [req EXCEPT ![r] = [req[r] EXCEPT !.pc = "memory"]]
                BY <2>2
            <4>2. [req[r] EXCEPT !.pc = "memory"] \in [pc : {"redis", "memory"}, key : Keys, window : Minutes]
                BY Asking DEF RedisCounts
            <4> QED BY <4>1, <4>2 DEF LimiterInv, TypeOK
        <3>2. SpendsOne("redis", key, window) /\ NothingTakenBack
            BY <1>5, <2>2, SpentLost, SpentOne
        <3>3. /\ Spent("redis", key, window)' = Spent("redis", key, window) + 1
              /\ \A p \in Places, k \in Keys, m \in Minutes :
                    p # "redis" \/ k # key \/ m # window => Spent(p, k, m)' = Spent(p, k, m)
            BY <1>5, <3>2 DEF SpendsOne
        <3>4. n <= Spent("redis", key, window)' \/ Limit <= Spent("redis", key, window)'
            BY <1>2, <1>5, <1>6, <3>3, SpentTypes
        <3> QED BY <3>1, <3>2, <3>3, <3>4 DEF Justified
    <2> QED BY <1>1, <1>2, <2>1, <2>2 DEF RedisCounts
<1>8. RefusedOnlyWhenSpent'
    BY <1>7, RefusedStays DEF SpentInv
<1>9. \A k \in Keys, m \in Minutes : redis'[k][m] <= Spent("redis", k, m)' \/ Limit <= Spent("redis", k, m)'
    BY <1>4, <1>5, <1>7 DEF SpentInv
<1>10. \A k \in Keys : Held(k)' <= Spent("memory", k, minute)' \/ Limit <= Spent("memory", k, minute)'
    <2>1. minute \in Minutes
        BY SpentTypes
    <2>2. \A k \in Keys : Held(k)' = Held(k) /\ Spent("memory", k, minute)' = Spent("memory", k, minute)
        BY <1>3, <1>5, <1>7, <2>1 DEF Held, Spent
    <2> QED BY <2>2 DEF SpentInv
<1> QED BY <1>8, <1>9, <1>10 DEF SpentInv

LEMMA MemorySpends ==
    ASSUME LimiterInv, LimiterInv', SpentInv, NEW r \in Requests, MemoryCounts(r)
    PROVE  SpentInv'
<1>1. PICK key \in Keys, window \in Minutes : key = req[r].key /\ window = minute
    BY Asking, SpentTypes DEF MemoryCounts
<1>2. PICK old \in Nat, n \in Nat : old = Held(key) /\ n = old + 1 /\ n = CountNow(key)
    BY KeptIsHeld
<1>3. /\ local' = [j \in Kept \cup {key} |->
                      IF j = key THEN [window |-> window, count |-> n] ELSE local[j]]
      /\ Decide(r, "memory", n)
      /\ UNCHANGED <<minute, redis, sent, lost>>
    BY <1>1, <1>2 DEF MemoryCounts
<1>4. "redis" \in Places /\ "memory" \in Places
    BY DEF Places
<1>5. old <= Spent("memory", key, window) \/ Limit <= Spent("memory", key, window)
    BY <1>1, <1>2 DEF SpentInv
<1>6. /\ NothingTakenBack
      /\ n <= Spent("memory", key, window)' \/ Limit <= Spent("memory", key, window)'
      /\ \A p \in Places, k \in Keys, m \in Minutes :
            p # "memory" \/ k # key \/ m # window => Spent(p, k, m)' = Spent(p, k, m)
      /\ \A s \in Requests : Justified(s)
    BY <1>1, <1>2, <1>3, <1>4, <1>5, DecideSpends
<1>7. RefusedOnlyWhenSpent'
    BY <1>6, RefusedStays DEF SpentInv
<1>8. \A k \in Keys, m \in Minutes : redis'[k][m] <= Spent("redis", k, m)' \/ Limit <= Spent("redis", k, m)'
    BY <1>3, <1>4, <1>6 DEF SpentInv
<1>9. Held(key)' = n
    BY <1>1, <1>3 DEF Held
<1>10. ASSUME NEW k \in Keys, k # key PROVE Held(k)' = Held(k)
    <2>1. k \in DOMAIN local /\ local[k].window = minute => k \in Kept
        <3>1. minute \in Nat
            BY SpentTypes, MinutesAreNaturals
        <3> QED BY <3>1 DEF Kept
    <2>2. Kept \subseteq DOMAIN local
        BY KeptIsHeld
    <2>3. (k \in DOMAIN local' <=> k \in Kept) /\ (k \in Kept => local'[k] = local[k])
        BY <1>3, <1>10
    <2> QED BY <1>3, <2>1, <2>2, <2>3 DEF Held
<1>11. ASSUME NEW k \in Keys
       PROVE  Held(k)' <= Spent("memory", k, minute)' \/ Limit <= Spent("memory", k, minute)'
    <2>1. \A p \in Places, m \in Minutes : m = minute => Spent(p, k, minute)' = Spent(p, k, m)'
        BY <1>3 DEF Spent
    <2>2. CASE k = key
        BY <1>1, <1>4, <1>6, <1>9, <2>1, <2>2
    <2>3. CASE k # key
        BY <1>1, <1>4, <1>6, <1>10, <2>1, <2>3 DEF SpentInv
    <2> QED BY <2>2, <2>3
<1> QED BY <1>7, <1>8, <1>11 DEF SpentInv

LEMMA OthersSpend ==
    ASSUME LimiterInv, LimiterInv', SpentInv, [Next]_vars
    PROVE  \/ SpentInv'
           \/ \E r \in Requests : RedisCounts(r) \/ MemoryCounts(r)
<1>1. ASSUME UNCHANGED <<minute, redis, local, admitted, lost>>,
             \A r \in Requests : req'[r].pc = "refused" => req'[r] = req[r]
      PROVE  SpentInv'
    <2>1. RefusedOnlyWhenSpent'
        BY <1>1, SpentStill, RefusedStays DEF Justified, SpentInv
    <2> QED BY <1>1, <2>1 DEF SpentInv, Spent, Held
<1>2. ASSUME NEW r \in Requests, NEW k \in Keys, Arrive(r, k) PROVE SpentInv'
    <2>1. \A s \in Requests : req'[s].pc = "refused" => req'[s] = req[s]
        BY <1>2 DEF Arrive, LimiterInv, TypeOK
    <2> QED BY <1>1, <1>2, <2>1 DEF Arrive
<1>3. ASSUME NEW r \in Requests, RedisFails(r) PROVE SpentInv'
    <2>1. \A s \in Requests : req'[s].pc = "refused" => req'[s] = req[s]
        <3>1. req' = [req EXCEPT ![r] = [req[r] EXCEPT !.pc = "memory"]]
            BY <1>3 DEF RedisFails
        <3>2. [req[r] EXCEPT !.pc = "memory"] \in [pc : {"redis", "memory"}, key : Keys, window : Minutes]
            BY <1>3, Asking DEF RedisFails
        <3> QED BY <3>1, <3>2 DEF LimiterInv, TypeOK
    <2> QED BY <1>1, <1>3, <2>1 DEF RedisFails
<1>4. ASSUME NEW r \in Requests, Leave(r) PROVE SpentInv'
    <2>1. \A s \in Requests : req'[s].pc = "refused" => req'[s] = req[s]
        BY <1>4 DEF Leave, LimiterInv, TypeOK, IdleRequest
    <2> QED BY <1>1, <1>4, <2>1 DEF Leave
<1>5. ASSUME Restart PROVE SpentInv'
    <2>1. /\ local' = [k \in {} |-> 0]
          /\ req' = [r \in Requests |-> IdleRequest]
          /\ UNCHANGED <<minute, redis, sent, lost>>
          /\ \A k \in Keys, m \in Minutes : admitted'["redis"][k][m] = admitted["redis"][k][m]
        BY <1>5 DEF Restart, LimiterInv, TypeOK, Places
    <2>2. \A k \in Keys : Held(k)' = 0
        BY <2>1 DEF Held
    <2>3. \A k \in Keys : Spent("memory", k, minute)' \in Nat
        BY SpentTypes DEF LimiterInv, TypeOK, Spent, Places
    <2>4. \A k \in Keys, m \in Minutes : Spent("redis", k, m)' = Spent("redis", k, m)
        BY <2>1 DEF Spent
    <2>5. RefusedOnlyWhenSpent'
        BY <2>1 DEF RefusedOnlyWhenSpent, IdleRequest
    <2>6. \A k \in Keys : Held(k)' <= Spent("memory", k, minute)'
        BY <2>2, <2>3
    <2>7. \A k \in Keys, m \in Minutes : redis'[k][m] <= Spent("redis", k, m)' \/ Limit <= Spent("redis", k, m)'
        BY <2>1, <2>4 DEF SpentInv
    <2> QED BY <2>5, <2>6, <2>7 DEF SpentInv
<1>6. ASSUME Tick PROVE SpentInv'
    <2>1. minute \in Nat /\ minute' = minute + 1
        BY <1>6, SpentTypes, MinutesAreNaturals DEF Tick
    <2>2. UNCHANGED <<redis, local, req, admitted, lost>>
        BY <1>6 DEF Tick
    <2>3. \A k \in DOMAIN local : local[k].window \in Nat /\ local[k].window <= minute
        BY MinutesAreNaturals DEF LimiterInv, TypeOK, Counted
    <2>4. \A k \in DOMAIN local : local[k].window # minute'
        BY <2>1, <2>3
    <2>5. \A k \in Keys : Held(k)' = 0
        BY <2>2, <2>4 DEF Held
    <2>6. \A k \in Keys : Spent("memory", k, minute)' \in Nat
        BY DEF LimiterInv, TypeOK, Spent, Places
    <2>7. \A k \in Keys : Held(k)' <= Spent("memory", k, minute)'
        BY <2>5, <2>6
    <2>8. RefusedOnlyWhenSpent'
        BY <2>2 DEF SpentInv, RefusedOnlyWhenSpent
    <2>9. \A k \in Keys, m \in Minutes : redis'[k][m] <= Spent("redis", k, m)' \/ Limit <= Spent("redis", k, m)'
        BY <2>2 DEF SpentInv, Spent
    <2> QED BY <2>7, <2>8, <2>9 DEF SpentInv
<1>7. CASE UNCHANGED vars
    BY <1>1, <1>7 DEF vars
<1> QED BY <1>2, <1>3, <1>4, <1>5, <1>6, <1>7 DEF Next

(***************************************************************************)
(* Who is refused has used up the limit of that window, or lost it to      *)
(* counts whose answers did not come (ratelimit.go 49).                    *)
(***************************************************************************)
THEOREM RefusalsAreJustified == Spec => []RefusedOnlyWhenSpent
<1>1. Init => SpentInv
    <2> SUFFICES ASSUME Init PROVE SpentInv
        OBVIOUS
    <2>1. \A k \in Keys, m \in Minutes : redis[k][m] = 0 /\ Spent("redis", k, m) = 0 /\ Spent("memory", k, m) = 0
        BY DEF Init, None, Spent, Places
    <2>2. \A k \in Keys : Held(k) = 0
        BY DEF Held, Init
    <2>3. minute \in Minutes
        BY LimitsAreNumbers DEF Init, Minutes
    <2>4. RefusedOnlyWhenSpent
        BY DEF Init, RefusedOnlyWhenSpent, IdleRequest
    <2>5. 0 <= 0
        OBVIOUS
    <2> QED BY <2>1, <2>2, <2>3, <2>4, <2>5 DEF SpentInv
<1>2. LimiterInv /\ LimiterInv' /\ SpentInv /\ [Next]_vars => SpentInv'
    BY OthersSpend, RedisSpends, MemorySpends
<1>3. SpentInv => RefusedOnlyWhenSpent
    BY DEF SpentInv
<1> QED BY <1>1, <1>2, <1>3, LimiterInvariance, PTL DEF Spec

-----------------------------------------------------------------------------
(* Memory is cleaned.                                                      *)

BucketsInv == IsFiniteSet(DOMAIN local) /\ LeftoversAreBounded

\* A key more than the capacity is tracked only after the cleaning.
LEMMA CleaningBounds ==
    ASSUME LimiterInv, BucketsInv, NEW r \in Requests, MemoryCounts(r)
    PROVE  BucketsInv'
<1>1. PICK key \in Keys : key = req[r].key
    BY Asking DEF MemoryCounts
<1>2. PICK S : S = Kept /\ S \subseteq DOMAIN local
    BY KeptIsHeld
<1>3. /\ DOMAIN local' = S \cup {key}
      /\ \A j \in DOMAIN local' : local'[j].window = IF j = key THEN minute ELSE local[j].window
    BY <1>1, <1>2 DEF MemoryCounts
<1>4. IsFiniteSet(S) /\ IsFiniteSet(DOMAIN local')
    BY <1>2, <1>3, FS_Subset, FS_AddElement DEF BucketsInv
<1>5. ASSUME Cardinality(DOMAIN local') > Capacity, NEW j \in DOMAIN local'
      PROVE  local'[j].window = minute
    <2>1. ~(Cardinality(DOMAIN local) < Capacity)
        <3> SUFFICES ASSUME Cardinality(DOMAIN local) < Capacity PROVE FALSE
            OBVIOUS
        <3>1. S = DOMAIN local
            BY <1>2 DEF Kept
        <3>2. Cardinality(DOMAIN local') \in {Cardinality(S), Cardinality(S) + 1} /\ Cardinality(S) \in Nat
            BY <1>3, <1>4, FS_AddElement, FS_CardinalityType
        <3> QED BY <1>5, <3>1, <3>2, LimitsAreNumbers
    <2>2. \A k \in S : ~(local[k].window < minute)
        BY <1>2, <2>1 DEF Kept
    <2>3. \A k \in DOMAIN local : local[k].window \in Nat /\ local[k].window <= minute /\ minute \in Nat
        BY MinutesAreNaturals DEF LimiterInv, TypeOK, Counted
    <2>4. \A k \in S : local[k].window = minute
        BY <1>2, <2>2, <2>3
    <2> QED BY <1>3, <2>4
<1>6. LeftoversAreBounded'
    BY <1>5 DEF LeftoversAreBounded
<1> QED BY <1>4, <1>6 DEF BucketsInv

(***************************************************************************)
(* Leftovers of earlier windows do not make memory grow beyond its         *)
(* capacity (ratelimit.go 85-94).                                          *)
(***************************************************************************)
THEOREM LeftoversDoNotPileUp == Spec => []LeftoversAreBounded
<1>1. Init => BucketsInv
    <2> SUFFICES ASSUME Init PROVE BucketsInv
        OBVIOUS
    <2>1. DOMAIN local = {}
        BY DEF Init
    <2> QED BY <2>1, FS_EmptySet DEF BucketsInv, LeftoversAreBounded
<1>2. LimiterInv /\ BucketsInv /\ [Next]_vars => BucketsInv'
    <2> SUFFICES ASSUME LimiterInv, BucketsInv, [Next]_vars PROVE BucketsInv'
        OBVIOUS
    <2>1. CASE UNCHANGED local
        BY <2>1 DEF BucketsInv, LeftoversAreBounded
    <2>2. CASE Restart
        <3>1. DOMAIN local' = {}
            BY <2>2 DEF Restart
        <3> QED BY <3>1, FS_EmptySet DEF BucketsInv, LeftoversAreBounded
    <2> QED BY <2>1, <2>2, CleaningBounds DEF Next, Arrive, RedisCounts, RedisFails, Leave, Tick, vars
<1>3. BucketsInv => LeftoversAreBounded
    BY DEF BucketsInv
<1> QED BY <1>1, <1>2, <1>3, LimiterInvariance, PTL DEF Spec
=============================================================================
