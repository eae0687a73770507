---------------------------- MODULE SessionProofs ----------------------------
(***************************************************************************)
(* What holds of BrowserSession for any number of users, tabs and requests *)
(* in flight, whatever becomes of the accounts.                            *)
(*                                                                         *)
(* The argument follows the tokens.  One is issued for the role its user   *)
(* has, with an expiry at most TTL ahead; from then on it lies in the      *)
(* store, in a tab or in a request, and Held says of it that the user      *)
(* still has the role or lost it after the token was issued.               *)
(***************************************************************************)
EXTENDS BrowserSession, TLAPS

Held(token) ==
    /\ token.exp <= now + TTL
    /\ \/ account[token.user] = token.role
       \/ token.exp < lost[token.user][token.role] + TTL

Awaited(k) == k.kind \in {"session", "login"}

CallOK(k) ==
    /\ k.kind # "none" => k.tab \in Tabs
    /\ Awaited(k) /\ k.outcome = "ok" => k.token \in Token
    /\ k.kind = "login" => k.user \in Users /\ (k.outcome = "pending" => k.token = None)
    /\ k.token # None => Held(k.token)

\* A tab that no other has saved over shows what is stored.
TabShowsTheStore ==
    \A t \in Tabs \ foreign : session[t] # None /\ stored # None => stored = session[t]

StoreInv ==
    /\ stored \in Session \cup {None}
    /\ session \in [Tabs -> Session \cup {None}]
    /\ foreign \subseteq Tabs
    /\ IdentityIsTheTokens
    /\ TabShowsTheStore
    /\ stored # None => Held(stored.token)
    /\ \A t \in Tabs : session[t] # None => Held(session[t].token)

CallsInv == call \in [Calls -> Call] /\ \A c \in Calls : CallOK(call[c])

\* One request at a time ends the loading screen of a tab.
OneIsAwaited ==
    \A b, c \in Calls :
        Awaited(call[b]) /\ Awaited(call[c]) /\ call[b].tab = call[c].tab => b = c

ScreenInv == loading \in [Tabs -> BOOLEAN] /\ OneIsAwaited /\ LoadingIsAwaited

IInv == AccessTypeOK /\ StoreInv /\ CallsInv /\ ScreenInv

-----------------------------------------------------------------------------
(* Roles and tokens.                                                       *)

LEMMA RolesAre == Roles = {"viewer", "operator", "reviewer", "admin"}
BY DEF Roles, Rank

LEMMA OperationsAre == Operations = {"read", "create", "moveManifest", "review", "audits"}
BY DEF Operations, Required

LEMMA RequiredRoles == ASSUME NEW op \in Operations PROVE Required[op] \in Roles
BY OperationsAre, RolesAre DEF Required

\* README 41, for every role and every operation.
LEMMA OffersAreAllowed ==
    ASSUME NEW role \in Roles, NEW op \in Operations, Offered(op, role)
    PROVE  Allowed(role, Required[op])
BY OperationsAre, RolesAre DEF Offered, OfferedFrom, Allowed, Required, Rank

LEMMA SessionType == ASSUME NEW token \in Token PROVE SessionOf(token) \in Session /\ SessionOf(token).token = token
BY DEF SessionOf, Session, Token

LEMMA IssuedHeld ==
    ASSUME AccessTypeOK, NEW u \in Users, MayLogIn(u)
    PROVE  /\ Issued(u) \in Token
           /\ Issued(u).exp = now + TTL
           /\ Held(Issued(u))
<1>1. account[u] \in Roles /\ now \in Nat /\ TTL \in Nat
    BY TimesAreNatural DEF AccessTypeOK, MayLogIn, Instants
<1>2. Issued(u) \in Token
    BY <1>1 DEF Issued, Token
<1>3. Issued(u).user = u /\ Issued(u).role = account[u] /\ Issued(u).exp = now + TTL
    BY DEF Issued
<1> QED BY <1>1, <1>2, <1>3 DEF Held

LEMMA HeldStays ==
    ASSUME AccessTypeOK, NEW token \in Token, Held(token),
           \/ UNCHANGED accessVars
           \/ Tick
           \/ \E u \in Users, s \in Roles \cup {"inactive"} : Administer(u, s)
    PROVE  Held(token)'
<1>1. /\ token.user \in Users /\ token.role \in Roles /\ token.exp \in Nat
      /\ now \in Nat /\ TTL \in Nat
    BY TimesAreNatural DEF Token, AccessTypeOK, Instants
<1>2. lost[token.user][token.role] \in Nat
    BY <1>1, TimesAreNatural DEF AccessTypeOK
<1>3. CASE UNCHANGED accessVars
    BY <1>3 DEF accessVars, Held
<1>4. CASE Tick
    BY <1>1, <1>4 DEF Tick, Held
<1>5. ASSUME NEW u \in Users, NEW s \in Roles \cup {"inactive"}, Administer(u, s)
      PROVE  Held(token)'
    <2>1. now' = now /\ account' = [account EXCEPT ![u] = s]
          /\ lost' = IF account[u] = "inactive" THEN lost ELSE [lost EXCEPT ![u][account[u]] = now + 1]
        BY <1>5 DEF Administer
    <2>2. "inactive" \notin Roles
        BY RolesAre
    <2>3. CASE u = token.user /\ account[u] = token.role
        <3>1. lost'[u][token.role] = now + 1
            BY <1>1, <2>1, <2>2, <2>3 DEF AccessTypeOK
        <3> QED BY <1>1, <2>1, <2>3, <3>1 DEF Held
    <2>4. CASE u = token.user /\ account[u] # token.role
        <3>1. lost'[u][token.role] = lost[u][token.role]
            BY <1>1, <2>1, <2>4 DEF AccessTypeOK
        <3> QED BY <1>1, <2>1, <2>4, <3>1 DEF Held
    <2>5. CASE u # token.user
        <3>1. lost'[token.user] = lost[token.user] /\ account'[token.user] = account[token.user]
            BY <1>1, <2>1, <2>5 DEF AccessTypeOK
        <3> QED BY <1>1, <2>1, <2>5, <3>1 DEF Held
    <2> QED BY <2>3, <2>4, <2>5
<1> QED BY <1>3, <1>4, <1>5

LEMMA AccessTypeStays ==
    ASSUME AccessTypeOK,
           \/ UNCHANGED accessVars
           \/ Tick
           \/ \E u \in Users, s \in Roles \cup {"inactive"} : Administer(u, s)
    PROVE  AccessTypeOK'
<1>1. CASE UNCHANGED accessVars
    BY <1>1 DEF accessVars, AccessTypeOK
<1>2. CASE Tick
    BY <1>2, TimesAreNatural DEF Tick, AccessTypeOK, Instants
<1>3. ASSUME NEW u \in Users, NEW s \in Roles \cup {"inactive"}, Administer(u, s)
      PROVE  AccessTypeOK'
    <2>1. now + 1 \in 0 .. MaxTime + 1
        BY TimesAreNatural DEF AccessTypeOK, Instants
    <2>2. lost' \in [Users -> [Roles -> 0 .. MaxTime + 1]]
        BY <1>3, <2>1 DEF Administer, AccessTypeOK
    <2> QED BY <1>3, <2>2 DEF Administer, AccessTypeOK
<1> QED BY <1>1, <1>2, <1>3

-----------------------------------------------------------------------------
(* What a step may do to the store and the signals.                        *)

LEMMA StoreUnchanged ==
    ASSUME AccessTypeOK, StoreInv, UNCHANGED <<stored, session, foreign>>,
           \/ UNCHANGED accessVars
           \/ Tick
           \/ \E u \in Users, s \in Roles \cup {"inactive"} : Administer(u, s)
    PROVE  StoreInv'
<1>1. ASSUME stored # None PROVE Held(stored.token)'
    <2>1. PICK token \in Token : token = stored.token
        BY <1>1 DEF StoreInv, Session
    <2>2. Held(token)'
        BY <1>1, <2>1, HeldStays DEF StoreInv
    <2> QED BY <2>1, <2>2
<1>2. ASSUME NEW t \in Tabs, session[t] # None PROVE Held(session[t].token)'
    <2>1. PICK token \in Token : token = session[t].token
        BY <1>2 DEF StoreInv, Session
    <2>2. Held(token)'
        BY <1>2, <2>1, HeldStays DEF StoreInv
    <2> QED BY <2>1, <2>2
<1> QED BY <1>1, <1>2 DEF StoreInv, IdentityIsTheTokens, TabShowsTheStore

LEMMA StoreSaved ==
    ASSUME StoreInv, NEW t \in Tabs, NEW token \in Token, Held(token),
           Save(t, SessionOf(token)), UNCHANGED accessVars
    PROVE  StoreInv'
<1>1. PICK s \in Session : s = SessionOf(token) /\ s.token = token
    BY SessionType
<1>2. stored' = s /\ session' = [session EXCEPT ![t] = s] /\ foreign' = (foreign \cup Tabs) \ {t}
    BY <1>1 DEF Save
<1>3. session'[t] = s /\ \A u \in Tabs \ {t} : session'[u] = session[u]
    BY <1>2 DEF StoreInv
<1>4. session' \in [Tabs -> Session \cup {None}] /\ foreign' \subseteq Tabs
    BY <1>2 DEF StoreInv
<1>5. IdentityIsTheTokens'
    BY <1>1, <1>2, <1>3 DEF StoreInv, IdentityIsTheTokens
<1>6. TabShowsTheStore'
    BY <1>2, <1>3 DEF TabShowsTheStore
<1>7. \A u \in Tabs : session'[u] # None => Held(session[u].token)'
    BY <1>1, <1>3 DEF StoreInv, Held, accessVars
<1>8. Held(stored.token)'
    BY <1>1, <1>2 DEF Held, accessVars
<1> QED BY <1>2, <1>4, <1>5, <1>6, <1>7, <1>8 DEF StoreInv

\* The store is emptied, whatever the tab does with its own copy.
LEMMA StoreCleared ==
    ASSUME StoreInv, stored' = None, UNCHANGED <<accessVars, foreign>>,
           session' = session \/ \E t \in Tabs : session' = [session EXCEPT ![t] = None]
    PROVE  StoreInv'
<1>1. session' \in [Tabs -> Session \cup {None}]
    BY DEF StoreInv
<1>2. \A t \in Tabs : session'[t] # None => session'[t] = session[t]
    BY DEF StoreInv
<1>3. \A t \in Tabs : session'[t] # None => Held(session[t].token)'
    BY <1>2 DEF StoreInv, Held, accessVars
<1> QED BY <1>1, <1>2, <1>3 DEF StoreInv, IdentityIsTheTokens, TabShowsTheStore

\* A tab takes over what is stored, be it nothing.
LEMMA StoreRead ==
    ASSUME StoreInv, NEW t \in Tabs, session' = [session EXCEPT ![t] = stored],
           foreign' = foreign \ {t}, UNCHANGED <<accessVars, stored>>
    PROVE  StoreInv'
<1>1. session'[t] = stored /\ \A u \in Tabs \ {t} : session'[u] = session[u]
    BY DEF StoreInv
<1>2. session' \in [Tabs -> Session \cup {None}] /\ foreign' \subseteq Tabs
    BY DEF StoreInv
<1>3. IdentityIsTheTokens'
    BY <1>1 DEF StoreInv, IdentityIsTheTokens
<1>4. TabShowsTheStore'
    BY <1>1 DEF StoreInv, TabShowsTheStore
<1>5. \A u \in Tabs : session'[u] # None => Held(session[u].token)'
    BY <1>1 DEF StoreInv, Held, accessVars
<1> QED BY <1>2, <1>3, <1>4, <1>5 DEF StoreInv, Held, accessVars

-----------------------------------------------------------------------------
(* What a step may do to the requests.                                     *)

LEMMA NoCallOK == NoCall \in Call /\ CallOK(NoCall) /\ CallOK(NoCall)' /\ ~Awaited(NoCall)
BY NoneIsNothing DEF NoCall, Call, CallOK, Awaited

LEMMA CallStays ==
    ASSUME AccessTypeOK, NEW k \in Call, CallOK(k),
           \/ UNCHANGED accessVars
           \/ Tick
           \/ \E u \in Users, s \in Roles \cup {"inactive"} : Administer(u, s)
    PROVE  CallOK(k)'
<1>1. k.token # None => k.token \in Token
    BY DEF Call
<1>2. k.token # None => Held(k.token)'
    BY <1>1, HeldStays DEF CallOK
<1> QED BY <1>2 DEF CallOK

LEMMA CallsUnchanged ==
    ASSUME AccessTypeOK, CallsInv, UNCHANGED call,
           \/ UNCHANGED accessVars
           \/ Tick
           \/ \E u \in Users, s \in Roles \cup {"inactive"} : Administer(u, s)
    PROVE  CallsInv'
<1>1. ASSUME NEW c \in Calls PROVE CallOK(call[c])'
    <2>1. PICK k \in Call : k = call[c] /\ CallOK(k)
        BY DEF CallsInv
    <2>2. CallOK(k)'
        BY <2>1, CallStays
    <2> QED BY <2>1, <2>2
<1> QED BY <1>1 DEF CallsInv

\* Every slot keeps its request, drops it, or is the one that takes a new one.
LEMMA SlotStep ==
    ASSUME AccessTypeOK, CallsInv, UNCHANGED accessVars,
           NEW c \in Calls, NEW k \in Call, CallOK(k), NEW base,
           base \in [Calls -> Call], \A b \in Calls : base[b] \in {call[b], NoCall},
           call' = [base EXCEPT ![c] = k]
    PROVE  /\ CallsInv'
           /\ call'[c] = k
           /\ \A b \in Calls \ {c} : call'[b] \in {call[b], NoCall}
<1>1. call' \in [Calls -> Call] /\ call'[c] = k /\ \A b \in Calls \ {c} : call'[b] \in {call[b], NoCall}
    OBVIOUS
<1>2. ASSUME NEW b \in Calls PROVE CallOK(call[b])'
    <2>1. PICK j \in Call : j = call'[b] /\ CallOK(j)
        BY <1>1, NoCallOK DEF CallsInv
    <2>2. CallOK(j)'
        BY <2>1, CallStays
    <2> QED BY <2>1, <2>2
<1> QED BY <1>1, <1>2 DEF CallsInv

LEMMA SlotUpdate ==
    ASSUME AccessTypeOK, CallsInv, UNCHANGED accessVars,
           NEW c \in Calls, NEW k \in Call, CallOK(k), call' = [call EXCEPT ![c] = k]
    PROVE  /\ CallsInv'
           /\ call'[c] = k
           /\ \A b \in Calls \ {c} : call'[b] = call[b]
<1>1. call'[c] = k /\ \A b \in Calls \ {c} : call'[b] = call[b]
    BY DEF CallsInv
<1>2. call \in [Calls -> Call] /\ \A b \in Calls : call[b] \in {call[b], NoCall}
    BY DEF CallsInv
<1>3. PICK base : base = call
    OBVIOUS
<1>4. CallsInv'
    BY <1>2, <1>3, SlotStep
<1> QED BY <1>1, <1>4

LEMMA WithoutTabFacts ==
    ASSUME CallsInv, NEW t \in Tabs
    PROVE  /\ WithoutTab(t) \in [Calls -> Call]
           /\ \A b \in Calls : WithoutTab(t)[b] = IF call[b].tab = t THEN NoCall ELSE call[b]
BY NoCallOK DEF CallsInv, WithoutTab

-----------------------------------------------------------------------------
(* What a step may do to the loading screen.                               *)

\* A request that no loading screen waits for, or that it goes on waiting for.
LEMMA ScreenStays ==
    ASSUME CallsInv, ScreenInv, UNCHANGED loading, NEW c \in Calls,
           \A b \in Calls \ {c} : call'[b] = call[b],
           Awaited(call'[c]) <=> Awaited(call[c]),
           Awaited(call[c]) => call'[c].tab = call[c].tab
    PROVE  ScreenInv'
<1>1. \A b \in Calls : Awaited(call'[b]) <=> Awaited(call[b])
    OBVIOUS
<1>2. \A b \in Calls : Awaited(call[b]) => call'[b].tab = call[b].tab
    OBVIOUS
<1>3. OneIsAwaited'
    BY <1>1, <1>2 DEF ScreenInv, OneIsAwaited, Awaited
<1>4. LoadingIsAwaited'
    BY <1>1, <1>2 DEF ScreenInv, LoadingIsAwaited, Awaited
<1> QED BY <1>3, <1>4 DEF ScreenInv

\* The request a tab waits for comes to its end.
LEMMA ScreenEnds ==
    ASSUME CallsInv, ScreenInv, NEW c \in Calls, Awaited(call[c]),
           call'[c] = NoCall, \A b \in Calls \ {c} : call'[b] = call[b],
           loading' = [loading EXCEPT ![call[c].tab] = FALSE]
    PROVE  ScreenInv'
<1>1. call[c].tab \in Tabs
    BY DEF CallsInv, CallOK, Awaited
<1>2. \A t \in Tabs : loading'[t] = IF t = call[c].tab THEN FALSE ELSE loading[t]
    BY DEF ScreenInv
<1>3. OneIsAwaited'
    BY NoCallOK DEF ScreenInv, OneIsAwaited, Awaited
<1>4. LoadingIsAwaited'
    BY <1>1, <1>2, NoCallOK DEF ScreenInv, OneIsAwaited, LoadingIsAwaited, Awaited
<1> QED BY <1>2, <1>3, <1>4 DEF ScreenInv

-----------------------------------------------------------------------------
(* The steps.                                                              *)

LEMMA InitInv == Init => IInv
<1> SUFFICES ASSUME Init PROVE IInv
    OBVIOUS
<1>1. AccessTypeOK
    BY AccountsHaveRoles, TimesAreNatural DEF Init, AccessInit, AccessTypeOK, Instants
<1>2. StoreInv
    BY DEF Init, StoreInv, IdentityIsTheTokens, TabShowsTheStore
<1>3. CallsInv
    BY NoCallOK DEF Init, CallsInv
<1>4. ScreenInv
    BY NoCallOK DEF Init, ScreenInv, OneIsAwaited, LoadingIsAwaited, Awaited
<1> QED BY <1>1, <1>2, <1>3, <1>4 DEF IInv

LEMMA OpenEmptyInv == ASSUME IInv, NEW t \in Tabs, OpenEmpty(t) PROVE IInv'
<1>1. AccessTypeOK'
    BY AccessTypeStays DEF IInv, OpenEmpty
<1>2. StoreInv'
    BY StoreRead DEF IInv, OpenEmpty
<1>3. call' \in [Calls -> Call] /\ \A b \in Calls : call'[b] = IF call[b].tab = t THEN NoCall ELSE call[b]
    BY WithoutTabFacts DEF IInv, OpenEmpty
<1>4. ASSUME NEW b \in Calls PROVE CallOK(call[b])'
    <2>1. PICK j \in Call : j = call'[b] /\ CallOK(j)
        BY <1>3, NoCallOK DEF IInv, CallsInv
    <2>2. CallOK(j)'
        BY <2>1, CallStays DEF IInv, OpenEmpty
    <2> QED BY <2>1, <2>2
<1>5. \A u \in Tabs : loading'[u] <=> u # t /\ loading[u]
    BY DEF IInv, ScreenInv, OpenEmpty
<1>6. OneIsAwaited'
    BY <1>3, NoCallOK DEF IInv, ScreenInv, OneIsAwaited, Awaited
<1>7. LoadingIsAwaited'
    <2> SUFFICES ASSUME NEW u \in Tabs
                 PROVE  loading'[u] <=> \E b \in Calls : Awaited(call'[b]) /\ call'[b].tab = u
        BY DEF LoadingIsAwaited, Awaited
    <2>1. loading[u] <=> \E b \in Calls : Awaited(call[b]) /\ call[b].tab = u
        BY DEF IInv, ScreenInv, LoadingIsAwaited, Awaited
    <2>2. \A b \in Calls : /\ call[b].tab = t => ~Awaited(call'[b])
                           /\ call[b].tab # t => call'[b] = call[b]
        BY <1>3, NoCallOK
    <2> QED BY <1>5, <2>1, <2>2
<1>8. ScreenInv'
    BY <1>6, <1>7 DEF IInv, ScreenInv, OpenEmpty
<1> QED BY <1>1, <1>2, <1>3, <1>4, <1>8 DEF IInv, CallsInv

LEMMA OpenRestoringInv == ASSUME IInv, NEW t \in Tabs, OpenRestoring(t) PROVE IInv'
<1>1. AccessTypeOK'
    BY AccessTypeStays DEF IInv, OpenRestoring
<1>2. StoreInv'
    BY StoreRead DEF IInv, OpenRestoring
<1>3. PICK token \in Token : token = stored.token /\ Held(token)
    BY DEF IInv, StoreInv, Session, OpenRestoring
<1> DEFINE k == [NoCall EXCEPT !.kind = "session", !.tab = t, !.token = token]
<1>4. PICK c \in Calls : WithoutTab(t)[c] = NoCall /\ call' = [WithoutTab(t) EXCEPT ![c] = k]
    BY <1>3 DEF OpenRestoring
<1>5. k \in Call
    BY NoCallOK DEF Call
<1>6. k.kind = "session" /\ k.tab = t /\ k.token = token /\ k.outcome = "pending"
    BY DEF NoCall
<1> HIDE DEF k
<1>7. CallOK(k)
    BY <1>3, <1>6 DEF CallOK, Awaited
<1>8. PICK base \in [Calls -> Call] : base = WithoutTab(t)
    BY WithoutTabFacts DEF IInv
<1>9. \A b \in Calls : base[b] = IF call[b].tab = t THEN NoCall ELSE call[b]
    BY <1>8, WithoutTabFacts DEF IInv
<1>10. /\ CallsInv'
       /\ call'[c] = k
       /\ \A b \in Calls \ {c} : call'[b] = base[b]
    BY <1>4, <1>5, <1>7, <1>8, <1>9, SlotStep DEF IInv, OpenRestoring
<1>11. \A u \in Tabs : loading'[u] <=> u = t \/ loading[u]
    BY DEF IInv, ScreenInv, OpenRestoring
<1>12. ~Awaited(base[c])
    BY <1>4, <1>8, NoCallOK
<1>13. OneIsAwaited'
    BY <1>6, <1>9, <1>10, NoCallOK DEF IInv, ScreenInv, OneIsAwaited, Awaited
<1>14. LoadingIsAwaited'
    <2> SUFFICES ASSUME NEW u \in Tabs
                 PROVE  loading'[u] <=> \E b \in Calls : Awaited(call'[b]) /\ call'[b].tab = u
        BY DEF LoadingIsAwaited, Awaited
    <2>1. loading[u] <=> \E b \in Calls : Awaited(call[b]) /\ call[b].tab = u
        BY DEF IInv, ScreenInv, LoadingIsAwaited, Awaited
    <2>2. Awaited(call'[c]) /\ call'[c].tab = t
        BY <1>6, <1>10 DEF Awaited
    <2>3. \A b \in Calls \ {c} : /\ call[b].tab = t => ~Awaited(call'[b])
                                 /\ call[b].tab # t => call'[b] = call[b]
        BY <1>9, <1>10, NoCallOK
    <2>4. Awaited(call[c]) => call[c].tab = t
        BY <1>9, <1>12
    <2> QED BY <1>11, <2>1, <2>2, <2>3, <2>4
<1>15. ScreenInv'
    BY <1>13, <1>14 DEF IInv, ScreenInv, OpenRestoring
<1> QED BY <1>1, <1>2, <1>10, <1>15 DEF IInv

LEMMA LoginInv == ASSUME IInv, NEW t \in Tabs, NEW u \in Users, Login(t, u) PROVE IInv'
<1>1. AccessTypeOK' /\ StoreInv'
    BY AccessTypeStays, StoreUnchanged DEF IInv, Login
<1> DEFINE k == [NoCall EXCEPT !.kind = "login", !.tab = t, !.user = u]
<1>2. PICK c \in Calls : Free(c) /\ call' = [call EXCEPT ![c] = k]
    BY DEF Login, Send
<1>3. k \in Call
    BY NoCallOK DEF Call
<1>4. k.kind = "login" /\ k.tab = t /\ k.user = u /\ k.token = None /\ k.outcome = "pending"
    BY DEF NoCall
<1> HIDE DEF k
<1>5. CallOK(k)
    BY <1>4 DEF CallOK, Awaited
<1>6. /\ CallsInv'
      /\ call'[c] = k
      /\ \A b \in Calls \ {c} : call'[b] = call[b]
    BY <1>2, <1>3, <1>5, SlotUpdate DEF IInv, Login
<1>7. /\ ~loading[t]
      /\ \A v \in Tabs : loading'[v] <=> v = t \/ loading[v]
    BY DEF IInv, ScreenInv, Login
<1>8. ~Awaited(call[c])
    BY <1>2 DEF Free, Awaited
<1>9. \A b \in Calls : Awaited(call[b]) => call[b].tab # t
    BY <1>7 DEF IInv, ScreenInv, LoadingIsAwaited, Awaited
<1>10. OneIsAwaited'
    BY <1>4, <1>6, <1>9 DEF IInv, ScreenInv, OneIsAwaited, Awaited
<1>11. LoadingIsAwaited'
    <2> SUFFICES ASSUME NEW v \in Tabs
                 PROVE  loading'[v] <=> \E b \in Calls : Awaited(call'[b]) /\ call'[b].tab = v
        BY DEF LoadingIsAwaited, Awaited
    <2>1. loading[v] <=> \E b \in Calls : Awaited(call[b]) /\ call[b].tab = v
        BY DEF IInv, ScreenInv, LoadingIsAwaited, Awaited
    <2>2. Awaited(call'[c]) /\ call'[c].tab = t
        BY <1>4, <1>6 DEF Awaited
    <2> QED BY <1>6, <1>7, <1>8, <2>1, <2>2
<1>12. ScreenInv'
    BY <1>10, <1>11 DEF IInv, ScreenInv, Login
<1> QED BY <1>1, <1>6, <1>12 DEF IInv

LEMMA LogoutInv == ASSUME IInv, NEW t \in Tabs, Logout(t) PROVE IInv'
<1>1. AccessTypeOK'
    BY AccessTypeStays DEF IInv, Logout
<1>2. StoreInv'
    BY StoreCleared DEF IInv, Logout, SignOut
<1>3. CallsInv'
    BY CallsUnchanged DEF IInv, Logout
<1>4. ScreenInv'
    BY DEF IInv, Logout, ScreenInv, OneIsAwaited, LoadingIsAwaited, Awaited
<1> QED BY <1>1, <1>2, <1>3, <1>4 DEF IInv

LEMMA ActInv == ASSUME IInv, NEW t \in Tabs, NEW op \in Operations, Act(t, op) PROVE IInv'
<1>1. AccessTypeOK' /\ StoreInv'
    BY AccessTypeStays, StoreUnchanged DEF IInv, Act
<1>2. PICK token \in Token \cup {None} : token = StoredToken /\ (token # None => Held(token))
    BY DEF IInv, StoreInv, StoredToken, Session
<1> DEFINE k == [NoCall EXCEPT !.kind = "work", !.tab = t, !.needs = Required[op], !.token = token]
<1>3. PICK c \in Calls : Free(c) /\ call' = [call EXCEPT ![c] = k]
    BY <1>2 DEF Act, Send
<1>4. k \in Call
    BY NoCallOK, RequiredRoles DEF Call
<1>5. k.kind = "work" /\ k.tab = t /\ k.token = token /\ k.outcome = "pending"
    BY DEF NoCall
<1> HIDE DEF k
<1>6. CallOK(k)
    BY <1>2, <1>5 DEF CallOK, Awaited
<1>7. /\ CallsInv'
      /\ call'[c] = k
      /\ \A b \in Calls \ {c} : call'[b] = call[b]
    BY <1>3, <1>4, <1>6, SlotUpdate DEF IInv, Act
<1>8. ScreenInv'
    BY <1>3, <1>5, <1>7, ScreenStays DEF IInv, Act, Free, Awaited
<1> QED BY <1>1, <1>7, <1>8 DEF IInv

LEMMA SlotType == ASSUME IInv, NEW c \in Calls PROVE call[c] \in Call /\ CallOK(call[c])
BY DEF IInv, CallsInv

\* A request is served: no tab notices yet.
LEMMA ServedStep ==
    ASSUME IInv, NEW c \in Calls, NEW k \in Call, CallOK(k), call' = [call EXCEPT ![c] = k],
           k.kind = call[c].kind, k.tab = call[c].tab,
           UNCHANGED <<accessVars, stored, session, loading, foreign>>
    PROVE  IInv'
<1>1. AccessTypeOK' /\ StoreInv'
    BY AccessTypeStays, StoreUnchanged DEF IInv
<1>2. /\ CallsInv'
      /\ call'[c] = k
      /\ \A b \in Calls \ {c} : call'[b] = call[b]
    BY SlotUpdate DEF IInv
<1>3. ScreenInv'
    BY <1>2, ScreenStays DEF IInv, Awaited
<1> QED BY <1>1, <1>2, <1>3 DEF IInv

LEMMA ServeLoginInv ==
    ASSUME IInv, NEW c \in Calls, ServeLogin(c),
           UNCHANGED <<accessVars, stored, session, loading, foreign>>
    PROVE  IInv'
<1>1. PICK j \in Call : j = call[c] /\ CallOK(j) /\ j.kind = "login" /\ j.token = None
    BY SlotType DEF ServeLogin, Pending, CallOK
<1>2. ASSUME MayLogIn(j.user), call' = [call EXCEPT ![c].outcome = "ok", ![c].token = Issued(j.user)]
      PROVE  IInv'
    <2>1. PICK token \in Token : token = Issued(j.user) /\ Held(token)
        BY <1>1, <1>2, IssuedHeld DEF IInv, CallOK
    <2> DEFINE k == [j EXCEPT !.outcome = "ok", !.token = token]
    <2>2. call' = [call EXCEPT ![c] = k]
        BY <1>1, <1>2, <2>1
    <2>3. k \in Call
        BY DEF Call
    <2>4. k.kind = "login" /\ k.tab = j.tab /\ k.user = j.user /\ k.token = token /\ k.outcome = "ok"
        BY <1>1 DEF Call
    <2> HIDE DEF k
    <2>5. CallOK(k)
        BY <1>1, <2>1, <2>4 DEF CallOK
    <2> QED BY <1>1, <2>2, <2>3, <2>4, <2>5, ServedStep
<1>3. ASSUME call' = [call EXCEPT ![c].outcome = "unauthorized"]
      PROVE  IInv'
    <2> DEFINE k == [j EXCEPT !.outcome = "unauthorized"]
    <2>1. call' = [call EXCEPT ![c] = k]
        BY <1>1, <1>3
    <2>2. k \in Call
        BY DEF Call
    <2>3. k.kind = "login" /\ k.tab = j.tab /\ k.user = j.user /\ k.token = None
          /\ k.outcome = "unauthorized"
        BY <1>1 DEF Call
    <2> HIDE DEF k
    <2>4. CallOK(k)
        BY <1>1, <2>3 DEF CallOK
    <2> QED BY <1>1, <2>1, <2>2, <2>3, <2>4, ServedStep
<1> QED BY <1>1, <1>2, <1>3 DEF ServeLogin

LEMMA ServeSessionInv ==
    ASSUME IInv, NEW c \in Calls, ServeSession(c),
           UNCHANGED <<accessVars, stored, session, loading, foreign>>
    PROVE  IInv'
<1>1. PICK j \in Call : j = call[c] /\ CallOK(j) /\ j.kind = "session"
    BY SlotType DEF ServeSession, Pending
<1>2. PICK k : k = [j EXCEPT !.outcome = IF Authenticates(j.token) THEN "ok" ELSE "unauthorized"]
    OBVIOUS
<1>3. call' = [call EXCEPT ![c] = k]
    BY <1>1, <1>2 DEF ServeSession
<1>4. k \in Call
    BY <1>2 DEF Call
<1>5. /\ k.kind = "session" /\ k.tab = j.tab /\ k.token = j.token
      /\ k.outcome = "ok" => j.token \in Token
    BY <1>1, <1>2 DEF Call, Authenticates
<1>6. CallOK(k)
    BY <1>1, <1>5 DEF CallOK
<1> QED BY <1>1, <1>3, <1>4, <1>5, <1>6, ServedStep

LEMMA ServeWorkInv ==
    ASSUME IInv, NEW c \in Calls, ServeWork(c),
           UNCHANGED <<accessVars, stored, session, loading, foreign>>
    PROVE  IInv'
<1>1. PICK j \in Call : j = call[c] /\ CallOK(j) /\ j.kind = "work"
    BY SlotType DEF ServeWork, Pending
<1>2. PICK outcome \in {"ok", "unauthorized", "failed"} :
         call' = [call EXCEPT ![c] = [j EXCEPT !.token = None, !.needs = None, !.outcome = outcome]]
    BY <1>1 DEF ServeWork
<1> DEFINE k == [j EXCEPT !.token = None, !.needs = None, !.outcome = outcome]
<1>3. k \in Call
    BY DEF Call
<1>4. k.kind = "work" /\ k.tab = j.tab /\ k.token = None
    BY <1>1 DEF Call
<1> HIDE DEF k
<1>5. CallOK(k)
    BY <1>1, <1>4 DEF CallOK, Awaited
<1> QED BY <1>1, <1>2, <1>3, <1>4, <1>5, ServedStep DEF k

LEMMA FailInv ==
    ASSUME IInv, NEW c \in Calls, Fail(c),
           UNCHANGED <<accessVars, stored, session, loading, foreign>>
    PROVE  IInv'
<1>1. PICK j \in Call : j = call[c] /\ CallOK(j)
    BY SlotType
<1> DEFINE k == [j EXCEPT !.outcome = "failed", !.token = None, !.needs = None]
<1>2. call' = [call EXCEPT ![c] = k]
    BY <1>1 DEF Fail
<1>3. k \in Call
    BY DEF Call
<1>4. k.kind = j.kind /\ k.tab = j.tab /\ k.user = j.user /\ k.token = None /\ k.outcome = "failed"
    BY DEF Call
<1> HIDE DEF k
<1>5. CallOK(k)
    BY <1>1, <1>4 DEF CallOK
<1> QED BY <1>1, <1>2, <1>3, <1>4, <1>5, ServedStep

LEMMA ServeInv == ASSUME IInv, NEW c \in Calls, Serve(c) PROVE IInv'
BY ServeLoginInv, ServeSessionInv, ServeWorkInv, FailInv DEF Serve

\* The answer to a request that a loading screen waits for is `ok' with a
\* token, or no session comes of it.
LEMMA DeliverInv == ASSUME IInv, NEW c \in Calls, Deliver(c) PROVE IInv'
<1>1. PICK j \in Call : j = call[c] /\ CallOK(j)
    BY SlotType
<1>2. call' = [call EXCEPT ![c] = NoCall] /\ UNCHANGED accessVars
    BY DEF Deliver, Handled
<1>3. /\ CallsInv'
      /\ call'[c] = NoCall
      /\ \A b \in Calls \ {c} : call'[b] = call[b]
    BY <1>2, NoCallOK, SlotUpdate DEF IInv
<1>4. AccessTypeOK'
    BY <1>2, AccessTypeStays DEF IInv
<1>5. CASE Awaited(j) /\ StopLoading(j.tab)
    <2>1. ScreenInv'
        BY <1>1, <1>3, <1>5, ScreenEnds DEF IInv, StopLoading
    <2>2. ASSUME j.outcome = "ok", Save(j.tab, SessionOf(j.token))
          PROVE  StoreInv'
        <3>1. j.tab \in Tabs /\ j.token \in Token /\ Held(j.token)
            BY <1>1, <1>5, <2>2, NoneIsNothing DEF CallOK, Awaited
        <3> QED BY <1>2, <2>2, <3>1, StoreSaved DEF IInv
    <2>3. ASSUME SignOut(j.tab), UNCHANGED foreign
          PROVE  StoreInv'
        <3>1. j.tab \in Tabs
            BY <1>1, <1>5 DEF CallOK, Awaited
        <3> QED BY <1>2, <2>3, <3>1, StoreCleared DEF IInv, SignOut
    <2>4. ASSUME UNCHANGED <<session, foreign>>, stored' \in {None, stored}
          PROVE  StoreInv'
        BY <1>2, <2>4, StoreCleared, StoreUnchanged DEF IInv
    <2>5. StoreInv'
        BY <1>1, <1>5, <2>2, <2>3, <2>4 DEF Deliver, DeliverSession, DeliverLogin, DeliverWork, Awaited
    <2> QED BY <1>3, <1>4, <2>1, <2>5 DEF IInv
<1>6. CASE DeliverWork(c)
    <2>1. StoreInv'
        BY <1>2, <1>6, StoreCleared, StoreUnchanged DEF IInv, DeliverWork
    <2>2. ScreenInv'
        BY <1>3, <1>6, NoCallOK, ScreenStays DEF IInv, DeliverWork, Awaited
    <2> QED BY <1>3, <1>4, <2>1, <2>2 DEF IInv
<1>7. DeliverWork(c) \/ (Awaited(j) /\ StopLoading(j.tab))
    BY <1>1 DEF Deliver, DeliverSession, DeliverLogin, Awaited
<1> QED BY <1>5, <1>6, <1>7

LEMMA NextInv == IInv /\ [Next]_sessionVars => IInv'
<1> SUFFICES ASSUME IInv, [Next]_sessionVars PROVE IInv'
    OBVIOUS
<1>1. ASSUME \/ UNCHANGED accessVars
             \/ Tick
             \/ \E u \in Users, s \in Roles \cup {"inactive"} : Administer(u, s),
             UNCHANGED <<stored, session, loading, call, foreign>>
      PROVE  IInv'
    <2>1. AccessTypeOK' /\ StoreInv' /\ CallsInv'
        BY <1>1, AccessTypeStays, StoreUnchanged, CallsUnchanged DEF IInv
    <2>2. ScreenInv'
        BY <1>1 DEF IInv, ScreenInv, OneIsAwaited, LoadingIsAwaited
    <2> QED BY <2>1, <2>2 DEF IInv
<1>2. CASE UNCHANGED sessionVars
    BY <1>1, <1>2 DEF sessionVars, accessVars
<1> QED BY <1>1, <1>2, OpenEmptyInv, OpenRestoringInv, LoginInv, LogoutInv, ActInv, ServeInv, DeliverInv
        DEF Next, Open

-----------------------------------------------------------------------------

\* The invariant the theorems below rest on: every token on its way or at rest
\* was issued to its user for a role that was held then, a tab that no other has
\* saved over shows what is stored, and each loading screen awaits one request.
THEOREM Invariance == Spec => []IInv
<1>1. Init => IInv
    BY InitInv
<1>2. IInv /\ [Next]_sessionVars => IInv'
    BY NextInv
<1> QED BY <1>1, <1>2, PTL DEF Spec

\* The accounts, the store, the tabs and the requests keep their types.
THEOREM TypeCorrect == Spec => []TypeOK
<1>1. IInv => TypeOK
    BY DEF IInv, StoreInv, CallsInv, ScreenInv, TypeOK
<1> QED BY <1>1, Invariance, PTL

\* No session joins one user's token with the name or role of another.
THEOREM IdentitiesAreNotMixed == Spec => []IdentityIsTheTokens
<1>1. IInv => IdentityIsTheTokens
    BY DEF IInv, StoreInv
<1> QED BY <1>1, Invariance, PTL

\* The server allows what a tab offers, unless another tab has saved since.
THEOREM OffersHold == Spec => []OffersAreHonoured
<1>1. ASSUME IInv PROVE OffersAreHonoured
    <2> SUFFICES ASSUME NEW t \in Tabs \ foreign, session[t] # None, stored # None,
                        NEW op \in Operations, Offered(op, session[t].role)
                 PROVE  Allowed(stored.token.role, Required[op])
        BY DEF OffersAreHonoured
    <2>1. stored = session[t] /\ stored = SessionOf(stored.token) /\ stored.token \in Token
        BY <1>1 DEF IInv, StoreInv, TabShowsTheStore, IdentityIsTheTokens, Session
    <2>2. stored.role = stored.token.role /\ stored.token.role \in Roles
        BY <2>1 DEF SessionOf, Token
    <2> QED BY <2>1, <2>2, OffersAreAllowed
<1> QED BY <1>1, Invariance, PTL

\* The loading screen of a tab and the request that ends it go together.
THEOREM NoScreenIsStranded == Spec => []LoadingIsAwaited
<1>1. IInv => LoadingIsAwaited
    BY DEF IInv, ScreenInv
<1> QED BY <1>1, Invariance, PTL

-----------------------------------------------------------------------------
(* Where the tokens go.                                                    *)

LEMMA ServedToken ==
    ASSUME IInv, NEW c \in Calls, Serve(c)
    PROVE  /\ call'[c].kind = call[c].kind
           /\ call'[c].token \in {call[c].token, None} \/ call'[c].token.exp = now + TTL
           /\ call'[c].outcome = "ok" /\ call[c].kind # "login" => Authenticates(call[c].token)
<1>1. PICK j \in Call : j = call[c]
    BY SlotType
<1>2. \A k : call' = [call EXCEPT ![c] = k] => call'[c] = k
    BY DEF IInv, CallsInv
<1>3. CASE ServeLogin(c)
    <2>1. j.kind = "login"
        BY <1>1, <1>3 DEF ServeLogin, Pending
    <2>2. CASE call' = [call EXCEPT ![c].outcome = "ok", ![c].token = Issued(call[c].user)]
        <3>1. call' = [call EXCEPT ![c] = [j EXCEPT !.outcome = "ok", !.token = Issued(j.user)]]
            BY <1>1, <2>2
        <3>2. call'[c] = [j EXCEPT !.outcome = "ok", !.token = Issued(j.user)]
            BY <3>1 DEF IInv, CallsInv
        <3>3. call'[c].kind = "login" /\ call'[c].token = Issued(j.user)
            BY <2>1, <3>2 DEF Call
        <3> QED BY <1>1, <2>1, <3>3 DEF Issued
    <2>3. CASE call' = [call EXCEPT ![c].outcome = "unauthorized"]
        <3>1. call' = [call EXCEPT ![c] = [j EXCEPT !.outcome = "unauthorized"]]
            BY <1>1, <2>3
        <3>2. call'[c] = [j EXCEPT !.outcome = "unauthorized"]
            BY <3>1 DEF IInv, CallsInv
        <3>3. call'[c].kind = "login" /\ call'[c].token = j.token
            BY <2>1, <3>2 DEF Call
        <3> QED BY <1>1, <2>1, <3>3
    <2> QED BY <1>3, <2>2, <2>3 DEF ServeLogin
<1>4. CASE ServeSession(c)
    <2>1. call' = [call EXCEPT ![c] = [j EXCEPT !.outcome =
                      IF Authenticates(j.token) THEN "ok" ELSE "unauthorized"]]
        BY <1>1, <1>4 DEF ServeSession
    <2>2. call'[c] = [j EXCEPT !.outcome = IF Authenticates(j.token) THEN "ok" ELSE "unauthorized"]
        BY <1>2, <2>1
    <2> QED BY <1>1, <2>2 DEF Call
<1>5. CASE ServeWork(c)
    <2>1. PICK outcome \in {"ok", "unauthorized", "failed"} :
             /\ call' = [call EXCEPT ![c] = [j EXCEPT !.token = None, !.needs = None, !.outcome = outcome]]
             /\ outcome = "ok" => Authenticates(j.token)
        BY <1>1, <1>5 DEF ServeWork
    <2>2. call'[c] = [j EXCEPT !.token = None, !.needs = None, !.outcome = outcome]
        BY <1>2, <2>1
    <2>3. call'[c].kind = j.kind /\ call'[c].token = None /\ call'[c].outcome = outcome
        BY <2>2 DEF Call
    <2> QED BY <1>1, <2>1, <2>3
<1>6. CASE Fail(c)
    <2>1. call'[c] = [j EXCEPT !.outcome = "failed", !.token = None, !.needs = None]
        BY <1>1, <1>2, <1>6 DEF Fail
    <2> QED BY <1>1, <2>1 DEF Call
<1> QED BY <1>3, <1>4, <1>5, <1>6 DEF Serve

\* Only the server answers, and a request leaves with the stored token.
LEMMA CallOrigins ==
    ASSUME IInv, Next, NEW c \in Calls
    PROVE  \/ Serve(c)
           \/ call'[c] = call[c]
           \/ call'[c].outcome = "pending" /\ call'[c].token \in {None, StoredToken}
<1>1. NoCall.outcome = "pending" /\ NoCall.token = None
    BY DEF NoCall
<1>2. CASE UNCHANGED call
    BY <1>2
<1>3. ASSUME NEW b \in Calls, NEW k, call' = [call EXCEPT ![b] = k],
             k.outcome = "pending", k.token \in {None, StoredToken}
      PROVE  call'[c] = call[c] \/ (call'[c].outcome = "pending" /\ call'[c].token \in {None, StoredToken})
    BY <1>3 DEF IInv, CallsInv
<1>4. ASSUME NEW t \in Tabs, OpenEmpty(t)
      PROVE  call'[c] = call[c] \/ call'[c] = NoCall
    BY <1>4, WithoutTabFacts DEF OpenEmpty, IInv
<1>5. ASSUME NEW t \in Tabs, OpenRestoring(t)
      PROVE  call'[c] = call[c] \/ (call'[c].outcome = "pending" /\ call'[c].token \in {None, StoredToken})
    <2> DEFINE k == [NoCall EXCEPT !.kind = "session", !.tab = t, !.token = stored.token]
    <2>1. PICK b \in Calls : call' = [WithoutTab(t) EXCEPT ![b] = k]
        BY <1>5 DEF OpenRestoring
    <2>2. k.outcome = "pending" /\ k.token = StoredToken
        BY <1>5, <2>1 DEF OpenRestoring, NoCall, StoredToken
    <2>3. call'[c] \in {k, call[c], NoCall}
        BY <2>1, WithoutTabFacts DEF IInv
    <2> QED BY <1>1, <2>2, <2>3
<1>6. ASSUME NEW t \in Tabs, NEW u \in Users, Login(t, u)
      PROVE  call'[c] = call[c] \/ (call'[c].outcome = "pending" /\ call'[c].token \in {None, StoredToken})
    <2> DEFINE k == [NoCall EXCEPT !.kind = "login", !.tab = t, !.user = u]
    <2>1. PICK b \in Calls : call' = [call EXCEPT ![b] = k]
        BY <1>6 DEF Login, Send
    <2> QED BY <1>3, <2>1 DEF NoCall
<1>7. ASSUME NEW t \in Tabs, NEW op \in Operations, Act(t, op)
      PROVE  call'[c] = call[c] \/ (call'[c].outcome = "pending" /\ call'[c].token \in {None, StoredToken})
    <2> DEFINE k == [NoCall EXCEPT !.kind = "work", !.tab = t, !.needs = Required[op], !.token = StoredToken]
    <2>1. PICK b \in Calls : call' = [call EXCEPT ![b] = k]
        BY <1>7 DEF Act, Send
    <2> QED BY <1>3, <2>1 DEF NoCall
<1>8. ASSUME NEW b \in Calls, Serve(b) PROVE Serve(c) \/ call'[c] = call[c]
    <2>1. ASSUME b # c PROVE call'[c] = call[c]
        BY <1>8, <2>1 DEF Serve, ServeLogin, ServeSession, ServeWork, Fail, IInv, CallsInv
    <2> QED BY <1>8, <2>1
<1>9. ASSUME NEW b \in Calls, Deliver(b) PROVE call'[c] = call[c] \/ call'[c] = NoCall
    BY <1>9 DEF Deliver, Handled, IInv, CallsInv
<1>10. \A t \in Tabs : Logout(t) => UNCHANGED call
    BY DEF Logout
<1> QED BY <1>1, <1>2, <1>4, <1>5, <1>6, <1>7, <1>8, <1>9, <1>10 DEF Next, Open

-----------------------------------------------------------------------------

\* A token is refused once its user has been without its role for TTL.
THEOREM RevocationReachesEveryToken == Spec => RevokedWithinTTL
<1> DEFINE A == \A c \in Calls :
              call[c].token # None /\ call[c].outcome = "pending" /\ call'[c].outcome = "ok" =>
                  HeldWithinTTL(call[c].token)
<1>1. IInv /\ [Next]_sessionVars => [A]_sessionVars
    <2> SUFFICES ASSUME IInv, Next, NEW c \in Calls, call[c].token # None,
                        call[c].outcome = "pending", call'[c].outcome = "ok"
                 PROVE  HeldWithinTTL(call[c].token)
        BY DEF sessionVars
    <2>1. PICK j \in Call : j = call[c] /\ CallOK(j)
        BY SlotType
    <2>2. j.token \in Token /\ Held(j.token) /\ j.kind # "login"
        BY <2>1 DEF CallOK, Call
    <2>3. Authenticates(j.token)
        <3>1. Serve(c)
            BY CallOrigins
        <3> QED BY <2>1, <2>2, <3>1, ServedToken
    <2>4. now \in Nat /\ TTL \in Nat /\ j.token.exp \in Nat /\ lost[j.token.user][j.token.role] \in Nat
        BY <2>2, TimesAreNatural DEF IInv, AccessTypeOK, Instants, Token
    <2> QED BY <2>1, <2>2, <2>3, <2>4 DEF Held, HeldWithinTTL, Authenticates
<1>2. Spec => [][A]_sessionVars
    BY <1>1, Invariance, PTL DEF Spec
<1> QED BY <1>2 DEF RevokedWithinTTL

LEMMA StoredTokenType ==
    ASSUME IInv
    PROVE  /\ StoredToken \in Token \cup {None}
           /\ stored # None => stored.token \in Token /\ StoredToken = stored.token
BY DEF IInv, StoreInv, Session, StoredToken

\* What is stored was stored, or came as the answer to a login or a restore.
LEMMA StoreOrigins ==
    ASSUME IInv, Next
    PROVE  \/ stored' = None
           \/ stored' = stored
           \/ \E c \in Calls : Awaited(call[c]) /\ call[c].token \in Token /\ stored'.token = call[c].token
<1>1. ASSUME NEW c \in Calls, Deliver(c)
      PROVE  \/ stored' \in {None, stored}
             \/ Awaited(call[c]) /\ call[c].token \in Token /\ stored'.token = call[c].token
    <2>1. ASSUME Awaited(call[c]), call[c].outcome = "ok", Save(call[c].tab, SessionOf(call[c].token))
          PROVE  call[c].token \in Token /\ stored'.token = call[c].token
        BY <2>1, SlotType DEF CallOK, Save, SessionOf
    <2> QED BY <1>1, <2>1 DEF Deliver, DeliverSession, DeliverLogin, DeliverWork, SignOut, Awaited
<1>2. ASSUME NEW t \in Tabs, Open(t) \/ (\E u \in Users : Login(t, u)) \/ Logout(t) \/ (\E op \in Operations : Act(t, op))
      PROVE  stored' \in {None, stored}
    BY <1>2 DEF Open, OpenEmpty, OpenRestoring, Login, Logout, SignOut, Act
<1>3. ASSUME NEW c \in Calls, Serve(c)
      PROVE  stored' = stored
    BY <1>3 DEF Serve
<1> QED BY <1>1, <1>2, <1>3 DEF Next

\* Whoever logs out is logged out for the store too, and nothing but a restore
\* that was under way can bring the session back.
THEOREM LogoutIsFinal == Spec => LogoutLasts
<1> DEFINE Tokens == [user : Users, role : Roles, exp : TTL .. MaxTime + TTL]
           A == /\ \A t \in Tabs : session[t] # None /\ session'[t] = None => stored' = None
                /\ \A token \in Tokens : Gone(token) => Gone(token)'
<1>1. ASSUME IInv, Next, NEW t \in Tabs, session[t] # None, session'[t] = None
      PROVE  stored' = None
    <2>1. session' # session
        BY <1>1
    <2>2. CASE \E u \in Tabs : Open(u) \/ Logout(u)
        BY <1>1, <2>2 DEF Open, OpenEmpty, OpenRestoring, Logout, SignOut, IInv, StoreInv
    <2>3. CASE \E c \in Calls : Deliver(c)
        BY <1>1, <2>3 DEF Deliver, DeliverSession, DeliverLogin, DeliverWork, Save, SignOut, IInv, StoreInv
    <2> QED BY <1>1, <2>1, <2>2, <2>3 DEF Next, Login, Act, Serve
<1>2. ASSUME IInv, Next, IInv', NEW token \in Token, Gone(token)
      PROVE  Gone(token)'
    <2>1. /\ StoredToken # token /\ token.exp < now + TTL
          /\ \A c \in Calls : call[c].token = token => call[c].kind = "work"
        BY <1>2 DEF Gone
    <2>2. StoredToken' # token
        <3>1. CASE stored' = None
            BY <3>1, NoneIsNothing DEF StoredToken
        <3>2. CASE stored' = stored
            BY <2>1, <3>2 DEF StoredToken
        <3>3. ASSUME NEW c \in Calls, Awaited(call[c]), stored'.token = call[c].token, stored' # None
              PROVE  StoredToken' # token
            BY <2>1, <3>3 DEF StoredToken, Awaited
        <3> QED BY <1>2, <3>1, <3>2, <3>3, StoreOrigins
    <2>3. token.exp < now' + TTL
        <3>1. now \in Nat /\ TTL \in Nat /\ token.exp \in Nat
            BY <1>2, TimesAreNatural DEF IInv, AccessTypeOK, Instants, Token
        <3>2. now' = now \/ now' = now + 1
            BY <1>2 DEF Next, Open, OpenEmpty, OpenRestoring, Login, Logout, Act, Serve, Deliver,
                        accessVars, Tick, Administer
        <3> QED BY <2>1, <3>1, <3>2
    <2>4. ASSUME NEW c \in Calls, call'[c].token = token
          PROVE  call'[c].kind = "work"
        <3>1. CASE Serve(c)
            <4>1. now \in Nat /\ TTL \in Nat /\ token.exp \in Nat
                BY <1>2, TimesAreNatural DEF IInv, AccessTypeOK, Instants, Token
            <4> QED BY <1>2, <2>1, <2>4, <3>1, <4>1, ServedToken, NoneIsNothing
        <3>2. CASE call'[c] = call[c]
            BY <2>1, <2>4, <3>2
        <3> QED BY <1>2, <2>1, <2>4, <3>1, <3>2, CallOrigins, NoneIsNothing
    <2> QED BY <2>2, <2>3, <2>4 DEF Gone
<1>3. \A token \in Tokens : token \in Token
    BY TimesAreNatural DEF Token
<1>4. IInv /\ IInv' /\ [Next]_sessionVars => [A]_sessionVars
    BY <1>1, <1>2, <1>3
<1>5. Spec => [][A]_sessionVars
    BY <1>4, Invariance, PTL DEF Spec
<1> QED BY <1>5 DEF LogoutLasts
=============================================================================
