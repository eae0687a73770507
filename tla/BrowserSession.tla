--------------------------- MODULE BrowserSession ----------------------------
(***************************************************************************)
(* The session as the browser keeps it: hooks/use-auth.ts, api/client.ts,  *)
(* router/guards.ts, app.component.ts.                                     *)
(*                                                                         *)
(* There are two copies: the stored one in localStorage, which all tabs    *)
(* share and every request takes its token from, and the signal of each    *)
(* tab, which decides what the tab shows and offers.  A tab runs one       *)
(* handler at a time; between a request and its answer the other tabs, the *)
(* server and, unless the loading screen hides everything, the user go on. *)
(***************************************************************************)
EXTENDS Access

CONSTANTS
    Tabs,
    Calls,   \* slots for requests in flight
    None     \* no session, no token, no tab

ASSUME NoneIsNothing == None \notin Tabs /\ None \notin Users /\ None \notin Token

Session == [token : Token, user : Users, role : Roles]

VARIABLES
    stored,    \* localStorage
    session,   \* AuthService.session of each tab
    loading,   \* AuthService.loading of each tab
    call,      \* the request in each slot
    foreign    \* the tabs since whose last look at the store another tab saved to it

sessionVars == <<account, lost, now, stored, session, loading, call, foreign>>

Call == [kind    : {"none", "session", "login", "work"},
         tab     : Tabs \cup {None},
         user    : Users \cup {None},
         token   : Token \cup {None},
         needs   : Roles \cup {None},   \* the role its route asks for
         outcome : {"pending", "ok", "unauthorized", "failed"}]

NoCall == [kind |-> "none", tab |-> None, user |-> None, token |-> None,
           needs |-> None, outcome |-> "pending"]

TypeOK ==
    /\ AccessTypeOK
    /\ stored \in Session \cup {None}
    /\ session \in [Tabs -> Session \cup {None}]
    /\ loading \in [Tabs -> BOOLEAN]
    /\ call \in [Calls -> Call]
    /\ foreign \subseteq Tabs

Init ==
    /\ AccessInit
    /\ stored  = None
    /\ session = [t \in Tabs |-> None]
    /\ loading = [t \in Tabs |-> FALSE]
    /\ call    = [c \in Calls |-> NoCall]
    /\ foreign = {}

\* What a login returns, and a cached session updated with what the server
\* says of its token.
SessionOf(token) == [token |-> token, user |-> token.user, role |-> token.role]

StoredToken    == IF stored = None THEN None ELSE stored.token
Free(c)        == call[c].kind = "none"
Send(c, new)   == Free(c) /\ call' = [call EXCEPT ![c] = new]

\* The slots once a tab is loaded anew: nobody waits for its answers any more.
WithoutTab(t) == [c \in Calls |-> IF call[c].tab = t THEN NoCall ELSE call[c]]

\* saveSession and session.set, one after the other in one handler.
Save(t, s) ==
    /\ stored'  = s
    /\ session' = [session EXCEPT ![t] = s]
    /\ foreign' = (foreign \cup Tabs) \ {t}

SignOut(t) ==
    /\ stored'  = None
    /\ session' = [session EXCEPT ![t] = None]

-----------------------------------------------------------------------------
(* What the user does in a tab.                                            *)

\* The page is loaded or loaded anew: the signal starts with what is stored,
\* and restore asks the server whether it still holds.
OpenEmpty(t) ==
    /\ stored = None
    /\ session' = [session EXCEPT ![t] = None]
    /\ loading' = [loading EXCEPT ![t] = FALSE]
    /\ call'    = WithoutTab(t)
    /\ foreign' = foreign \ {t}
    /\ UNCHANGED <<accessVars, stored>>

OpenRestoring(t) ==
    /\ stored # None
    /\ session' = [session EXCEPT ![t] = stored]
    /\ loading' = [loading EXCEPT ![t] = TRUE]
    /\ \E c \in Calls :
          /\ WithoutTab(t)[c] = NoCall
          /\ call' = [WithoutTab(t) EXCEPT ![c] =
                         [NoCall EXCEPT !.kind = "session", !.tab = t, !.token = stored.token]]
    /\ foreign' = foreign \ {t}
    /\ UNCHANGED <<accessVars, stored>>

\* The login page is shown to nobody who is logged in (loginGuard).
Login(t, u) ==
    /\ session[t] = None
    /\ ~loading[t]
    /\ \E c \in Calls :
          Send(c, [NoCall EXCEPT !.kind = "login", !.tab = t, !.user = u])
    /\ loading' = [loading EXCEPT ![t] = TRUE]
    /\ UNCHANGED <<accessVars, stored, session, foreign>>

Logout(t) ==
    /\ session[t] # None
    /\ ~loading[t]
    /\ SignOut(t)
    /\ UNCHANGED <<accessVars, loading, call, foreign>>

\* Buttons, navigation and guards go by the role of the signal.
OfferedFrom ==
    [read |-> "viewer", create |-> "operator", moveManifest |-> "operator",
     review |-> "reviewer", audits |-> "reviewer"]

Offered(op, role) == Rank[role] >= Rank[OfferedFrom[op]]

Act(t, op) ==
    /\ session[t] # None
    /\ ~loading[t]
    /\ Offered(op, session[t].role)
    /\ \E c \in Calls :
          Send(c, [NoCall EXCEPT !.kind = "work", !.tab = t, !.needs = Required[op], !.token = StoredToken])
    /\ UNCHANGED <<accessVars, stored, session, loading, foreign>>

-----------------------------------------------------------------------------
(* What the server makes of a request.  It may also fail it, or the answer *)
(* is lost.                                                                *)

Pending(c, kind) == call[c].kind = kind /\ call[c].outcome = "pending"

ServeLogin(c) ==
    /\ Pending(c, "login")
    /\ \/ /\ MayLogIn(call[c].user)
          /\ call' = [call EXCEPT ![c].outcome = "ok", ![c].token = Issued(call[c].user)]
       \/ call' = [call EXCEPT ![c].outcome = "unauthorized"]   \* a wrong password, or no active user

ServeSession(c) ==
    /\ Pending(c, "session")
    /\ call' = [call EXCEPT ![c].outcome = IF Authenticates(call[c].token) THEN "ok" ELSE "unauthorized"]

\* An answer to work carries neither the token nor what the route asks for,
\* and a 403 is to the page a failure like any other.
ServeWork(c) ==
    /\ Pending(c, "work")
    /\ call' = [call EXCEPT
                   ![c] = [@ EXCEPT !.token = None, !.needs = None,
                             !.outcome = IF ~Authenticates(call[c].token) THEN "unauthorized"
                                         ELSE IF Allowed(call[c].token.role, call[c].needs) THEN "ok"
                                         ELSE "failed"]]

Fail(c) ==
    /\ ~Free(c)
    /\ call[c].outcome = "pending"
    /\ call' = [call EXCEPT ![c] = [@ EXCEPT !.outcome = "failed", !.token = None, !.needs = None]]

Serve(c) ==
    /\ ServeLogin(c) \/ ServeSession(c) \/ ServeWork(c) \/ Fail(c)
    /\ UNCHANGED <<accessVars, stored, session, loading, foreign>>

-----------------------------------------------------------------------------
(* What the tab makes of an answer.  `request' clears the store on a 401,  *)
(* whichever session it holds by then.                                     *)

Handled(c) == call[c].outcome # "pending" /\ call' = [call EXCEPT ![c] = NoCall]

StopLoading(t) == loading' = [loading EXCEPT ![t] = FALSE]

\* restore, had it read the store again instead of what it began with.
DeliverSessionReread(c) ==
    LET t == call[c].tab IN
    /\ call[c].kind = "session"
    /\ \/ /\ call[c].outcome = "ok"
          /\ stored # None
          /\ Save(t, [SessionOf(call[c].token) EXCEPT !.token = stored.token])
       \/ /\ call[c].outcome = "ok" => stored = None
          /\ SignOut(t) /\ UNCHANGED foreign
    /\ StopLoading(t)

DeliverSession(c) ==
    LET t == call[c].tab IN
    /\ call[c].kind = "session"
    /\ \/ call[c].outcome = "ok" /\ Save(t, SessionOf(call[c].token))
       \/ call[c].outcome # "ok" /\ SignOut(t) /\ UNCHANGED foreign
    /\ StopLoading(t)

\* login without its finally.
DeliverLoginLoading(c) ==
    LET t == call[c].tab IN
    /\ call[c].kind = "login"
    /\ \/ call[c].outcome = "ok" /\ Save(t, SessionOf(call[c].token)) /\ StopLoading(t)
       \/ /\ call[c].outcome # "ok"
          /\ stored' = IF call[c].outcome = "unauthorized" THEN None ELSE stored
          /\ UNCHANGED <<session, loading, foreign>>

DeliverLogin(c) ==
    LET t == call[c].tab IN
    /\ call[c].kind = "login"
    /\ \/ call[c].outcome = "ok" /\ Save(t, SessionOf(call[c].token))
       \/ /\ call[c].outcome # "ok"
          /\ stored' = IF call[c].outcome = "unauthorized" THEN None ELSE stored
          /\ UNCHANGED <<session, foreign>>
    /\ StopLoading(t)

\* A page that saved the session of its tab again after every answer.
DeliverWorkSavingBack(c) ==
    /\ call[c].kind = "work"
    /\ stored' = IF call[c].outcome = "ok" THEN session[call[c].tab] ELSE stored
    /\ UNCHANGED <<session, loading, foreign>>

DeliverWork(c) ==
    /\ call[c].kind = "work"
    /\ stored' = IF call[c].outcome = "unauthorized" THEN None ELSE stored
    /\ UNCHANGED <<session, loading, foreign>>

Deliver(c) ==
    /\ Handled(c)
    /\ DeliverSession(c) \/ DeliverLogin(c) \/ DeliverWork(c)
    /\ UNCHANGED accessVars

-----------------------------------------------------------------------------

Open(t) == OpenEmpty(t) \/ OpenRestoring(t)

Next ==
    \/ \E t \in Tabs :
          \/ Open(t)
          \/ \E u \in Users : Login(t, u)
          \/ Logout(t)
          \/ \E op \in Operations : Act(t, op)
    \/ \E c \in Calls : Serve(c) \/ Deliver(c)
    \/ /\ Tick \/ \E u \in Users, s \in Roles \cup {"inactive"} : Administer(u, s)
       /\ UNCHANGED <<stored, session, loading, call, foreign>>

Spec == Init /\ [][Next]_sessionVars

-----------------------------------------------------------------------------

\* A session never carries one user's token under the name or the role of
\* another, in the store or in any tab: restore writes back the session it
\* began with, whatever was stored or cleared while it waited (use-auth.ts 20).
IdentityIsTheTokens ==
    /\ stored # None => stored = SessionOf(stored.token)
    /\ \A t \in Tabs : session[t] # None => session[t] = SessionOf(session[t].token)

\* README 41: the middleware, the guards, the navigation and the buttons agree.
\* What a tab offers its user, the server allows the token that the tab would
\* send, unless another tab has saved a session since this one last looked.
OffersAreHonoured ==
    \A t \in Tabs \ foreign :
        session[t] # None /\ stored # None =>
            \A op \in Operations : Offered(op, session[t].role) => Allowed(stored.token.role, Required[op])

\* Nobody is served with a role longer than TTL after losing it: the token of
\* a user who was demoted or deactivated goes on working, but not for ever.
RevokedWithinTTL ==
    [][\A c \in Calls :
          call[c].token # None /\ call[c].outcome = "pending" /\ call'[c].outcome = "ok" =>
              HeldWithinTTL(call[c].token)
      ]_sessionVars

\* A token that no answer on its way can bring back into the store.
Gone(token) ==
    /\ StoredToken # token
    /\ token.exp < now + TTL
    /\ \A c \in Calls : call[c].token = token => call[c].kind = "work"

\* Logging out ends the session for the store too, not only for the tab, and
\* it lasts: a tab that still shows the old session cannot bring it back,
\* only a restore that was already waiting when the user logged out can.
LogoutLasts ==
    [][/\ \A t \in Tabs : session[t] # None /\ session'[t] = None => stored' = None
       /\ \A token \in [user : Users, role : Roles, exp : TTL .. MaxTime + TTL] :
             Gone(token) => Gone(token)'
      ]_sessionVars

\* The loading screen hides everything else, so it must not outlive what it
\* waits for: while it is shown, the answer that ends it is on its way.
LoadingIsAwaited ==
    \A t \in Tabs :
        loading[t] <=> \E c \in Calls : call[c].kind \in {"session", "login"} /\ call[c].tab = t
=============================================================================
