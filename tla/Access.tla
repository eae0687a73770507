------------------------------- MODULE Access --------------------------------
(***************************************************************************)
(* Who may do what: service/security.go (Login), middleware/auth.go, and   *)
(* the roles that the Register functions of handler/ ask for.              *)
(*                                                                         *)
(* A token carries the name and role its user had at login and the time    *)
(* it expires; the users table is not looked at again while it is valid.   *)
(* No operation of the program changes a user: an administrator of the     *)
(* database does.                                                          *)
(***************************************************************************)
EXTENDS Naturals

CONSTANTS
    Users,
    Hired,       \* the role in which each user starts
    Becomes,     \* what an administrator of the database may make of each user
    TTL,         \* config.TokenTTL
    MaxTime      \* bound: the last instant of the clock

Rank  == [viewer |-> 1, operator |-> 2, reviewer |-> 3, admin |-> 4]
Roles == DOMAIN Rank

ASSUME AccountsHaveRoles ==
    /\ Hired \in [Users -> Roles]
    /\ Becomes \in [Users -> SUBSET (Roles \cup {"inactive"})]

ASSUME TimesAreNatural == TTL \in Nat /\ MaxTime \in Nat

VARIABLES
    account,   \* the role of each user, or "inactive"
    lost,      \* when each user last lost each role: that instant plus one, 0 for never
    now        \* the wall clock

accessVars == <<account, lost, now>>

Instants == 0 .. MaxTime
Token    == [user : Users, role : Roles, exp : Nat]

AccessTypeOK ==
    /\ account \in [Users -> Roles \cup {"inactive"}]
    /\ lost \in [Users -> [Roles -> 0 .. MaxTime + 1]]
    /\ now \in Instants

AccessInit ==
    /\ account = Hired
    /\ lost = [u \in Users |-> [r \in Roles |-> 0]]
    /\ now = 0

Administer(u, standing) ==
    /\ standing \in Becomes[u] \ {account[u]}
    /\ account' = [account EXCEPT ![u] = standing]
    /\ lost' = IF account[u] = "inactive" THEN lost
               ELSE [lost EXCEPT ![u][account[u]] = now + 1]
    /\ UNCHANGED now

Tick ==
    /\ now < MaxTime
    /\ now' = now + 1
    /\ UNCHANGED <<account, lost>>

\* FindUserByUsername without its "active = ?".
AnyoneMayLogIn(u) == u \in Users

\* FindUserByUsername finds active users only.
MayLogIn(u) == account[u] # "inactive"

Issued(u) == [user |-> u, role |-> account[u], exp |-> now + TTL]

\* A check that looked at the signature only.
AuthenticatesForEver(token) == token \in Token

Authenticates(token) == token \in Token /\ now < token.exp

\* The decisions behind RequireRoles(admin), as the deletions are.
RequiredOfAdmins ==
    [read |-> "viewer", create |-> "operator", moveManifest |-> "operator",
     review |-> "admin", audits |-> "reviewer"]

\* RequireMinimumRole: what each route the workbench uses asks for.
Required ==
    [read |-> "viewer", create |-> "operator", moveManifest |-> "operator",
     review |-> "reviewer", audits |-> "reviewer"]

Operations == DOMAIN Required

Allowed(role, needed) == Rank[role] >= Rank[needed]

\* When the user last had the role: it has it now, or lost it less than TTL ago.
HeldWithinTTL(token) ==
    \/ account[token.user] = token.role
    \/ lost[token.user][token.role] + TTL > now + 1
=============================================================================
