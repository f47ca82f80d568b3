-------------------------------- MODULE Access --------------------------------
(***************************************************************************)
(* Roles, permissions and the rights that access tokens carry; machine     *)
(* credentials (IdentityService, AuthService.issue, AuthRepository,        *)
(* AuthGuard, PermissionGuard, MachineAuthGuard).                          *)
(*                                                                         *)
(* A token carries the permissions its user had when they were read; a     *)
(* change of rights ends the sessions instead of the tokens.  Login reads  *)
(* the rights long before it opens the session.                            *)
(***************************************************************************)
EXTENDS Naturals, FiniteSets, Rows

CONSTANTS
    Roles,          \* roles that may be created
    Permissions,    \* permission keys
    Users,          \* users
    Logins,         \* sessions that may be opened
    UserOf,         \* [Logins -> Users]
    Credentials,    \* API credentials that may be created
    Requesters,     \* concurrent HTTP requests
    MaxChanges      \* bound on the changes of roles and permissions

ASSUME AccessAssumption ==
    UserOf \in [Logins -> Users] /\ MaxChanges \in Nat /\ None \notin Logins \cup Credentials

VARIABLES
    granted,        \* [Roles -> SUBSET Permissions]: RolePermission rows
    roles,          \* Role rows
    holds,          \* [Users -> SUBSET Roles]: UserRole rows
    login,          \* UserSession: "NONE", "LIVE" or "REVOKED"
    claims,         \* [Logins -> SUBSET SUBSET Permissions]: its unexpired access tokens
    key,            \* ApiCredential: "NONE", "LIVE" or "REVOKED"
    client,         \* what a request has read and goes on to write
    changes         \* changes of rights so far

accessVars == <<granted, roles, holds, login, claims, key, client, changes>>

ClientIdle == [op |-> "idle", on |-> None, rights |-> {}]

AccessInit ==
    /\ granted = [r \in Roles |-> {}] /\ roles = {} /\ holds = [u \in Users |-> {}]
    /\ login = [s \in Logins |-> "NONE"] /\ claims = [s \in Logins |-> {}]
    /\ key = [k \in Credentials |-> "NONE"]
    /\ client = [c \in Requesters |-> ClientIdle] /\ changes = 0

\* AuthRepository.mapUser: the permissions of the user's roles.
Rights(u) == UNION {granted[r] : r \in holds[u]}

ClientReads(c, op, x, rights) ==
    /\ client[c] = ClientIdle
    /\ client' = [client EXCEPT ![c] = [op |-> op, on |-> x, rights |-> rights]]
    /\ UNCHANGED <<granted, roles, holds, login, claims, key, changes>>

ClientWrites(c, op, x) ==
    /\ client[c].op = op /\ client[c].on = x
    /\ client' = [client EXCEPT ![c] = ClientIdle]

-----------------------------------------------------------------------------
(***************************************************************************)
(* Administration.                                                         *)
(***************************************************************************)

CreateRole(r) ==
    /\ r \notin roles
    /\ roles' = roles \cup {r}
    /\ UNCHANGED <<granted, holds, login, claims, key, client, changes>>

\* Mutant: the sessions of those who hold the role go on.
EndedByNone(affected) == login

\* The sessions of these users that are not revoked yet.
Ended(affected) ==
    [s \in Logins |-> IF login[s] = "LIVE" /\ UserOf[s] \in affected THEN "REVOKED" ELSE login[s]]

RightsChanged(affected) ==
    /\ changes < MaxChanges /\ changes' = changes + 1
    /\ login' = Ended(affected)
    /\ UNCHANGED <<roles, claims, key, client>>

\* Role and permissions are looked up before; neither is ever deleted. The
\* permissions and the sessions change in one transaction.
SetPermissions(r, permissions) ==
    /\ r \in roles
    /\ granted' = [granted EXCEPT ![r] = permissions]
    /\ UNCHANGED holds
    /\ RightsChanged({u \in Users : r \in holds[u]})

\* Also the roles a user is created with.
SetUserRoles(u, chosen) ==
    /\ chosen \subseteq roles
    /\ holds' = [holds EXCEPT ![u] = chosen]
    /\ UNCHANGED granted
    /\ RightsChanged({u})

-----------------------------------------------------------------------------
(***************************************************************************)
(* Sessions.                                                               *)
(***************************************************************************)

\* findPasswordUser; password and code are verified between this and the session.
LoginRead(c, s) == login[s] = "NONE" /\ ClientReads(c, "login", s, Rights(UserOf[s]))

\* The session is stored and its first token signed.
OpenLogin(c, s) ==
    /\ login[s] = "NONE" /\ ClientWrites(c, "login", s)
    /\ login' = [login EXCEPT ![s] = "LIVE"]
    /\ claims' = [claims EXCEPT ![s] = @ \cup {client[c].rights}]
    /\ UNCHANGED <<granted, roles, holds, key, changes>>

\* The rotation reads the session and the user's rights in one transaction.
RefreshRead(c, s) == login[s] = "LIVE" /\ ClientReads(c, "refresh", s, Rights(UserOf[s]))

\* The new token is signed after it, and the session may have ended meanwhile.
Refresh(c, s) ==
    /\ ClientWrites(c, "refresh", s)
    /\ claims' = [claims EXCEPT ![s] = @ \cup {client[c].rights}]
    /\ UNCHANGED <<granted, roles, holds, login, key, changes>>

\* An access token is accepted for its lifetime.
TokenExpires(s, k) ==
    /\ k \in claims[s]
    /\ claims' = [claims EXCEPT ![s] = @ \ {k}]
    /\ UNCHANGED <<granted, roles, holds, login, key, client, changes>>

Logout(s) ==
    /\ login[s] = "LIVE"
    /\ login' = [login EXCEPT ![s] = "REVOKED"]
    /\ UNCHANGED <<granted, roles, holds, claims, key, client, changes>>

\* What AuthGuard and PermissionGuard let through: the session is looked up, the
\* permission is the token's.
Allowed(s, p) == login[s] = "LIVE" /\ \E k \in claims[s] : p \in k

-----------------------------------------------------------------------------
(***************************************************************************)
(* Machine credentials.                                                    *)
(***************************************************************************)

CreateCredential(k) ==
    /\ key[k] = "NONE"
    /\ key' = [key EXCEPT ![k] = "LIVE"]
    /\ UNCHANGED <<granted, roles, holds, login, claims, client, changes>>

RevokeCredential(k) ==
    /\ key[k] = "LIVE"
    /\ key' = [key EXCEPT ![k] = "REVOKED"]
    /\ UNCHANGED <<granted, roles, holds, login, claims, client, changes>>

Known(k) == key[k] = "LIVE"

UseCredentialRead(c, k) == Known(k) /\ ClientReads(c, "key", k, {})

\* lastUsedAt is written by id, and the request goes on.
UseCredential(c, k) ==
    /\ ClientWrites(c, "key", k)
    /\ UNCHANGED <<granted, roles, holds, login, claims, key, changes>>

AccessNext ==
    \/ \E r \in Roles : CreateRole(r)
    \/ \E r \in Roles, permissions \in SUBSET Permissions : SetPermissions(r, permissions)
    \/ \E u \in Users, chosen \in SUBSET Roles : SetUserRoles(u, chosen)
    \/ \E c \in Requesters, s \in Logins :
          LoginRead(c, s) \/ OpenLogin(c, s) \/ RefreshRead(c, s) \/ Refresh(c, s)
    \/ \E s \in Logins, k \in SUBSET Permissions : TokenExpires(s, k)
    \/ \E s \in Logins : Logout(s)
    \/ \E k \in Credentials : CreateCredential(k) \/ RevokeCredential(k)
    \/ \E c \in Requesters, k \in Credentials : UseCredentialRead(c, k) \/ UseCredential(c, k)

AccessSpec == AccessInit /\ [][AccessNext]_accessVars

-----------------------------------------------------------------------------
(***************************************************************************)
(* Properties.                                                             *)
(***************************************************************************)

\* What a user may do beyond the rights it has now.
Excess(s) == {p \in Permissions : Allowed(s, p)} \ Rights(UserOf[s])

\* A session goes beyond its user's rights only by a login that had read them
\* before they were taken away: every change of rights ends the sessions that
\* hold older tokens, also those signed by a refresh that overlapped it
\* (setPermissions, setUserRoles, issue, AuthGuard).
ExcessOnlyByAnOldLogin ==
    [][\A s \in Logins :
          Excess(s)' # {} =>
             \/ Excess(s) # {}
             \/ \E c \in Requesters : /\ client[c].op = "login" /\ client[c].on = s
                                      /\ ~(client[c].rights \subseteq Rights(UserOf[s]))
      ]_accessVars

Using(k) == {c \in Requesters : client[c].op = "key" /\ client[c].on = k}

\* A revoked machine credential is accepted only by a request that had looked it
\* up before it was revoked (MachineAuthGuard).
RevokedKeyIsRefused ==
    [][\A k \in Credentials : key[k] = "REVOKED" =>
          Using(k)' \subseteq Using(k)]_accessVars
=============================================================================
