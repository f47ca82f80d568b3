------------------------------- MODULE Sessions --------------------------------
(***************************************************************************)
(* The sessions of one user: login with a password and a second factor,    *)
(* rotation of refresh tokens, revocation and password reset (AuthService, *)
(* AuthRepository, MfaService, RecoveryService).                           *)
(*                                                                         *)
(* Each row is claimed by a conditional update after it was read; between  *)
(* the two, and between the statements of a revocation, others may act.    *)
(***************************************************************************)
EXTENDS Naturals, FiniteSets, Rows

CONSTANTS
    Sessions,      \* user sessions that may be opened
    Tokens,        \* refresh tokens that may be issued
    Codes,         \* one-time codes of the second factor
    ResetTokens,   \* identity tokens that may be mailed
    Agents,        \* concurrent HTTP requests
    MaxPassword    \* bound on the number of passwords

ASSUME SessionsAssumption ==
    /\ MaxPassword \in Nat
    /\ None \notin Sessions \cup Tokens \cup Codes \cup ResetTokens

VARIABLES
    password,    \* number of the current password
    session,     \* UserSession: "NONE", "LIVE", "REVOKED"
    openedBy,    \* the code a session was opened with
    token,       \* RefreshToken: session, consumedAt and revokedAt set
    spent,       \* codes consumed: lastUsedStep, MfaRecoveryCode.consumedAt
    resetToken,  \* IdentityToken: "NONE", "SENT", "CONSUMED"
    resets,      \* how often a token changed the password
    agent        \* what a request has read and goes on to write

sessionsVars == <<password, session, openedBy, token, spent, resetToken, resets, agent>>

NoToken == [of |-> None, consumed |-> FALSE, revoked |-> FALSE]
AgentIdle == [op |-> "idle", on |-> None, seen |-> {}]

SessionsInit ==
    /\ password = 1 /\ session = [s \in Sessions |-> "NONE"]
    /\ openedBy = [s \in Sessions |-> None] /\ token = [t \in Tokens |-> NoToken]
    /\ spent = {} /\ resetToken = [r \in ResetTokens |-> "NONE"]
    /\ resets = [r \in ResetTokens |-> 0]
    /\ agent = [c \in Agents |-> AgentIdle]

AgentReads(c, op, x, seen) ==
    /\ agent[c] = AgentIdle
    /\ agent' = [agent EXCEPT ![c] = [op |-> op, on |-> x, seen |-> seen]]
    /\ UNCHANGED <<password, session, openedBy, token, spent, resetToken, resets>>

AgentGoesOn(c, op, x, next) ==
    /\ agent[c].op = op /\ agent[c].on = x
    /\ agent' = [agent EXCEPT ![c] = next]

AgentWrites(c, op, x) == AgentGoesOn(c, op, x, AgentIdle)

Usable(t) == token[t].of # None /\ ~token[t].consumed /\ ~token[t].revoked

\* Every token of these sessions that is not revoked yet.
TokensRevoked(ended) ==
    [t \in Tokens |-> [token[t] EXCEPT !.revoked = @ \/ token[t].of \in ended]]

SessionsRevoked(ended) ==
    [s \in Sessions |-> IF s \in ended THEN "REVOKED" ELSE session[s]]

LiveSessions == {s \in Sessions : session[s] = "LIVE"}

-----------------------------------------------------------------------------
(***************************************************************************)
(* Login: the password is verified, the code claimed, the session opened.  *)
(***************************************************************************)

Login(c, code) == AgentReads(c, "code", code, {})

Unspent(code) == code \notin spent

ClaimCode(c, code) ==
    /\ Unspent(code)
    /\ AgentGoesOn(c, "code", code, [op |-> "open", on |-> code, seen |-> {}])
    /\ spent' = spent \cup {code}
    /\ UNCHANGED <<password, session, openedBy, token, resetToken, resets>>

CodeRefused(c, code) ==
    /\ ~Unspent(code)
    /\ AgentWrites(c, "code", code)
    /\ UNCHANGED <<password, session, openedBy, token, spent, resetToken, resets>>

\* Session and first token in one transaction.
CreateSession(c, code, s, t) ==
    /\ session[s] = "NONE" /\ token[t] = NoToken
    /\ AgentWrites(c, "open", code)
    /\ session' = [session EXCEPT ![s] = "LIVE"]
    /\ openedBy' = [openedBy EXCEPT ![s] = code]
    /\ token' = [token EXCEPT ![t].of = s]
    /\ UNCHANGED <<password, spent, resetToken, resets>>

-----------------------------------------------------------------------------
(***************************************************************************)
(* Rotation.                                                               *)
(***************************************************************************)

\* A token presented after it was consumed goes on to end its family.
RotateRead(c, t) ==
    /\ token[t].of # None
    /\ \/ token[t].consumed
       \/ ~token[t].revoked /\ session[token[t].of] = "LIVE"
    /\ AgentReads(c, IF token[t].consumed THEN "reused" ELSE "rotate", t, {})

\* Mutant: only consumption is compared by the claim.
UsableRevoked(t) == ~token[t].consumed

Claimable(t) == Usable(t)

RotateClaimed(c, t, new) ==
    /\ Claimable(t) /\ token[new] = NoToken
    /\ AgentWrites(c, "rotate", t)
    /\ token' = [token EXCEPT ![t].consumed = TRUE, ![new].of = token[t].of]
    /\ UNCHANGED <<password, session, openedBy, spent, resetToken, resets>>

EndFamily(t) ==
    /\ token' = TokensRevoked({token[t].of})
    /\ session' = SessionsRevoked({token[t].of})
    /\ UNCHANGED <<password, openedBy, spent, resetToken, resets>>

RotateReused(c, t) == AgentWrites(c, "reused", t) /\ EndFamily(t)

RotateLost(c, t) == ~Claimable(t) /\ AgentWrites(c, "rotate", t) /\ EndFamily(t)

-----------------------------------------------------------------------------
(***************************************************************************)
(* Revocation and password reset.                                          *)
(***************************************************************************)

\* Session first, its tokens in a statement of their own.
Revoke(c, s) ==
    /\ session[s] = "LIVE" /\ agent[c] = AgentIdle
    /\ session' = [session EXCEPT ![s] = "REVOKED"]
    /\ agent' = [agent EXCEPT ![c] = [op |-> "revoke", on |-> s, seen |-> {}]]
    /\ UNCHANGED <<password, openedBy, token, spent, resetToken, resets>>

RevokeTokens(c, s) ==
    /\ AgentWrites(c, "revoke", s)
    /\ token' = TokensRevoked({s})
    /\ UNCHANGED <<password, session, openedBy, spent, resetToken, resets>>

RevokeAllRead(c) == LiveSessions # {} /\ AgentReads(c, "revokeAll", None, LiveSessions)

RevokeAll(c) ==
    /\ AgentWrites(c, "revokeAll", None)
    /\ session' = SessionsRevoked(agent[c].seen)
    /\ token' = TokensRevoked(agent[c].seen)
    /\ UNCHANGED <<password, openedBy, spent, resetToken, resets>>

\* A new token consumes the ones mailed before.
RequestReset(r) ==
    /\ resetToken[r] = "NONE" /\ password < MaxPassword
    /\ resetToken' = [x \in ResetTokens |->
          IF x = r THEN "SENT" ELSE IF resetToken[x] = "SENT" THEN "CONSUMED" ELSE resetToken[x]]
    /\ UNCHANGED <<password, session, openedBy, token, spent, resets, agent>>

ResetRead(c, r) == resetToken[r] = "SENT" /\ AgentReads(c, "reset", r, {})

ResetClaimable(r) == resetToken[r] = "SENT"

ResetClaim(c, r) ==
    /\ AgentGoesOn(c, "reset", r,
                   IF ResetClaimable(r) THEN [op |-> "password", on |-> r, seen |-> {}]
                   ELSE AgentIdle)
    /\ resetToken' = [resetToken EXCEPT ![r] = "CONSUMED"]
    /\ UNCHANGED <<password, session, openedBy, token, spent, resets>>

\* Password, sessions and tokens in one transaction after the claim's.
ResetPassword(c, r) ==
    /\ AgentWrites(c, "password", r)
    /\ password' = password + 1
    /\ resets' = [resets EXCEPT ![r] = @ + 1]
    /\ session' = SessionsRevoked(LiveSessions)
    /\ token' = TokensRevoked(Sessions)
    /\ UNCHANGED <<openedBy, spent, resetToken>>

SessionsNext ==
    \/ \E r \in ResetTokens : RequestReset(r)
    \/ \E c \in Agents :
          \/ \E code \in Codes :
                \/ Login(c, code) \/ ClaimCode(c, code) \/ CodeRefused(c, code)
                \/ \E s \in Sessions, t \in Tokens : CreateSession(c, code, s, t)
          \/ \E t \in Tokens :
                \/ RotateRead(c, t) \/ RotateReused(c, t) \/ RotateLost(c, t)
                \/ \E new \in Tokens : RotateClaimed(c, t, new)
          \/ \E s \in Sessions : Revoke(c, s) \/ RevokeTokens(c, s)
          \/ RevokeAllRead(c) \/ RevokeAll(c)
          \/ \E r \in ResetTokens : ResetRead(c, r) \/ ResetClaim(c, r) \/ ResetPassword(c, r)

SessionsSpec == SessionsInit /\ [][SessionsNext]_sessionsVars

-----------------------------------------------------------------------------
(***************************************************************************)
(* Properties.                                                             *)
(***************************************************************************)

\* Requests that present one refresh token at once leave the session with one
\* usable successor at most (rotateRefreshToken).
OneUsableToken ==
    \A s \in Sessions : Cardinality({t \in Tokens : token[t].of = s /\ Usable(t)}) <= 1

\* A rotation under way when its session is revoked leaves no usable token once
\* the revocation is done (rotateRefreshToken, revokeSession, revokeAllSessions,
\* resetPassword).
RevokedHasNoToken ==
    \A t \in Tokens :
       (Usable(t) /\ session[token[t].of] = "REVOKED") =>
          \E c \in Agents : agent[c].op = "revoke" /\ agent[c].on = token[t].of

\* A one-time code opens one session, however many logins present it at once
\* (assertLogin).
CodeOpensOneSession ==
    \A r, s \in Sessions : (r # s /\ openedBy[r] # None) => openedBy[r] # openedBy[s]

\* A reset token changes the password once (claim, resetPassword).
ResetOnce == \A r \in ResetTokens : resets[r] <= 1

\* Every secret that opens an account is good once: refresh tokens, one-time
\* codes and reset tokens, through overlapping requests and revocations
\* (rotateRefreshToken, revokeSession, assertLogin, resetPassword).
SessionsSound ==
    /\ OneUsableToken
    /\ RevokedHasNoToken
    /\ CodeOpensOneSession
    /\ ResetOnce

\* A session whose token came a second time has ended when that request is
\* answered (rotateRefreshToken, "reused").
ReuseEndsSession ==
    [][\A c \in Agents :
         (agent[c].op = "reused" /\ agent'[c] # agent[c]) =>
            session'[token[agent[c].on].of] = "REVOKED"]_sessionsVars
=============================================================================
