------------------------------ MODULE PartnerKeys ------------------------------
(***************************************************************************)
(* The credentials of partners and the webhooks they send (PartnerRepos-  *)
(* itory: createCredential, rotateCredential, revokeCredential,            *)
(* receiveWebhook; PartnerAuthGuard).                                      *)
(*                                                                         *)
(* A rotation reads the old credential, stores a new one and revokes the   *)
(* old one in three separate statements.                                   *)
(***************************************************************************)
EXTENDS Naturals, FiniteSets, Rows

CONSTANTS
    ApiKeys,        \* partner credentials that may be issued
    Rotators,       \* concurrent rotations, one each
    PerMinute,      \* rateLimitPerMinute
    ApiCalls,       \* concurrent calls of partners
    Notices,        \* webhook requests of partners
    NoticeOf        \* [Notices -> ids of external events]

ASSUME PartnerKeysAssumption ==
    PerMinute \in Nat /\ None \notin ApiKeys /\ DOMAIN NoticeOf = Notices

VARIABLES
    apiKey,         \* PartnerApiCredential: "NONE", "LIVE" or "REVOKED"
    rotatedFrom,    \* [ApiKeys -> ApiKeys \cup {None}]
    rotation,       \* what a rotation has read and stored
    withdrawn,      \* keys an administrator has revoked
    troubled,       \* keys whose rotation was overlapped, or stopped half-way
    window,         \* [ApiKeys -> Nat]: calls counted in this minute
    passed,         \* [ApiKeys -> Nat]: calls let through in this minute
    called,         \* key an API call has looked up
    notice,         \* "new", "unknown" (not received yet, as read), "fresh", "replay", "error"
    receipts        \* WebhookReceipt rows

rotationVars == <<apiKey, rotatedFrom, rotation, withdrawn, troubled>>
callVars == <<window, passed, called>>
noticeVars == <<notice, receipts>>
partnerKeysVars == <<rotationVars, callVars, noticeVars>>

RotationIdle == [step |-> "idle", prior |-> None, next |-> None]

PartnerKeysInit ==
    /\ apiKey = [k \in ApiKeys |-> "NONE"] /\ rotatedFrom = [k \in ApiKeys |-> None]
    /\ rotation = [c \in Rotators |-> RotationIdle]
    /\ withdrawn = {} /\ troubled = {}
    /\ window = [k \in ApiKeys |-> 0] /\ passed = [k \in ApiKeys |-> 0]
    /\ called = [c \in ApiCalls |-> None]
    /\ notice = [n \in Notices |-> "new"] /\ receipts = {}

-----------------------------------------------------------------------------
(***************************************************************************)
(* Credentials.                                                            *)
(***************************************************************************)

\* issueCredential.
IssueKey(k, prior) ==
    /\ apiKey[k] = "NONE"
    /\ apiKey' = [apiKey EXCEPT ![k] = "LIVE"]
    /\ rotatedFrom' = [rotatedFrom EXCEPT ![k] = prior]

CreateKey(k) ==
    /\ IssueKey(k, None)
    /\ UNCHANGED <<rotation, withdrawn, troubled, callVars, noticeVars>>

\* Mutant: a credential that is revoked may be rotated.
RotatableAlways(k) == apiKey[k] # "NONE"

\* findFirst with revokedAt: null.
Rotatable(k) == apiKey[k] = "LIVE"

\* Rotations of a key that are under way.
Rotating(k) == {c \in Rotators : rotation[c].prior = k /\ rotation[c].step \in {"read", "issued"}}

RotateKeyRead(c, k) ==
    /\ rotation[c].step = "idle" /\ Rotatable(k)
    /\ rotation' = [rotation EXCEPT ![c] = [step |-> "read", prior |-> k, next |-> None]]
    /\ troubled' = IF Rotating(k) # {} THEN troubled \cup {k} ELSE troubled
    /\ UNCHANGED <<apiKey, rotatedFrom, withdrawn, callVars, noticeVars>>

RotateKeyIssue(c, k) ==
    /\ rotation[c].step = "read"
    /\ IssueKey(k, rotation[c].prior)
    /\ rotation' = [rotation EXCEPT ![c].step = "issued", ![c].next = k]
    /\ UNCHANGED <<withdrawn, troubled, callVars, noticeVars>>

\* The old key is revoked by its id, and the new secret answered.
RotateKeyRevoke(c) ==
    /\ rotation[c].step = "issued"
    /\ apiKey' = [apiKey EXCEPT ![rotation[c].prior] = "REVOKED"]
    /\ rotation' = [rotation EXCEPT ![c].step = "answered"]
    /\ UNCHANGED <<rotatedFrom, withdrawn, troubled, callVars, noticeVars>>

\* The process stops, or the database fails, before the next statement.
RotateKeyStops(c) ==
    /\ rotation[c].step \in {"read", "issued"}
    /\ rotation' = [rotation EXCEPT ![c].step = "stopped"]
    /\ troubled' = troubled \cup {rotation[c].prior}
    /\ UNCHANGED <<apiKey, rotatedFrom, withdrawn, callVars, noticeVars>>

RevokeKey(k) ==
    /\ apiKey[k] = "LIVE"
    /\ apiKey' = [apiKey EXCEPT ![k] = "REVOKED"]
    /\ withdrawn' = withdrawn \cup {k}
    /\ troubled' = IF Rotating(k) # {} THEN troubled \cup {k} ELSE troubled
    /\ UNCHANGED <<rotatedFrom, rotation, callVars, noticeVars>>

-----------------------------------------------------------------------------
(***************************************************************************)
(* Calls with a credential.  The windows live in the memory of a process,  *)
(* and an entry of an earlier minute counts as absent.                     *)
(***************************************************************************)

LookUpKey(c, k) ==
    /\ called[c] = None /\ apiKey[k] = "LIVE"
    /\ called' = [called EXCEPT ![c] = k]
    /\ UNCHANGED <<window, passed, rotationVars, noticeVars>>

WithinRate(n) == n <= PerMinute

\* consumeRate, which counts the call it refuses as well; then the scopes decide.
ConsumeRate(c) ==
    LET k == called[c]
    IN  /\ k # None
        /\ window' = [window EXCEPT ![k] = @ + 1]
        /\ \E scoped \in BOOLEAN :
              passed' = IF scoped /\ WithinRate(window'[k])
                          THEN [passed EXCEPT ![k] = @ + 1] ELSE passed
        /\ called' = [called EXCEPT ![c] = None]
        /\ UNCHANGED <<rotationVars, noticeVars>>

\* Bounds the window: no call is followed far beyond the limit.
Followed(c) == called[c] # None => window[called[c]] <= PerMinute + 1

NextMinute ==
    /\ window # [k \in ApiKeys |-> 0]
    /\ window' = [k \in ApiKeys |-> 0] /\ passed' = [k \in ApiKeys |-> 0]
    /\ UNCHANGED <<called, rotationVars, noticeVars>>

-----------------------------------------------------------------------------
(***************************************************************************)
(* Webhooks of partners, signed and in time.                               *)
(***************************************************************************)

Receipted(n) == \E r \in receipts : NoticeOf[r] = NoticeOf[n]

ReceiveRead(n) ==
    /\ notice[n] = "new"
    /\ notice' = [notice EXCEPT ![n] = IF Receipted(n) THEN "replay" ELSE "unknown"]
    /\ UNCHANGED <<receipts, rotationVars, callVars>>

\* A second row of one event is refused by the unique index.
ReceiptInsertable(n) == ~Receipted(n)

\* The one that comes second is answered with an error, not as a replay.
ReceiveNotice(n) ==
    /\ notice[n] = "unknown"
    /\ IF ReceiptInsertable(n)
         THEN notice' = [notice EXCEPT ![n] = "fresh"] /\ receipts' = receipts \cup {n}
         ELSE notice' = [notice EXCEPT ![n] = "error"] /\ UNCHANGED receipts
    /\ UNCHANGED <<rotationVars, callVars>>

RotationNext ==
    \/ \E k \in ApiKeys : CreateKey(k) \/ RevokeKey(k)
    \/ \E c \in Rotators, k \in ApiKeys : RotateKeyRead(c, k) \/ RotateKeyIssue(c, k)
    \/ \E c \in Rotators : RotateKeyRevoke(c) \/ RotateKeyStops(c)

CallNext ==
    \/ \E c \in ApiCalls, k \in ApiKeys : LookUpKey(c, k)
    \/ \E c \in ApiCalls : Followed(c) /\ ConsumeRate(c)
    \/ NextMinute

NoticeNext == \E n \in Notices : ReceiveRead(n) \/ ReceiveNotice(n)

PartnerKeysNext == RotationNext \/ CallNext \/ NoticeNext

PartnerKeysSpec == PartnerKeysInit /\ [][PartnerKeysNext]_partnerKeysVars

-----------------------------------------------------------------------------
(***************************************************************************)
(* Properties.                                                             *)
(***************************************************************************)

Successors(k) == {n \in ApiKeys : rotatedFrom[n] = k}

\* A key has two successors, or one although an administrator revoked it, only
\* when its rotation overlapped with another one or with the revocation, or
\* stopped half-way; and whoever has been answered a new key has lost the old
\* one (rotateCredential, revokeCredential).
OneSuccessorUnlessTroubled ==
    /\ \A k \in ApiKeys \ troubled :
          Cardinality(Successors(k)) <= IF k \in withdrawn THEN 0 ELSE 1
    /\ \A c \in Rotators :
          rotation[c].step = "answered" => apiKey[rotation[c].prior] = "REVOKED"

\* In one minute one process lets no more calls of a credential through than its
\* limit, however they overlap (PartnerAuthGuard.consumeRate).
CallsWithinRate == \A k \in ApiKeys : passed[k] <= PerMinute

\* One external event is answered as new once, however its requests overlap
\* (receiveWebhook).
NoticedOnce ==
    \A n, o \in Notices :
        notice[n] = "fresh" /\ notice[o] = "fresh" /\ NoticeOf[n] = NoticeOf[o] => n = o
=============================================================================
