------------------------------ MODULE Enrolment ------------------------------
(***************************************************************************)
(* How accounts and second factors begin: registration, verification of an *)
(* e-mail address, and one user's TOTP credential (AuthRepository          *)
(* registerCustomer, RecoveryService verifyEmail, MfaService enroll and    *)
(* confirm); and how often they may be tried, at the end.                  *)
(*                                                                         *)
(* enroll and confirm read the credential and write it by id or by user    *)
(* later; enroll clears the recovery codes in a statement of its own.      *)
(***************************************************************************)
EXTENDS Naturals, FiniteSets, Rows

CONSTANTS
    Registrations,  \* registration requests
    EmailOf,        \* [Registrations -> e-mail address, normalized]
    MailTokens,     \* e-mail verification tokens
    Secrets,        \* TOTP secrets that may be drawn
    Devices         \* concurrent HTTP requests of the user

ASSUME EnrolmentAssumption ==
    None \notin Secrets \cup MailTokens /\ DOMAIN EmailOf = Registrations

VARIABLES
    registration,   \* Tenant.selfRegistrationEnabled
    account,        \* registrations that created a User
    mailToken,      \* IdentityToken: "NONE", "SENT", "CONSUMED"
    credential,     \* MfaCredential, see NoCredential
    recovery,       \* whether the credential has recovery codes
    drawn,          \* secrets handed out
    device          \* what a request has read and goes on to write

enrolmentVars == <<registration, account, mailToken, credential, recovery, drawn, device>>

\* pending: pendingSecretCiphertext; timely: pendingCreatedAt is not 10 minutes old.
NoCredential == [secret |-> None, pending |-> None, timely |-> FALSE, confirmed |-> FALSE]

DeviceIdle == [op |-> "idle", secret |-> None, seen |-> NoCredential]

EnrolmentInit ==
    /\ registration \in BOOLEAN /\ account = {}
    /\ mailToken = [t \in MailTokens |-> "NONE"]
    /\ credential = NoCredential /\ recovery = FALSE /\ drawn = {}
    /\ device = [c \in Devices |-> DeviceIdle]

-----------------------------------------------------------------------------
(***************************************************************************)
(* Accounts.                                                               *)
(***************************************************************************)

EmailFree(r) == \A other \in account : EmailOf[other] # EmailOf[r]

\* One transaction: user, password identity and the role of customers.
Register(r) ==
    /\ registration /\ r \notin account /\ EmailFree(r)
    /\ account' = account \cup {r}
    /\ UNCHANGED <<registration, mailToken, credential, recovery, drawn, device>>

\* An older token of the purpose is consumed when a new one is sent.
RequestVerification(t) ==
    /\ account # {} /\ mailToken[t] = "NONE"
    /\ mailToken' = [other \in MailTokens |->
                       IF other = t THEN "SENT"
                       ELSE IF mailToken[other] = "SENT" THEN "CONSUMED" ELSE mailToken[other]]
    /\ UNCHANGED <<registration, account, credential, recovery, drawn, device>>

\* The claim, and then verifiedAt is set, again if it was set before.
VerifyEmail(t) ==
    /\ mailToken[t] = "SENT"
    /\ mailToken' = [mailToken EXCEPT ![t] = "CONSUMED"]
    /\ UNCHANGED <<registration, account, credential, recovery, drawn, device>>

-----------------------------------------------------------------------------
(***************************************************************************)
(* The second factor.                                                      *)
(***************************************************************************)

\* A confirmed credential is enrolled again with a code of it only
\* (assertLogin); the user has one.
EnrollRead(c, x) ==
    /\ device[c] = DeviceIdle /\ x \notin drawn
    /\ device' = [device EXCEPT ![c] = [op |-> "enroll", secret |-> x, seen |-> credential]]
    /\ drawn' = drawn \cup {x}
    /\ UNCHANGED <<registration, account, mailToken, credential, recovery>>

\* Beside a credential that was confirmed when it was read the secret is
\* pending; otherwise the enrolment starts over.
Enrolled(seen, x) ==
    IF seen.confirmed THEN [credential EXCEPT !.pending = x, !.timely = TRUE]
    ELSE [secret |-> x, pending |-> None, timely |-> FALSE, confirmed |-> FALSE]

EnrollUpsert(c) ==
    /\ device[c].op = "enroll"
    /\ credential' = Enrolled(device[c].seen, device[c].secret)
    /\ device' = [device EXCEPT ![c] =
                    IF @.seen.confirmed THEN DeviceIdle ELSE [@ EXCEPT !.op = "clear"]]
    /\ UNCHANGED <<registration, account, mailToken, recovery, drawn>>

CodesCleared == FALSE

EnrollClear(c) ==
    /\ device[c].op = "clear"
    /\ recovery' = CodesCleared
    /\ device' = [device EXCEPT ![c] = DeviceIdle]
    /\ UNCHANGED <<registration, account, mailToken, credential, drawn>>

PendingExpires ==
    /\ credential.pending # None /\ credential.timely
    /\ credential' = [credential EXCEPT !.timely = FALSE]
    /\ UNCHANGED <<registration, account, mailToken, recovery, drawn, device>>

Candidate == IF credential.pending # None THEN credential.pending ELSE credential.secret

\* The code is one of the candidate secret.
ConfirmRead(c) ==
    /\ device[c] = DeviceIdle
    /\ credential.secret # None /\ (credential.pending = None \/ credential.timely)
    /\ device' = [device EXCEPT ![c] = [op |-> "confirm", secret |-> Candidate, seen |-> credential]]
    /\ UNCHANGED <<registration, account, mailToken, credential, recovery, drawn>>

\* By id, with the pending secret that was read; new recovery codes.
Confirm(c) ==
    /\ device[c].op = "confirm"
    /\ credential' = [secret |-> IF device[c].seen.pending # None THEN device[c].seen.pending
                                 ELSE credential.secret,
                      pending |-> None, timely |-> FALSE, confirmed |-> TRUE]
    /\ recovery' = TRUE
    /\ device' = [device EXCEPT ![c] = DeviceIdle]
    /\ UNCHANGED <<registration, account, mailToken, drawn>>

EnrolmentNext ==
    \/ \E r \in Registrations : Register(r)
    \/ \E t \in MailTokens : RequestVerification(t) \/ VerifyEmail(t)
    \/ \E c \in Devices, x \in Secrets : EnrollRead(c, x)
    \/ \E c \in Devices : EnrollUpsert(c) \/ EnrollClear(c) \/ ConfirmRead(c) \/ Confirm(c)
    \/ PendingExpires

EnrolmentSpec == EnrolmentInit /\ [][EnrolmentNext]_enrolmentVars

-----------------------------------------------------------------------------
(***************************************************************************)
(* Properties.                                                             *)
(***************************************************************************)

Enrolling == {c \in Devices : device[c].op = "enroll" /\ ~device[c].seen.confirmed}

\* A confirmed second factor is switched off only by an enrolment that had read
\* it before it was confirmed (enroll).
SwitchedOffOnlyInARace ==
    [][credential.confirmed =>
          /\ Enrolling' \subseteq Enrolling
          /\ Enrolling = {} => credential'.confirmed]_enrolmentVars

\* A secret counts as confirmed only if a code of it was shown, or another
\* request replaced the secret after the code was checked (confirm).
ConfirmedIsProven ==
    [][\A c \in Devices :
          device[c].op = "confirm" /\ device'[c].op # "confirm" =>
             \/ credential'.secret = device[c].secret
             \/ credential # device[c].seen]_enrolmentVars

\* Recovery codes of a credential that is not confirmed are about to be cleared
\* by the enrolment that reset it (enroll).
UnconfirmedHasNoCodes ==
    recovery /\ ~credential.confirmed => \E c \in Devices : device[c].op = "clear"

-----------------------------------------------------------------------------
(***************************************************************************)
(* The limit on authentication attempts (AuthRateLimitService): a counter  *)
(* in Redis for the account and one for the address, each with a window    *)
(* that starts at its first attempt.  The script counts and sets the       *)
(* expiry in one step; the two counters are consumed one after the other.  *)
(* Requests share no row with the rest of this module.                     *)
(***************************************************************************)

CONSTANTS
    Accounts,       \* e-mail addresses
    Addresses,      \* IP addresses
    Maximum,        \* recoveryRateLimitMax
    Attempts,       \* concurrent attempts
    MaxMore         \* bound: a counter is followed this far beyond Maximum

ASSUME ThrottleAssumption ==
    /\ Maximum \in Nat \ {0} /\ MaxMore \in Nat \ {0} /\ Accounts \cap Addresses = {}
    /\ None \notin Accounts \cup Addresses

VARIABLES
    count,          \* [Accounts \cup Addresses -> Nat], 0 while the key is absent
    admitted,       \* attempts let through in the window of a counter
    attempt         \* account and address of an attempt whose account was consumed

throttleVars == <<count, admitted, attempt>>

Keys == Accounts \cup Addresses
AttemptIdle == <<None, None>>

ThrottleInit ==
    /\ count = [k \in Keys |-> 0] /\ admitted = [k \in Keys |-> 0]
    /\ attempt = [c \in Attempts |-> AttemptIdle]

WithinLimit(n) == n <= Maximum

\* INCR; the key that is created expires a window later.
Consume(k) == count[k] < Maximum + MaxMore /\ count' = [count EXCEPT ![k] = @ + 1]

\* The account first; an attempt that is refused here does not consume the address.
ConsumeAccount(c, a, i) ==
    /\ attempt[c] = AttemptIdle
    /\ Consume(a)
    /\ IF WithinLimit(count'[a])
         THEN /\ attempt' = [attempt EXCEPT ![c] = <<a, i>>]
              /\ admitted' = [admitted EXCEPT ![a] = @ + 1]
         ELSE UNCHANGED <<attempt, admitted>>

\* One that is refused here has consumed the account.
ConsumeAddress(c, a, i) ==
    /\ attempt[c] = <<a, i>>
    /\ Consume(i)
    /\ admitted' = IF WithinLimit(count'[i]) THEN [admitted EXCEPT ![i] = @ + 1] ELSE admitted
    /\ attempt' = [attempt EXCEPT ![c] = AttemptIdle]

\* Redis does not answer: the attempt is refused.
Unavailable(c) ==
    /\ attempt[c] # AttemptIdle
    /\ attempt' = [attempt EXCEPT ![c] = AttemptIdle]
    /\ UNCHANGED <<count, admitted>>

\* The window of a counter ends.
Expires(k) ==
    /\ count[k] > 0
    /\ count' = [count EXCEPT ![k] = 0] /\ admitted' = [admitted EXCEPT ![k] = 0]
    /\ UNCHANGED attempt

ThrottleNext ==
    \/ \E c \in Attempts, a \in Accounts, i \in Addresses :
          ConsumeAccount(c, a, i) \/ ConsumeAddress(c, a, i)
    \/ \E c \in Attempts : Unavailable(c)
    \/ \E k \in Keys : Expires(k)

ThrottleSpec == ThrottleInit /\ [][ThrottleNext]_throttleVars

\* In one window of an account, or of an address, no more attempts are let
\* through than the limit, however many come at once (consume).
AdmittedWithinLimit == \A k \in Keys : admitted[k] <= Maximum
=============================================================================
