------------------------------- MODULE Refunds -------------------------------
(***************************************************************************)
(* Refunds of captured payments, composed with Payments: the requests that *)
(* ask the provider for a refund, the provider's refund events, and        *)
(* applyRefund, which takes the refunded amount off the schedule and the   *)
(* invoice and posts the compensating journal.                             *)
(*                                                                         *)
(* An actor is an HTTP request (refund) or a webhook delivery              *)
(* (receiveStripeRefundEvent, reconcileCoinbaseRefunds); both end in       *)
(* applyRefund.  The intent is written SERIALIZABLE, hence in one step;    *)
(* applyRefund runs at REPEATABLE READ: ApplyRead takes the snapshot,      *)
(* ApplyCommit claims the refund on its current row but writes balances    *)
(* computed from the snapshot.  A refund is identified with its            *)
(* idempotency key.  invoiceStatus "ISSUED" also stands for OVERDUE.       *)
(***************************************************************************)
EXTENDS Payments

CONSTANTS
    Refunds,         \* idempotency keys of refund requests
    RefundSession,   \* [Refunds -> Sessions]
    RefundAmount,    \* [Refunds -> 1..MaxAmount]
    Callers,         \* concurrent executions of refund
    RefundEvents,    \* provider event ids of refund events
    EventRefund,     \* [RefundEvents -> Refunds]
    EventStatus,     \* [RefundEvents -> {"pending", "succeeded", "failed"}]
    Hooks,           \* concurrent deliveries of refund events
    StripeRefunds    \* refunds whose events carry our refund id in their
                     \* metadata; Coinbase only sends its own reference

ASSUME RefundsAssumption ==
    /\ IsFiniteSet(Refunds)
    /\ RefundSession \in [Refunds -> Sessions]
    /\ RefundAmount \in [Refunds -> 1..MaxAmount]
    /\ EventRefund \in [RefundEvents -> Refunds]
    /\ EventStatus \in [RefundEvents -> {"pending", "succeeded", "failed"}]
    /\ StripeRefunds \subseteq Refunds
    /\ Callers \cap Hooks = {}
    /\ None \notin Refunds \cup RefundEvents

VARIABLES
    refundStatus,    \* PaymentRefund.status, "NONE" before the row exists
    referenced,      \* refunds whose providerReference is stored
    applied,         \* refunds with appliedAt, and so with a journal entry
    atProvider,      \* the refund as the provider sees it
    refundEvent,     \* PaymentEvent.status of a refund event
    actor,           \* progress of a caller or a hook
    handling,        \* its refund (caller) or event (hook), or None
    answer,          \* status the provider answered a caller, or None
    snapshot         \* snapshot of its applyRefund

Actors == Callers \cup Hooks
rowVars == <<refundStatus, referenced, applied>>
actorVars == <<actor, handling, answer, snapshot>>
refundVars == <<rowVars, atProvider, refundEvent, actorVars>>
allVars == <<vars, refundVars>>

NoSnapshot == [completed |-> FALSE, paid |-> 0, credited |-> 0,
               invoicePaid |-> 0, invoiceCredited |-> 0]

RefundOf(a) == IF a \in Hooks THEN EventRefund[handling[a]] ELSE handling[a]

\* Minor units of the refunds in S.
Refunded(S) == Cardinality({u \in Refunds \X (1..MaxAmount) :
                               u[1] \in S /\ u[2] <= RefundAmount[u[1]]})
RefundsOf(k) == {q \in Refunds : RefundSession[q] = k}

RefundInit ==
    /\ Init
    /\ refundStatus = [q \in Refunds |-> "NONE"]
    /\ referenced = {}
    /\ applied = {}
    /\ atProvider = [q \in Refunds |-> "none"]
    /\ refundEvent = [e \in RefundEvents |-> "NONE"]
    /\ actor = [a \in Actors |-> "idle"]
    /\ handling = [a \in Actors |-> None]
    /\ answer = [a \in Actors |-> None]
    /\ snapshot = [a \in Actors |-> NoSnapshot]

Goes(a, phase, job) ==
    /\ actor' = [actor EXCEPT ![a] = phase]
    /\ handling' = [handling EXCEPT ![a] = job]

Leaves(a) ==
    /\ Goes(a, "idle", None)
    /\ answer' = [answer EXCEPT ![a] = None]
    /\ snapshot' = [snapshot EXCEPT ![a] = NoSnapshot]

-----------------------------------------------------------------------------
(* refund: store the intent, call the provider, record its answer.         *)

\* Mutant: failed and pending refunds do not count against the payment.
FitsCompletedOnly(q) ==
    Refunded({p \in RefundsOf(RefundSession[q]) : refundStatus[p] = "COMPLETED"})
        + RefundAmount[q] <= amount[RefundSession[q]]

\* What is reserved by refunds that have not failed, and q, fits the payment.
Fits(q) ==
    Refunded({p \in RefundsOf(RefundSession[q]) : refundStatus[p] \notin {"NONE", "FAILED"}})
        + RefundAmount[q] <= amount[RefundSession[q]]

\* A new intent, or the replay of one that got no answer yet.
RefundIntent(a, q) ==
    /\ actor[a] = "idle"
    /\ session[RefundSession[q]] = "COMPLETED"
    /\ \/ /\ refundStatus[q] = "NONE"
          /\ Fits(q)
          /\ refundStatus' = [refundStatus EXCEPT ![q] = "PENDING"]
       \/ /\ refundStatus[q] = "PENDING"
          /\ q \notin referenced
          /\ UNCHANGED refundStatus
    /\ Goes(a, "intended", q)
    /\ UNCHANGED <<vars, referenced, applied, atProvider, refundEvent, answer, snapshot>>

\* The replay of a completed refund that was never applied applies it.
RefundResume(a, q) ==
    /\ actor[a] = "idle"
    /\ refundStatus[q] = "COMPLETED"
    /\ q \notin applied
    /\ Goes(a, "applying", q)
    /\ UNCHANGED <<vars, rowVars, atProvider, refundEvent, answer, snapshot>>

\* The provider executes the refund of an idempotency key once; a repeated
\* call may be answered with the first, outdated status.
RefundCall(a) ==
    /\ actor[a] = "intended"
    /\ \E s \in {"pending", "succeeded"}, t \in {"PENDING", "COMPLETED"} :
          /\ atProvider' = IF atProvider[handling[a]] = "none"
                           THEN [atProvider EXCEPT ![handling[a]] = s]
                           ELSE atProvider
          /\ t = "COMPLETED" => atProvider'[handling[a]] = "succeeded"
          /\ answer' = [answer EXCEPT ![a] = t]
    /\ Goes(a, "answered", handling[a])
    /\ UNCHANGED <<vars, rowVars, refundEvent, snapshot>>

\* The provider refuses, or its answer is lost: only lastError is stored.
RefundError(a) ==
    /\ actor[a] \in {"intended", "answered"}
    /\ Leaves(a)
    /\ UNCHANGED <<vars, rowVars, atProvider, refundEvent>>

\* The answer is written over whatever status the refund has by now.
RefundRecord(a) ==
    /\ actor[a] = "answered"
    /\ refundStatus' = [refundStatus EXCEPT ![handling[a]] = answer[a]]
    /\ referenced' = referenced \cup {handling[a]}
    /\ IF answer[a] = "COMPLETED"
       THEN /\ Goes(a, "applying", handling[a])
            /\ UNCHANGED <<answer, snapshot>>
       ELSE Leaves(a)
    /\ UNCHANGED <<vars, applied, atProvider, refundEvent>>

\* A pending refund ends at the provider.
ProviderSettles(q) ==
    /\ atProvider[q] = "pending"
    /\ \E s \in {"succeeded", "failed"} : atProvider' = [atProvider EXCEPT ![q] = s]
    /\ UNCHANGED <<vars, rowVars, refundEvent, actorVars>>

-----------------------------------------------------------------------------
(* Refund events.                                                          *)

HookClaim(h, e) ==
    /\ actor[h] = "idle"
    /\ IF EventStatus[e] = "pending"
       THEN atProvider[EventRefund[e]] # "none"
       ELSE atProvider[EventRefund[e]] = EventStatus[e]
    /\ refundStatus[EventRefund[e]] # "NONE"
    /\ refundEvent[e] \in {"NONE", "FAILED"}
    /\ refundEvent' = [refundEvent EXCEPT ![e] = "PROCESSING"]
    /\ Goes(h, "claimed", e)
    /\ UNCHANGED <<vars, rowVars, atProvider, answer, snapshot>>

Known(q) == q \in StripeRefunds \cup referenced

\* The event ends in the given status and its delivery is answered.
HookAnswers(h, status) ==
    /\ refundEvent' = [refundEvent EXCEPT ![handling[h]] = status]
    /\ Leaves(h)

\* A Coinbase refund whose reference is not stored yet is passed over.
HookUnknown(h) ==
    /\ actor[h] = "claimed"
    /\ ~Known(RefundOf(h))
    /\ HookAnswers(h, "PROCESSED")
    /\ UNCHANGED <<vars, rowVars, atProvider>>

\* A pending refund: only the provider's reference is stored.
HookPending(h) ==
    /\ actor[h] = "claimed"
    /\ Known(RefundOf(h))
    /\ EventStatus[handling[h]] = "pending"
    /\ referenced' = referenced \cup {RefundOf(h)}
    /\ HookAnswers(h, "PROCESSED")
    /\ UNCHANGED <<vars, refundStatus, applied, atProvider>>

HookFailed(h) ==
    /\ actor[h] = "claimed"
    /\ Known(RefundOf(h))
    /\ EventStatus[handling[h]] = "failed"
    /\ IF refundStatus[RefundOf(h)] # "COMPLETED"
       THEN /\ refundStatus' = [refundStatus EXCEPT ![RefundOf(h)] = "FAILED"]
            /\ referenced' = referenced \cup {RefundOf(h)}
       ELSE UNCHANGED <<refundStatus, referenced>>
    /\ HookAnswers(h, "PROCESSED")
    /\ UNCHANGED <<vars, applied, atProvider>>

HookSucceeded(h) ==
    /\ actor[h] = "claimed"
    /\ Known(RefundOf(h))
    /\ EventStatus[handling[h]] = "succeeded"
    /\ IF refundStatus[RefundOf(h)] # "COMPLETED"
       THEN /\ refundStatus' = [refundStatus EXCEPT ![RefundOf(h)] = "COMPLETED"]
            /\ referenced' = referenced \cup {RefundOf(h)}
       ELSE UNCHANGED <<refundStatus, referenced>>
    /\ Goes(h, "applying", handling[h])
    /\ UNCHANGED <<vars, applied, atProvider, refundEvent, answer, snapshot>>

-----------------------------------------------------------------------------
(* applyRefund, as the last step of a caller or a hook.                    *)

RefundSchedule(a) == SessionSchedule[RefundSession[RefundOf(a)]]

\* The request or the delivery is over; a delivery's event gets the status.
Finishes(a, status) ==
    /\ refundEvent' = IF a \in Hooks THEN [refundEvent EXCEPT ![handling[a]] = status]
                      ELSE refundEvent
    /\ Leaves(a)

ApplyRead(a) ==
    /\ actor[a] = "applying"
    /\ snapshot' = [snapshot EXCEPT ![a] =
         [completed |-> refundStatus[RefundOf(a)] = "COMPLETED",
          paid |-> paid[RefundSchedule(a)], credited |-> credited[RefundSchedule(a)],
          invoicePaid |-> invoicePaid, invoiceCredited |-> invoiceCredited]]
    /\ Goes(a, "read", handling[a])
    /\ UNCHANGED <<vars, rowVars, atProvider, refundEvent, answer>>

Insufficient(a) ==
    \/ snapshot[a].paid < RefundAmount[RefundOf(a)]
    \/ snapshot[a].invoicePaid < RefundAmount[RefundOf(a)]

\* The status and appliedAt of the current row, as the claim sees them.
Claimable(q) == refundStatus[q] = "COMPLETED" /\ q \notin applied

\* Not completed in the snapshot, or no longer to be claimed: nothing to do.
ApplySkip(a) ==
    /\ actor[a] = "read"
    /\ \/ ~snapshot[a].completed
       \/ ~Insufficient(a) /\ ~Claimable(RefundOf(a))
    /\ Finishes(a, "PROCESSED")
    /\ UNCHANGED <<vars, rowVars, atProvider>>

\* The refund would make a paid balance negative, or the database aborts.
ApplyFail(a) ==
    /\ actor[a] = "read"
    /\ snapshot[a].completed
    /\ Finishes(a, "FAILED")
    /\ UNCHANGED <<vars, rowVars, atProvider>>

\* Balances and statuses are computed from the snapshot z and written as
\* absolute values.
Deduct(q, z) ==
    LET s == SessionSchedule[RefundSession[q]]
        schedulePaid == z.paid - RefundAmount[q]
        newPaid == z.invoicePaid - RefundAmount[q]
    IN
    /\ paid' = [paid EXCEPT ![s] = schedulePaid]
    /\ scheduleStatus' = [scheduleStatus EXCEPT ![s] =
         CASE schedulePaid + z.credited >= ScheduleAmount[s] -> "PAID"
           [] schedulePaid + z.credited < ScheduleAmount[s]
                /\ (schedulePaid > 0 \/ z.credited > 0) -> "PARTIALLY_PAID"
           [] OTHER -> "DUE"]
    /\ invoicePaid' = newPaid
    /\ invoiceStatus' =
         CASE newPaid + z.invoiceCredited >= InvoiceTotal -> "PAID"
           [] newPaid + z.invoiceCredited < InvoiceTotal
                /\ (newPaid > 0 \/ z.invoiceCredited > 0) -> "PARTIALLY_PAID"
           [] OTHER -> "ISSUED"

\* Mutant: the refund is not claimed before it is applied.
ApplyCommitUnclaimed(a) ==
    /\ actor[a] = "read"
    /\ snapshot[a].completed
    /\ ~Insufficient(a)
    /\ applied' = applied \cup {RefundOf(a)}
    /\ Deduct(RefundOf(a), snapshot[a])
    /\ Finishes(a, "PROCESSED")
    /\ UNCHANGED <<credited, lockVars, invoiceCredited, booking, session, providerVars,
                   allocated, requestVars, event, handlerVars, issued, crashes,
                   refundStatus, referenced, atProvider>>

ApplyCommit(a) ==
    /\ actor[a] = "read"
    /\ snapshot[a].completed
    /\ ~Insufficient(a)
    /\ Claimable(RefundOf(a))
    /\ applied' = applied \cup {RefundOf(a)}
    /\ Deduct(RefundOf(a), snapshot[a])
    /\ Finishes(a, "PROCESSED")
    /\ UNCHANGED <<credited, lockVars, invoiceCredited, booking, session, providerVars,
                   allocated, requestVars, event, handlerVars, issued, crashes,
                   refundStatus, referenced, atProvider>>

\* The process dies: a caller's client may retry, an event stays PROCESSING.
ActorCrash(a) ==
    /\ actor[a] # "idle"
    /\ crashes < MaxCrashes
    /\ crashes' = crashes + 1
    /\ Leaves(a)
    /\ UNCHANGED <<scheduleVars, lockVars, invoiceVars, session, providerVars, allocated,
                   requestVars, event, handlerVars, issued, rowVars, atProvider,
                   refundEvent>>

-----------------------------------------------------------------------------
CallerStep(a) ==
    \/ \E q \in Refunds : RefundIntent(a, q) \/ RefundResume(a, q)
    \/ RefundCall(a) \/ RefundError(a) \/ RefundRecord(a)

HookStep(h) ==
    \/ \E e \in RefundEvents : HookClaim(h, e)
    \/ HookUnknown(h) \/ HookPending(h) \/ HookFailed(h) \/ HookSucceeded(h)

ApplyStep(a) == ApplyRead(a) \/ ApplySkip(a) \/ ApplyFail(a) \/ ApplyCommit(a)

RefundNext ==
    \/ Next /\ UNCHANGED refundVars
    \/ \E a \in Callers : CallerStep(a)
    \/ \E h \in Hooks : HookStep(h)
    \/ \E a \in Actors : ApplyStep(a) \/ ActorCrash(a)
    \/ \E q \in Refunds : ProviderSettles(q)

RefundSpec == RefundInit /\ [][RefundNext]_allVars

-----------------------------------------------------------------------------
RefundTypeOK ==
    /\ TypeOK
    /\ refundStatus \in [Refunds -> {"NONE", "PENDING", "COMPLETED", "FAILED"}]
    /\ referenced \subseteq Refunds
    /\ applied \subseteq Refunds
    /\ atProvider \in [Refunds -> {"none", "pending", "succeeded", "failed"}]
    /\ refundEvent \in [RefundEvents -> {"NONE", "PROCESSING", "PROCESSED", "FAILED"}]
    /\ actor \in [Actors ->
         {"idle", "intended", "answered", "claimed", "applying", "read"}]
    /\ handling \in [Actors -> Refunds \cup RefundEvents \cup {None}]
    /\ answer \in [Actors -> {"PENDING", "COMPLETED", None}]
    /\ snapshot \in [Actors -> [completed : BOOLEAN, paid : Nat, credited : Nat,
                                invoicePaid : Nat, invoiceCredited : Nat]]

\* The provider never gives back more than a session captured, whatever fails,
\* is retried or is asked for twice (the Serializable intent of refund).
NoOverRefund ==
    \A k \in Sessions :
        Refunded({q \in RefundsOf(k) : atProvider[q] \in {"pending", "succeeded"}}) <= amount[k]

\* Only money the provider gave back is taken off the invoice (applyRefund).
AppliedOnlyIfRefunded ==
    \A q \in applied : atProvider[q] = "succeeded"

AppliedOf(s) == {q \in applied : SessionSchedule[RefundSession[q]] = s}

\* What a balance holds beyond the posted journals: allocations less refunds.
ScheduleOff(s) == paid[s] - (Charged(allocated \cap SessionsOf(s)) - Refunded(AppliedOf(s)))
InvoiceOff == invoicePaid - (Charged(allocated) - Refunded(applied))

\* The paid balances are derived from the posted journals
\* (processSuccessfulPayment and applyRefund).
BalanceMatchesLedger == InvoiceOff = 0 /\ \A s \in Schedules : ScheduleOff(s) = 0

\* No more is given back than was captured, nothing is taken off the invoice that
\* was not given back, and every variable has its type (refund,
\* receiveStripeRefundEvent, applyRefund).
RefundsAccounted == RefundTypeOK /\ NoOverRefund /\ AppliedOnlyIfRefunded

\* A paid balance parts from the journals only when a refund is applied over
\* what another refund, or a payment, wrote after its read, and then by just
\* that: nothing else loses or repeats an amount (applyRefund).
DeductionLostOnlyInARace ==
    [][/\ \A s \in Schedules : ScheduleOff(s)' # ScheduleOff(s) =>
             \E a \in Actors :
                 /\ actor[a] = "read" /\ RefundSchedule(a) = s
                 /\ ScheduleOff(s)' = ScheduleOff(s) + snapshot[a].paid - paid[s]
       /\ InvoiceOff' # InvoiceOff =>
             \E a \in Actors :
                 /\ actor[a] = "read"
                 /\ InvoiceOff' = InvoiceOff + snapshot[a].invoicePaid - invoicePaid]_allVars

\* An acknowledged "refund succeeded" event leaves a refund that is applied
\* (receiveStripeRefundEvent).
AcknowledgedRefundApplied ==
    \A e \in RefundEvents :
        refundEvent[e] = "PROCESSED" /\ EventStatus[e] = "succeeded"
            => EventRefund[e] \in applied
=============================================================================
