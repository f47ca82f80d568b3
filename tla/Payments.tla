------------------------------ MODULE Payments ------------------------------
(***************************************************************************)
(* One invoice of the billing service: its InvoicePaymentSchedule rows,    *)
(* the hosted checkout sessions that pay them, the provider's webhooks and *)
(* the credit notes.                                                       *)
(*                                                                         *)
(* Actors: HTTP requests of customers (createPaymentSession, a sequence of *)
(* autocommitted statements around a call of the provider), the hosted     *)
(* checkout at the provider, webhook deliveries handled by concurrent      *)
(* Receivers (receiveProviderEvent and processSuccessfulPayment), and      *)
(* finance users (creditNote).                                             *)
(*                                                                         *)
(* processSuccessfulPayment runs at REPEATABLE READ: PayRead takes the     *)
(* snapshot, PayCommit writes with increments on the current rows but with *)
(* statuses computed from the snapshot.  creditNote is SERIALIZABLE: one   *)
(* atomic step.                                                            *)
(*                                                                         *)
(* A PaymentSession is identified with its idempotency key.  The MOCK      *)
(* provider of development is left out.                                    *)
(***************************************************************************)
EXTENDS Integers, FiniteSets

CONSTANTS
    NumSchedules,    \* schedules of the invoice, numbered by sequence
    ScheduleAmount,  \* [Schedules -> 1..MaxAmount], amountMinor
    MaxAmount,       \* largest amount of a schedule
    Sessions,        \* idempotency keys of checkout requests
    SessionSchedule, \* [Sessions -> Schedules]
    Requests,        \* concurrent executions of createPaymentSession
    RequestKey,      \* [Requests -> Sessions], the Idempotency-Key header
    SlowRequests,    \* may a request outlive its 120 second lock?
    Events,          \* provider event ids
    EventSession,    \* [Events -> Sessions]
    EventKind,       \* [Events -> {"success", "failed"}]
    Receivers,       \* concurrent webhook deliveries
    CreditNotes,     \* idempotency keys of credit note requests
    CreditAmount,    \* [CreditNotes -> Nat \ {0}]
    MaxCrashes,      \* bound: API process crashes explored
    None             \* no lock key, no event

Schedules == 1..NumSchedules

ASSUME PaymentsAssumption ==
    /\ NumSchedules \in Nat \ {0}
    /\ MaxAmount \in Nat
    /\ ScheduleAmount \in [Schedules -> 1..MaxAmount]
    /\ IsFiniteSet(Sessions)
    /\ SessionSchedule \in [Sessions -> Schedules]
    /\ RequestKey \in [Requests -> Sessions]
    /\ SlowRequests \in BOOLEAN
    /\ EventSession \in [Events -> Sessions]
    /\ EventKind \in [Events -> {"success", "failed"}]
    /\ CreditAmount \in [CreditNotes -> Nat \ {0}]
    /\ MaxCrashes \in Nat
    /\ None \notin Sessions \cup Events

VARIABLES
    paid,            \* InvoicePaymentSchedule.paidMinor
    credited,        \* InvoicePaymentSchedule.creditedMinor
    scheduleStatus,  \* InvoicePaymentSchedule.status
    lockKey,         \* checkoutLockKey, or None
    lockUntil,       \* checkoutLockUntil: in 120 s ("request"), at the expiry
                     \* of the lock's session ("session"), or "past"
    invoicePaid,     \* BillingInvoice.paidMinor
    invoiceCredited, \* BillingInvoice.creditedMinor
    invoiceStatus,   \* BillingInvoice.status
    booking,         \* status of the freight booking the invoice is for
    session,         \* PaymentSession.status, "NONE" before the row exists
    amount,          \* what the checkout of a session charges, 0 if none
    checkout,        \* the hosted checkout at the provider
    lapsed,          \* sessions past their expiresAt
    allocated,       \* sessions with a PaymentAllocation
    request,         \* progress of a createPaymentSession
    price,           \* currentRemainingMinor a request works with
    event,           \* PaymentEvent.status, "NONE" before it is claimed
    handler,         \* progress of a webhook delivery
    working,         \* the event a delivery processes, or None
    seen,            \* snapshot of its transaction
    issued,          \* credit notes issued
    crashes          \* process crashes so far (bounded by MaxCrashes)

scheduleVars == <<paid, credited, scheduleStatus>>
lockVars == <<lockKey, lockUntil>>
invoiceVars == <<invoicePaid, invoiceCredited, invoiceStatus, booking>>
providerVars == <<amount, checkout, lapsed>>
requestVars == <<request, price>>
handlerVars == <<handler, working, seen>>
vars == <<scheduleVars, lockVars, invoiceVars, session, providerVars, allocated,
          requestVars, event, handlerVars, issued, crashes>>

-----------------------------------------------------------------------------
(* Money.  The minor units of a set of sessions or schedules are counted   *)
(* as a set of pairs, so that a sum is the cardinality of a union.         *)

Charged(S) == Cardinality({u \in Sessions \X (1..MaxAmount) :
                              u[1] \in S /\ u[2] <= amount[u[1]]})
InvoiceTotal == Cardinality({u \in Schedules \X (1..MaxAmount) :
                                u[2] <= ScheduleAmount[u[1]]})

SessionsOf(s) == {k \in Sessions : SessionSchedule[k] = s}

Remaining(s) == ScheduleAmount[s] - paid[s] - credited[s]
Settled(s) == Remaining(s) <= 0

\* checkoutLockKey is set and checkoutLockUntil is in the future.
LockLive(s) ==
    /\ lockKey[s] # None
    /\ \/ lockUntil[s] = "request"
       \/ lockUntil[s] = "session" /\ lockKey[s] \notin lapsed

\* status PENDING and expiresAt in the future
LiveSessions(s) == {k \in SessionsOf(s) : session[k] = "PENDING"} \ lapsed

NothingSeen == [allocated |-> FALSE, paid |-> 0, credited |-> 0,
                invoicePaid |-> 0, invoiceCredited |-> 0]

-----------------------------------------------------------------------------
Init ==
    /\ paid = [s \in Schedules |-> 0]
    /\ credited = [s \in Schedules |-> 0]
    /\ scheduleStatus = [s \in Schedules |-> "DUE"]
    /\ lockKey = [s \in Schedules |-> None]
    /\ lockUntil = [s \in Schedules |-> "past"]
    /\ invoicePaid = 0
    /\ invoiceCredited = 0
    /\ invoiceStatus = "ISSUED"
    /\ booking = "AWAITING_PAYMENT"
    /\ session = [k \in Sessions |-> "NONE"]
    /\ amount = [k \in Sessions |-> 0]
    /\ checkout = [k \in Sessions |-> "none"]
    /\ lapsed = {}
    /\ allocated = {}
    /\ request = [r \in Requests |-> "idle"]
    /\ price = [r \in Requests |-> 0]
    /\ event = [e \in Events |-> "NONE"]
    /\ handler = [w \in Receivers |-> "idle"]
    /\ working = [w \in Receivers |-> None]
    /\ seen = [w \in Receivers |-> NothingSeen]
    /\ issued = {}
    /\ crashes = 0

-----------------------------------------------------------------------------
(* createPaymentSession.  A request whose key already has a session is     *)
(* answered with it and changes nothing.                                   *)

KeyOf(r) == RequestKey[r]
Target(r) == SessionSchedule[RequestKey[r]]

\* The replay lookup and the checks on the invoice as first read.
CheckoutStart(r) ==
    /\ request[r] = "idle"
    /\ session[KeyOf(r)] = "NONE"
    /\ invoiceStatus # "PAID"
    /\ ~Settled(Target(r))
    /\ request' = [request EXCEPT ![r] = "started"]
    /\ UNCHANGED <<scheduleVars, lockVars, invoiceVars, session, providerVars, allocated,
                   price, event, handlerVars, issued, crashes>>

\* Take the lock of the schedule, or answer 409 (or the concurrent session).
CheckoutLock(r) ==
    /\ request[r] = "started"
    /\ IF LockLive(Target(r))
       THEN /\ request' = [request EXCEPT ![r] = "idle"]
            /\ UNCHANGED lockVars
       ELSE /\ request' = [request EXCEPT ![r] = "locked"]
            /\ lockKey' = [lockKey EXCEPT ![Target(r)] = KeyOf(r)]
            /\ lockUntil' = [lockUntil EXCEPT ![Target(r)] = "request"]
    /\ UNCHANGED <<scheduleVars, invoiceVars, session, providerVars, allocated, price,
                   event, handlerVars, issued, crashes>>

\* Read the schedule again under the lock.
CheckoutPrice(r) ==
    /\ request[r] = "locked"
    /\ IF scheduleStatus[Target(r)] # "PAID" /\ ~Settled(Target(r))
       THEN /\ request' = [request EXCEPT ![r] = "priced"]
            /\ price' = [price EXCEPT ![r] = Remaining(Target(r))]
       ELSE /\ request' = [request EXCEPT ![r] = "failing"]
            /\ UNCHANGED price
    /\ UNCHANGED <<scheduleVars, lockVars, invoiceVars, session, providerVars, allocated,
                   event, handlerVars, issued, crashes>>

\* No other active session: call the provider, which answers a repeated key
\* with the same checkout and refuses it for another amount.
CheckoutOpen(r) ==
    /\ request[r] = "priced"
    /\ LiveSessions(Target(r)) = {}
    /\ \/ /\ checkout[KeyOf(r)] = "none"
          /\ checkout' = [checkout EXCEPT ![KeyOf(r)] = "open"]
          /\ amount' = [amount EXCEPT ![KeyOf(r)] = price[r]]
       \/ /\ checkout[KeyOf(r)] # "none"
          /\ amount[KeyOf(r)] = price[r]
          /\ UNCHANGED <<checkout, amount>>
    /\ request' = [request EXCEPT ![r] = "opened"]
    /\ UNCHANGED <<scheduleVars, lockVars, invoiceVars, session, lapsed, allocated, price,
                   event, handlerVars, issued, crashes>>

\* An active session, a provider that refuses or does not answer.
CheckoutRefused(r) ==
    /\ request[r] \in {"priced", "opened"}
    /\ request' = [request EXCEPT ![r] = "failing"]
    /\ UNCHANGED <<scheduleVars, lockVars, invoiceVars, session, providerVars, allocated,
                   price, event, handlerVars, issued, crashes>>

\* Create the PaymentSession, or find the one a concurrent request created.
CheckoutInsert(r) ==
    /\ request[r] = "opened"
    /\ session' = IF session[KeyOf(r)] = "NONE"
                  THEN [session EXCEPT ![KeyOf(r)] = "PENDING"]
                  ELSE session
    /\ request' = [request EXCEPT ![r] =
                     IF session'[KeyOf(r)] = "PENDING" THEN "inserted" ELSE "failing"]
    /\ UNCHANGED <<scheduleVars, lockVars, invoiceVars, providerVars, allocated, price,
                   event, handlerVars, issued, crashes>>

\* Keep the lock until the session expires, if it is still the request's.
CheckoutRetain(r) ==
    /\ request[r] = "inserted"
    /\ IF lockKey[Target(r)] = KeyOf(r)
       THEN /\ lockUntil' = [lockUntil EXCEPT ![Target(r)] = "session"]
            /\ request' = [request EXCEPT ![r] = "idle"]
            /\ price' = [price EXCEPT ![r] = 0]
       ELSE /\ request' = [request EXCEPT ![r] = "failing"]
            /\ UNCHANGED <<lockUntil, price>>
    /\ UNCHANGED <<scheduleVars, lockKey, invoiceVars, session, providerVars, allocated,
                   event, handlerVars, issued, crashes>>

Unlocked(s) ==
    /\ lockKey' = [lockKey EXCEPT ![s] = None]
    /\ lockUntil' = [lockUntil EXCEPT ![s] = "past"]

\* The finally block of a request that did not retain the lock.
CheckoutRelease(r) ==
    /\ request[r] = "failing"
    /\ IF lockKey[Target(r)] = KeyOf(r) THEN Unlocked(Target(r)) ELSE UNCHANGED lockVars
    /\ request' = [request EXCEPT ![r] = "idle"]
    /\ price' = [price EXCEPT ![r] = 0]
    /\ UNCHANGED <<scheduleVars, invoiceVars, session, providerVars, allocated, event,
                   handlerVars, issued, crashes>>

RequestCrash(r) ==
    /\ request[r] # "idle"
    /\ crashes < MaxCrashes
    /\ crashes' = crashes + 1
    /\ request' = [request EXCEPT ![r] = "idle"]
    /\ price' = [price EXCEPT ![r] = 0]
    /\ UNCHANGED <<scheduleVars, lockVars, invoiceVars, session, providerVars, allocated,
                   event, handlerVars, issued>>

\* The 120 seconds of a lock are over.  Unless requests may be that slow, only
\* the lock of a request that died is still there by then.
LockLapse(s) ==
    /\ lockKey[s] # None
    /\ lockUntil[s] = "request"
    /\ \/ SlowRequests
       \/ \A r \in Requests : KeyOf(r) = lockKey[s] => request[r] \in {"idle", "started"}
    /\ lockUntil' = [lockUntil EXCEPT ![s] = "past"]
    /\ UNCHANGED <<scheduleVars, lockKey, invoiceVars, session, providerVars, allocated,
                   requestVars, event, handlerVars, issued, crashes>>

-----------------------------------------------------------------------------
(* The hosted checkout.  Delayed payment methods may capture the money     *)
(* after the session's expiresAt.                                          *)

SessionLapse(k) ==
    /\ checkout[k] # "none"
    /\ k \notin lapsed
    /\ lapsed' = lapsed \cup {k}
    /\ UNCHANGED <<scheduleVars, lockVars, invoiceVars, session, amount, checkout, allocated,
                   requestVars, event, handlerVars, issued, crashes>>

\* The customer, who has the URL once the session is stored, pays.
Capture(k) ==
    /\ checkout[k] = "open"
    /\ session[k] # "NONE"
    /\ checkout' = [checkout EXCEPT ![k] = "paid"]
    /\ UNCHANGED <<scheduleVars, lockVars, invoiceVars, session, amount, lapsed, allocated,
                   requestVars, event, handlerVars, issued, crashes>>

\* The checkout expires or its payment fails.
CheckoutFails(k) ==
    /\ checkout[k] = "open"
    /\ checkout' = [checkout EXCEPT ![k] = "failed"]
    /\ UNCHANGED <<scheduleVars, lockVars, invoiceVars, session, amount, lapsed, allocated,
                   requestVars, event, handlerVars, issued, crashes>>

-----------------------------------------------------------------------------
(* Webhooks.  The provider delivers each event at least once, in any       *)
(* order, until it is answered with success, and may deliver it again.     *)

Outcome(e) == IF EventKind[e] = "success" THEN "paid" ELSE "failed"

\* Mutant: a failed event is never claimed again.
EventClaimOnce(w, e) ==
    /\ handler[w] = "idle"
    /\ checkout[EventSession[e]] = Outcome(e)
    /\ session[EventSession[e]] # "NONE"
    /\ event[e] = "NONE"
    /\ event' = [event EXCEPT ![e] = "PROCESSING"]
    /\ handler' = [handler EXCEPT ![w] = "claimed"]
    /\ working' = [working EXCEPT ![w] = e]
    /\ UNCHANGED <<scheduleVars, lockVars, invoiceVars, session, providerVars, allocated,
                   requestVars, seen, issued, crashes>>

\* Store the event and claim it; a processed event is answered as a duplicate
\* and one that is being processed with 503.
EventClaim(w, e) ==
    /\ handler[w] = "idle"
    /\ checkout[EventSession[e]] = Outcome(e)
    /\ session[EventSession[e]] # "NONE"
    /\ event[e] \in {"NONE", "FAILED"}
    /\ event' = [event EXCEPT ![e] = "PROCESSING"]
    /\ handler' = [handler EXCEPT ![w] = "claimed"]
    /\ working' = [working EXCEPT ![w] = e]
    /\ UNCHANGED <<scheduleVars, lockVars, invoiceVars, session, providerVars, allocated,
                   requestVars, seen, issued, crashes>>

\* The delivery is answered; its event ends in the given status.
Answered(w, status) ==
    /\ event' = [event EXCEPT ![working[w]] = status]
    /\ handler' = [handler EXCEPT ![w] = "idle"]
    /\ working' = [working EXCEPT ![w] = None]
    /\ seen' = [seen EXCEPT ![w] = NothingSeen]

Paying(w) == EventSession[working[w]]
PayingFor(w) == SessionSchedule[Paying(w)]

\* A failed checkout: fail the session if it is pending, give up its lock.
PayFailed(w) ==
    /\ handler[w] = "claimed"
    /\ EventKind[working[w]] = "failed"
    /\ session' = IF session[Paying(w)] = "PENDING"
                  THEN [session EXCEPT ![Paying(w)] = "FAILED"]
                  ELSE session
    /\ IF lockKey[PayingFor(w)] = Paying(w) THEN Unlocked(PayingFor(w)) ELSE UNCHANGED lockVars
    /\ Answered(w, "PROCESSED")
    /\ UNCHANGED <<scheduleVars, invoiceVars, providerVars, allocated, requestVars, issued,
                   crashes>>

\* Mutant: the booking is confirmed before the payment is known to be applied.
PayReadConfirming(w) ==
    /\ handler[w] = "claimed"
    /\ EventKind[working[w]] = "success"
    /\ handler' = [handler EXCEPT ![w] = "read"]
    /\ seen' = [seen EXCEPT ![w] =
                  [allocated |-> Paying(w) \in allocated,
                   paid |-> paid[PayingFor(w)], credited |-> credited[PayingFor(w)],
                   invoicePaid |-> invoicePaid, invoiceCredited |-> invoiceCredited]]
    /\ booking' = "CONFIRMED"
    /\ UNCHANGED <<scheduleVars, lockVars, invoicePaid, invoiceCredited, invoiceStatus,
                   session, providerVars, allocated, requestVars, event, working, issued,
                   crashes>>

\* processSuccessfulPayment: the snapshot of the transaction.
PayRead(w) ==
    /\ handler[w] = "claimed"
    /\ EventKind[working[w]] = "success"
    /\ handler' = [handler EXCEPT ![w] = "read"]
    /\ seen' = [seen EXCEPT ![w] =
                  [allocated |-> Paying(w) \in allocated,
                   paid |-> paid[PayingFor(w)], credited |-> credited[PayingFor(w)],
                   invoicePaid |-> invoicePaid, invoiceCredited |-> invoiceCredited]]
    /\ UNCHANGED <<scheduleVars, lockVars, invoiceVars, session, providerVars, allocated,
                   requestVars, event, working, issued, crashes>>

\* Another event of the session was already applied.
PayReplay(w) ==
    /\ handler[w] = "read"
    /\ seen[w].allocated
    /\ Answered(w, "PROCESSED")
    /\ UNCHANGED <<scheduleVars, lockVars, invoiceVars, session, providerVars, allocated,
                   requestVars, issued, crashes>>

Exceeds(w) ==
    amount[Paying(w)] > ScheduleAmount[PayingFor(w)] - seen[w].paid - seen[w].credited

\* The captured amount exceeds the balance of the snapshot, or the unique key
\* (tenant, session) of PaymentAllocation is violated: retain the event as failed.
PayReject(w) ==
    /\ handler[w] = "read"
    /\ ~seen[w].allocated
    /\ Exceeds(w) \/ Paying(w) \in allocated
    /\ Answered(w, "FAILED")
    /\ UNCHANGED <<scheduleVars, lockVars, invoiceVars, session, providerVars, allocated,
                   requestVars, issued, crashes>>

\* The rows a payment of session k writes: increments on the current rows,
\* statuses from the snapshot z.
Pay(k, z) ==
    LET s == SessionSchedule[k] IN
    /\ allocated' = allocated \cup {k}
    /\ session' = [session EXCEPT ![k] = "COMPLETED"]
    /\ paid' = [paid EXCEPT ![s] = @ + amount[k]]
    /\ scheduleStatus' = [scheduleStatus EXCEPT ![s] =
         IF z.paid + z.credited + amount[k] >= ScheduleAmount[s]
         THEN "PAID" ELSE "PARTIALLY_PAID"]
    /\ Unlocked(s)
    /\ invoicePaid' = invoicePaid + amount[k]
    /\ invoiceStatus' =
         IF z.invoicePaid + amount[k] + z.invoiceCredited >= InvoiceTotal
         THEN "PAID" ELSE "PARTIALLY_PAID"
    /\ booking' = IF s = 1 THEN "CONFIRMED" ELSE booking

\* Mutant: no unique key on the allocation.
PayCommitTwice(w) ==
    /\ handler[w] = "read"
    /\ ~seen[w].allocated
    /\ ~Exceeds(w)
    /\ Pay(Paying(w), seen[w])
    /\ Answered(w, "PROCESSED")
    /\ UNCHANGED <<credited, invoiceCredited, providerVars, requestVars, issued, crashes>>

\* Mutant: the excess check is dropped.
PayCommitExcess(w) ==
    /\ handler[w] = "read"
    /\ Paying(w) \notin allocated
    /\ Pay(Paying(w), seen[w])
    /\ Answered(w, "PROCESSED")
    /\ UNCHANGED <<credited, invoiceCredited, providerVars, requestVars, issued, crashes>>

PayCommit(w) ==
    /\ handler[w] = "read"
    /\ ~seen[w].allocated
    /\ ~Exceeds(w)
    /\ Paying(w) \notin allocated
    /\ Pay(Paying(w), seen[w])
    /\ Answered(w, "PROCESSED")
    /\ UNCHANGED <<credited, invoiceCredited, providerVars, requestVars, issued, crashes>>

\* The database aborts the transaction (deadlock, lost connection).
PayAbort(w) ==
    /\ handler[w] \in {"claimed", "read"}
    /\ Answered(w, "FAILED")
    /\ UNCHANGED <<scheduleVars, lockVars, invoiceVars, session, providerVars, allocated,
                   requestVars, issued, crashes>>

\* The process dies: nobody takes the event out of PROCESSING again.
ReceiverCrash(w) ==
    /\ handler[w] # "idle"
    /\ crashes < MaxCrashes
    /\ crashes' = crashes + 1
    /\ handler' = [handler EXCEPT ![w] = "idle"]
    /\ working' = [working EXCEPT ![w] = None]
    /\ seen' = [seen EXCEPT ![w] = NothingSeen]
    /\ UNCHANGED <<scheduleVars, lockVars, invoiceVars, session, providerVars, allocated,
                   requestVars, event, issued>>

-----------------------------------------------------------------------------
(* creditNote: spread the amount over the unsettled schedules in sequence. *)

Outstanding(s) == IF Settled(s) THEN 0 ELSE Remaining(s)
OutstandingIn(S) == Cardinality({u \in Schedules \X (1..MaxAmount) :
                                   u[1] \in S /\ u[2] <= Outstanding(u[1])})

\* What is left of n for schedule s after the schedules before it.
CreditFor(n, s) ==
    LET left == CreditAmount[n] - OutstandingIn(1..(s - 1)) IN
    IF left <= 0 THEN 0 ELSE IF left < Outstanding(s) THEN left ELSE Outstanding(s)

CreditRows(n) ==
    /\ invoiceCredited + CreditAmount[n] <= InvoiceTotal
    /\ CreditAmount[n] <= OutstandingIn(Schedules)
    /\ credited' = [s \in Schedules |-> credited[s] + CreditFor(n, s)]
    /\ scheduleStatus' = [s \in Schedules |->
         IF CreditFor(n, s) = 0 THEN scheduleStatus[s]
         ELSE IF CreditFor(n, s) = Remaining(s) THEN "PAID" ELSE "PARTIALLY_PAID"]
    /\ invoiceCredited' = invoiceCredited + CreditAmount[n]
    /\ invoiceStatus' = IF invoicePaid + invoiceCredited + CreditAmount[n] >= InvoiceTotal
                        THEN "PAID" ELSE "PARTIALLY_PAID"
    /\ issued' = issued \cup {n}

\* Mutant: schedules with an active checkout are credited too.
CreditNoteUnlocked(n) ==
    /\ n \notin issued
    /\ CreditRows(n)
    /\ UNCHANGED <<paid, lockVars, invoicePaid, booking, session, providerVars, allocated,
                   requestVars, event, handlerVars, crashes>>

\* Refused while a schedule it touches has an active checkout.
CreditNote(n) ==
    /\ n \notin issued
    /\ \A s \in Schedules : CreditFor(n, s) > 0 => ~LockLive(s)
    /\ CreditRows(n)
    /\ UNCHANGED <<paid, lockVars, invoicePaid, booking, session, providerVars, allocated,
                   requestVars, event, handlerVars, crashes>>

-----------------------------------------------------------------------------
RequestStep(r) ==
    \/ CheckoutStart(r) \/ CheckoutLock(r) \/ CheckoutPrice(r) \/ CheckoutOpen(r)
    \/ CheckoutRefused(r) \/ CheckoutInsert(r) \/ CheckoutRetain(r) \/ CheckoutRelease(r)

ReceiverStep(w) ==
    \/ PayFailed(w) \/ PayRead(w) \/ PayReplay(w) \/ PayReject(w) \/ PayCommit(w)
    \/ PayAbort(w)

Next ==
    \/ \E r \in Requests : RequestStep(r) \/ RequestCrash(r)
    \/ \E s \in Schedules : LockLapse(s)
    \/ \E k \in Sessions : SessionLapse(k) \/ Capture(k) \/ CheckoutFails(k)
    \/ \E w \in Receivers, e \in Events : EventClaim(w, e)
    \/ \E w \in Receivers : ReceiverStep(w) \/ ReceiverCrash(w)
    \/ \E n \in CreditNotes : CreditNote(n)

Spec == Init /\ [][Next]_vars

\* The provider redelivers an event until it is answered with success, a
\* delivery runs to its end, and the database does not abort an event for ever.
Fairness ==
    /\ \A w \in Receivers : WF_vars(ReceiverStep(w))
    /\ \A e \in Events :
          /\ SF_vars(\E w \in Receivers : EventClaim(w, e))
          /\ SF_vars(\E w \in Receivers : working[w] = e /\ PayRead(w))
          /\ SF_vars(\E w \in Receivers :
                       working[w] = e /\ (PayReplay(w) \/ PayReject(w) \/ PayCommit(w)))

FairSpec == Spec /\ Fairness

-----------------------------------------------------------------------------
TypeOK ==
    /\ paid \in [Schedules -> Nat]
    /\ credited \in [Schedules -> Nat]
    /\ scheduleStatus \in [Schedules -> {"DUE", "PARTIALLY_PAID", "PAID"}]
    /\ lockKey \in [Schedules -> Sessions \cup {None}]
    /\ lockUntil \in [Schedules -> {"request", "session", "past"}]
    /\ invoicePaid \in Nat
    /\ invoiceCredited \in Nat
    /\ invoiceStatus \in {"ISSUED", "PARTIALLY_PAID", "PAID"}
    /\ booking \in {"AWAITING_PAYMENT", "CONFIRMED"}
    /\ session \in [Sessions -> {"NONE", "PENDING", "COMPLETED", "FAILED"}]
    /\ amount \in [Sessions -> 0..MaxAmount]
    /\ checkout \in [Sessions -> {"none", "open", "paid", "failed"}]
    /\ lapsed \subseteq Sessions
    /\ allocated \subseteq Sessions
    /\ request \in [Requests ->
         {"idle", "started", "locked", "priced", "opened", "inserted", "failing"}]
    /\ price \in [Requests -> 0..MaxAmount]
    /\ event \in [Events -> {"NONE", "PROCESSING", "PROCESSED", "FAILED"}]
    /\ handler \in [Receivers -> {"idle", "claimed", "read"}]
    /\ working \in [Receivers -> Events \cup {None}]
    /\ seen \in [Receivers -> [allocated : BOOLEAN, paid : Nat, credited : Nat,
                               invoicePaid : Nat, invoiceCredited : Nat]]
    /\ issued \subseteq CreditNotes
    /\ crashes \in 0..MaxCrashes

\* The paid balances of every schedule and of the invoice are the sums of the
\* allocations, however webhooks are duplicated, reordered or processed
\* concurrently (processSuccessfulPayment's increments and unique allocation).
PaidMatchesAllocations ==
    /\ \A s \in Schedules : paid[s] = Charged(allocated \cap SessionsOf(s))
    /\ invoicePaid = Charged(allocated)

\* A success event is acknowledged for good only if the captured money was
\* allocated; otherwise it stays a failed event somebody can reconcile
\* (receiveProviderEvent and the excess check of processSuccessfulPayment).
CapturedRetained ==
    \A e \in Events :
        event[e] = "PROCESSED" /\ EventKind[e] = "success" => EventSession[e] \in allocated

\* At most one checkout of a schedule can be paid at a time: its lock and the
\* look-up of an active session see to it (createPaymentSession).
AtMostOneLiveCheckout ==
    \A s \in Schedules : Cardinality(LiveSessions(s)) <= 1

\* While a pending session keeps the lock of its schedule, what the customer is
\* asked to pay is what the schedule still owes: neither a credit note nor the
\* late payment of an older session can change it (checkoutLockKey).
LockedCheckoutIsCurrent ==
    \A k \in Sessions :
        LET s == SessionSchedule[k] IN
        session[k] = "PENDING" /\ lockKey[s] = k /\ lockUntil[s] = "session" /\ LockLive(s)
            => amount[k] = Remaining(s)

\* A freight booking is confirmed only once its first schedule owes nothing
\* (the FREIGHT_BOOKING branch of processSuccessfulPayment).
ConfirmedBookingIsPaid ==
    booking = "CONFIRMED" => Settled(1)

\* A payment exceeding what its schedule still owes is not posted: no schedule
\* receives more than it asked for (processSuccessfulPayment).
NoOverpayment == \A s \in Schedules : Remaining(s) >= 0

\* A schedule is PAID exactly when it owes nothing, and an invoice not before,
\* although both statuses are computed from a snapshot (processSuccessfulPayment
\* and creditNote).
PaidMeansSettled ==
    /\ \A s \in Schedules : scheduleStatus[s] = "PAID" <=> Settled(s)
    /\ invoiceStatus = "PAID" => invoicePaid + invoiceCredited >= InvoiceTotal

\* The rows an open delivery has read were written since.
ScheduleOvertaken(w) ==
    /\ handler[w] = "read"
    /\ <<seen[w].paid, seen[w].credited>> # <<paid[PayingFor(w)], credited[PayingFor(w)]>>
InvoiceOvertaken(w) ==
    /\ handler[w] = "read"
    /\ <<seen[w].invoicePaid, seen[w].invoiceCredited>> # <<invoicePaid, invoiceCredited>>

\* A schedule is overpaid, or overpaid further, only by a delivery that read it
\* before another payment or a credit note changed it (the excess check).
ExceededOnlyInARace ==
    \A s \in Schedules : Remaining(s)' < 0 /\ Remaining(s)' < Remaining(s) =>
        \E w \in Receivers : handler[w] = "read" /\ PayingFor(w) = s /\ ScheduleOvertaken(w)

\* An invoice that owes nothing is left, or made, PARTIALLY_PAID only by a
\* delivery that read it before it changed (fullyPaid).
UnmarkedOnlyInARace ==
    LET settled == invoicePaid + invoiceCredited >= InvoiceTotal IN
    (settled => invoiceStatus = "PAID") /\ settled' /\ invoiceStatus' # "PAID" =>
        \E w \in Receivers : InvoiceOvertaken(w)

\* Every variable has its type, the balances are the sums of the allocations and
\* no captured payment is acknowledged without one, however webhooks are
\* duplicated, reordered or concurrent (processSuccessfulPayment,
\* receiveProviderEvent).
MoneyAccounted == TypeOK /\ PaidMatchesAllocations /\ CapturedRetained

\* One checkout of a schedule at a time can be paid, and it asks for what the
\* schedule owes (createPaymentSession, creditNote, processSuccessfulPayment).
CheckoutExclusive == AtMostOneLiveCheckout /\ LockedCheckoutIsCurrent

\* Whatever deliveries, requests that outlive their lock and credit notes do at
\* once, what is PAID owes nothing, and a schedule is overpaid or a settled
\* invoice not marked only by a delivery overtaken between its read and its
\* commit (processSuccessfulPayment, creditNote).
OverpaidOnlyInARace ==
    []PaidMeansSettled /\ [][ExceededOnlyInARace /\ UnmarkedOnlyInARace]_vars

\* While requests end within their lock and no process dies, a schedule is
\* overpaid only once a session whose money it received was past its expiry:
\* until then its lock keeps other checkouts and credit notes away
\* (createPaymentSession, creditNote, processSuccessfulPayment).
OverpaidOnlyAfterALapse ==
    \A s \in Schedules : Remaining(s) < 0 =>
        crashes > 0 \/ SessionsOf(s) \cap allocated \cap lapsed # {}

\* Every captured payment the provider reports is allocated in the end, unless
\* it exceeds what the schedule owes (receiveProviderEvent's retries).
CapturedSettles ==
    \A e \in Events :
        EventKind[e] = "success" /\ checkout[EventSession[e]] = "paid" ~>
            \/ EventSession[e] \in allocated
            \/ amount[EventSession[e]] > Remaining(SessionSchedule[EventSession[e]])
=============================================================================
