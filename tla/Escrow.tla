------------------------------- MODULE Escrow -------------------------------
(***************************************************************************)
(* One listing of the C2C marketplace: the offers buyers make on it, the   *)
(* payment holds behind the offers, the jobs that give holds back, and the *)
(* protected transaction of the accepted offer.                            *)
(*                                                                         *)
(* Actors: buyers' requests (C2CRepository.offer: a hold at the escrow     *)
(* provider first, then a transaction, then compensation if it failed),    *)
(* the seller's requests (acceptOffer), the C2CPaymentReleaseScheduler of  *)
(* each API process (processPaymentReleases) and the parties' and          *)
(* moderators' requests on the transaction.                                *)
(*                                                                         *)
(* acceptOffer runs at REPEATABLE READ: AcceptRead takes its snapshot,     *)
(* AcceptCommit writes.  The other operations check in one statement and   *)
(* write in a later one, without repeating the check.                      *)
(*                                                                         *)
(* An offer is identified with its paymentIdempotencyKey, a hold with the  *)
(* request whose call of the provider created it.                          *)
(***************************************************************************)
EXTENDS FiniteSets, Naturals, Rows

CONSTANTS
    Keys,         \* idempotency keys of offers
    OfferParent,  \* [Keys -> Keys \cup {None}], the offer a key counters
    Requests,     \* concurrent executions of offer
    RequestKey,   \* [Requests -> Keys], the Idempotency-Key header
    Unlucky,      \* requests whose transaction the database may abort
    Perishable,   \* offers that may reach their expiresAt
    Acceptors,    \* concurrent executions of acceptOffer
    Sweepers,     \* API processes, each with its scheduler
    Handlers,     \* concurrent requests on the transaction
    Disputes,     \* bound: disputes opened
    MaxCrashes    \* bound: API process crashes explored

ASSUME EscrowAssumption ==
    /\ OfferParent \in [Keys -> Keys \cup {None}]
    /\ \A k \in Keys : OfferParent[k] # k
    /\ RequestKey \in [Requests -> Keys]
    /\ Unlucky \subseteq Requests /\ Perishable \subseteq Keys
    /\ MaxCrashes \in Nat
    /\ None \notin Keys \cup Requests \cup Disputes

VARIABLES
    listing,     \* C2CListing.status
    offer,       \* C2COffer.status, "NONE" before the row exists
    holdOf,      \* C2COffer.paymentReference
    lapsed,      \* offers past their expiresAt
    hold,        \* the holds at the provider
    request,     \* progress of a buyer's request
    got,         \* the hold a request works with, or None
    accepting,   \* snapshot of an acceptOffer: its offer and the losers
    job,         \* C2CPaymentRelease.status, "NONE" before the row exists
    leased,      \* jobs whose lockedUntil is in the future
    sweep,       \* progress of a scheduler run
    batch,       \* rows it still has to handle
    working,     \* the job it is releasing, or None
    transaction, \* C2CTransaction.status, "NONE" before the row exists
    winner,      \* C2CTransaction.acceptedOfferId
    evidence,    \* has the transaction shipmentEvidence?
    paidOut,     \* has it a payoutReleasedAt?
    dispute,     \* C2CDispute.status, "NONE" before the row exists
    handler,     \* what a request on the transaction goes on to write
    crashes      \* process crashes so far (bounded by MaxCrashes)

offerVars == <<listing, offer, holdOf>>
requestVars == <<request, got>>
sweepVars == <<leased, sweep, batch, working>>
dealVars == <<transaction, winner, evidence, paidOut, dispute, handler>>
escrowVars == <<offerVars, lapsed, hold, requestVars, accepting, job, sweepVars, dealVars, crashes>>

Idle == [op |-> "idle", about |-> None]

EscrowInit ==
    /\ listing = "ACTIVE"
    /\ offer = [k \in Keys |-> "NONE"] /\ holdOf = [k \in Keys |-> None]
    /\ lapsed = {}
    /\ hold = [r \in Requests |-> "NONE"]
    /\ request = [r \in Requests |-> "new"] /\ got = [r \in Requests |-> None]
    /\ accepting = [a \in Acceptors |-> [offer |-> None, losers |-> {}]]
    /\ job = [k \in Keys |-> "NONE"] /\ leased = {}
    /\ sweep = [s \in Sweepers |-> "idle"]
    /\ batch = [s \in Sweepers |-> {}] /\ working = [s \in Sweepers |-> None]
    /\ transaction = "NONE" /\ winner = None
    /\ evidence = FALSE /\ paidOut = FALSE
    /\ dispute = [d \in Disputes |-> "NONE"]
    /\ handler = [h \in Handlers |-> Idle]
    /\ crashes = 0

\* The release jobs after queueing those of the offers ks that have none.
Queue(ks) ==
    [k \in Keys |-> IF k \in ks /\ job[k] = "NONE" THEN "PENDING" ELSE job[k]]

-----------------------------------------------------------------------------
(***************************************************************************)
(* A buyer's request.                                                      *)
(***************************************************************************)

\* A replay is answered from the stored offer; otherwise the listing and the
\* countered offer are checked before the provider is called.
OfferCheck(r) ==
    LET k == RequestKey[r]
        parent == OfferParent[k] IN
    /\ request[r] = "new"
    /\ \/ /\ offer[k] # "NONE"
          /\ request' = [request EXCEPT ![r] = "done"]
       \/ /\ offer[k] = "NONE"
          /\ listing = "ACTIVE"
          /\ parent = None \/ (parent # None /\ offer[parent] = "OPEN")
          /\ request' = [request EXCEPT ![r] = "checked"]
       \/ /\ offer[k] = "NONE"
          /\ \/ listing # "ACTIVE"
             \/ parent # None /\ offer[parent] # "OPEN"
          /\ request' = [request EXCEPT ![r] = "done"]
    /\ UNCHANGED <<offerVars, lapsed, hold, got, accepting, job, sweepVars, dealVars, crashes>>

\* The provider answers a repeated key with the hold it has, or with another
\* one, or refuses.
OfferHold(r) ==
    /\ request[r] = "checked"
    /\ \/ /\ hold' = [hold EXCEPT ![r] = "HELD"]
          /\ got' = [got EXCEPT ![r] = r]
          /\ request' = [request EXCEPT ![r] = "held"]
       \/ \E h \in Requests :
              /\ RequestKey[h] = RequestKey[r] /\ hold[h] = "HELD"
              /\ got' = [got EXCEPT ![r] = h]
              /\ request' = [request EXCEPT ![r] = "held"]
              /\ UNCHANGED hold
       \/ /\ request' = [request EXCEPT ![r] = "done"]
          /\ UNCHANGED <<hold, got>>
    /\ UNCHANGED <<offerVars, lapsed, accepting, job, sweepVars, dealVars, crashes>>

\* May the transaction commit?  The key and the reference are unique, and the
\* countered offer must still be open.
Insertable(r) ==
    LET parent == OfferParent[RequestKey[r]] IN
    /\ offer[RequestKey[r]] = "NONE"
    /\ \A k \in Keys : holdOf[k] # got[r]
    /\ parent # None => offer[parent] = "OPEN"

\* The transaction: counter the parent, queue the release of its hold, and
\* store the offer.
OfferInsert(r) ==
    LET k == RequestKey[r] IN
    /\ request[r] = "held"
    /\ Insertable(r)
    /\ offer' = [j \in Keys |-> IF j = k THEN "OPEN"
                                ELSE IF j = OfferParent[k] THEN "COUNTERED" ELSE offer[j]]
    /\ job' = Queue({OfferParent[k]})
    /\ holdOf' = [holdOf EXCEPT ![k] = got[r]]
    /\ request' = [request EXCEPT ![r] = "done"]
    /\ UNCHANGED <<listing, lapsed, hold, got, accepting, sweepVars, dealVars, crashes>>

\* The transaction fails: a row has changed, or the database gives up.
OfferRollback(r) ==
    /\ request[r] = "held"
    /\ ~Insertable(r) \/ r \in Unlucky
    /\ request' = [request EXCEPT ![r] = "failed"]
    /\ UNCHANGED <<offerVars, lapsed, hold, got, accepting, job, sweepVars, dealVars, crashes>>

\* Does the catch block give the hold back?  Not if it is the hold of the
\* offer that another request stored under the key, or of any offer.
MustRelease(r) ==
    IF offer[RequestKey[r]] # "NONE"
      THEN holdOf[RequestKey[r]] # got[r]
      ELSE \A k \in Keys : holdOf[k] # got[r]

\* Mutant: it gives the hold back without asking whose it is.
OfferFailedUnowned(r) ==
    /\ request[r] = "failed"
    /\ request' = [request EXCEPT ![r] = "release"]
    /\ UNCHANGED <<offerVars, lapsed, hold, got, accepting, job, sweepVars, dealVars, crashes>>

\* The catch block looks for the owner of the key and of the hold.
OfferFailed(r) ==
    /\ request[r] = "failed"
    /\ request' = [request EXCEPT ![r] = IF MustRelease(r) THEN "release" ELSE "done"]
    /\ UNCHANGED <<offerVars, lapsed, hold, got, accepting, job, sweepVars, dealVars, crashes>>

\* And gives the hold back.
OfferRelease(r) ==
    /\ request[r] = "release"
    /\ hold' = [hold EXCEPT ![got[r]] = "RELEASED"]
    /\ request' = [request EXCEPT ![r] = "done"]
    /\ UNCHANGED <<offerVars, lapsed, got, accepting, job, sweepVars, dealVars, crashes>>

\* The process dies, or the release is not acknowledged: the hold is left to
\* the provider, which bounds it in time.
OfferLost(r) ==
    /\ request[r] \in {"held", "failed", "release"}
    /\ crashes < MaxCrashes
    /\ request' = [request EXCEPT ![r] = "lost"]
    /\ crashes' = crashes + 1
    /\ UNCHANGED <<offerVars, lapsed, hold, got, accepting, job, sweepVars, dealVars>>

\* 48 hours after the request.
Lapse(k) ==
    /\ offer[k] # "NONE" /\ k \in Perishable \ lapsed
    /\ lapsed' = lapsed \cup {k}
    /\ UNCHANGED <<offerVars, hold, requestVars, accepting, job, sweepVars, dealVars, crashes>>

-----------------------------------------------------------------------------
(***************************************************************************)
(* The seller accepts.                                                     *)
(***************************************************************************)

\* The snapshot: the offer is open and in time, and these offers will lose.
AcceptRead(a, k) ==
    /\ accepting[a].offer = None
    /\ offer[k] = "OPEN" /\ k \notin lapsed
    /\ accepting' = [accepting EXCEPT
         ![a] = [offer |-> k, losers |-> {j \in Keys \ {k} : offer[j] = "OPEN"}]]
    /\ UNCHANGED <<offerVars, lapsed, hold, requestVars, job, sweepVars, dealVars, crashes>>

AcceptDone(a) == accepting' = [accepting EXCEPT ![a] = [offer |-> None, losers |-> {}]]

\* Mutant: a second transaction of the listing is not refused.
AcceptCommitAgain(a) ==
    LET k == accepting[a].offer IN
    /\ k # None
    /\ offer' = [j \in Keys |-> IF j = k THEN "ACCEPTED"
                                ELSE IF offer[j] = "OPEN" THEN "REJECTED" ELSE offer[j]]
    /\ job' = Queue(accepting[a].losers)
    /\ listing' = "SOLD"
    /\ transaction' = "PAYMENT_HELD" /\ winner' = k
    /\ AcceptDone(a)
    /\ UNCHANGED <<holdOf, lapsed, hold, requestVars, sweepVars, evidence, paidOut, dispute, handler, crashes>>

\* The writes.  The offer is updated by id, whatever its status is now; every
\* offer open now is rejected, but only those of the snapshot get a job.  A
\* listing has one transaction.
AcceptCommit(a) ==
    LET k == accepting[a].offer IN
    /\ k # None /\ transaction = "NONE"
    /\ offer' = [j \in Keys |-> IF j = k THEN "ACCEPTED"
                                ELSE IF offer[j] = "OPEN" THEN "REJECTED" ELSE offer[j]]
    /\ job' = Queue(accepting[a].losers)
    /\ listing' = "SOLD"
    /\ transaction' = "PAYMENT_HELD" /\ winner' = k
    /\ AcceptDone(a)
    /\ UNCHANGED <<holdOf, lapsed, hold, requestVars, sweepVars, evidence, paidOut, dispute, handler, crashes>>

\* The unique listing or offer of the transaction makes it roll back.
AcceptRollback(a) ==
    /\ accepting[a].offer # None /\ transaction # "NONE"
    /\ AcceptDone(a)
    /\ UNCHANGED <<offerVars, lapsed, hold, requestVars, job, sweepVars, dealVars, crashes>>

-----------------------------------------------------------------------------
(***************************************************************************)
(* A run of the scheduler, every five seconds, never twice at once in one  *)
(* process.                                                                *)
(***************************************************************************)

\* queueExpiredOfferReleases: the open offers past their expiry ...
SweepExpired(s) ==
    /\ sweep[s] = "idle"
    /\ sweep' = [sweep EXCEPT ![s] = "expiring"]
    /\ batch' = [batch EXCEPT ![s] = {k \in Keys : offer[k] = "OPEN" /\ k \in lapsed}]
    /\ UNCHANGED <<offerVars, lapsed, hold, requestVars, accepting, job, leased, working, dealVars, crashes>>

\* ... expire, those that are still open, and their holds are queued.
SweepQueue(s) ==
    LET expired == {k \in batch[s] : offer[k] = "OPEN"} IN
    /\ sweep[s] = "expiring"
    /\ offer' = [k \in Keys |-> IF k \in expired THEN "EXPIRED" ELSE offer[k]]
    /\ job' = Queue(expired)
    /\ sweep' = [sweep EXCEPT ![s] = "queued"]
    /\ batch' = [batch EXCEPT ![s] = {}]
    /\ UNCHANGED <<listing, holdOf, lapsed, hold, requestVars, accepting, leased, working, dealVars, crashes>>

\* Mutant: a job whose worker died is never taken over.
ClaimableOnce(k) == job[k] \in {"PENDING", "RETRYING"}

\* A job that waits, or whose worker has lost its lease.
Claimable(k) ==
    \/ job[k] \in {"PENDING", "RETRYING"}
    \/ job[k] = "PROCESSING" /\ k \notin leased

\* Where a run goes on with the rows ks left.
Continue(s, ks) ==
    /\ batch' = [batch EXCEPT ![s] = ks]
    /\ sweep' = [sweep EXCEPT ![s] = IF ks = {} THEN "idle" ELSE "releasing"]

\* The jobs to be done.
SweepCandidates(s) ==
    /\ sweep[s] = "queued"
    /\ Continue(s, {k \in Keys : Claimable(k)})
    /\ UNCHANGED <<offerVars, lapsed, hold, requestVars, accepting, job, leased, working, dealVars, crashes>>

\* Another process has taken the job.
SweepSkip(s) == \E k \in batch[s] :
    /\ sweep[s] = "releasing" /\ ~Claimable(k)
    /\ Continue(s, batch[s] \ {k})
    /\ UNCHANGED <<offerVars, lapsed, hold, requestVars, accepting, job, leased, working, dealVars, crashes>>

\* The claim, a lease of 60 seconds.
SweepClaim(s) == \E k \in batch[s] :
    /\ sweep[s] = "releasing" /\ Claimable(k)
    /\ job' = [job EXCEPT ![k] = "PROCESSING"]
    /\ leased' = leased \cup {k}
    /\ working' = [working EXCEPT ![s] = k]
    /\ sweep' = [sweep EXCEPT ![s] = "calling"]
    /\ UNCHANGED <<offerVars, lapsed, hold, requestVars, accepting, batch, dealVars, crashes>>

\* The end of a job, with the status it is left in.
Finish(s, status) ==
    /\ job' = [job EXCEPT ![working[s]] = status]
    /\ leased' = leased \ {working[s]}
    /\ Continue(s, batch[s] \ {working[s]})
    /\ working' = [working EXCEPT ![s] = None]
    /\ UNCHANGED <<offerVars, lapsed, requestVars, accepting, dealVars, crashes>>

\* The provider gives the hold back ...
SweepCall(s) ==
    /\ sweep[s] = "calling"
    /\ hold' = [hold EXCEPT ![holdOf[working[s]]] = "RELEASED"]
    /\ sweep' = [sweep EXCEPT ![s] = "called"]
    /\ UNCHANGED <<offerVars, lapsed, requestVars, accepting, job, leased, batch, working, dealVars, crashes>>

\* ... and acknowledges it,
SweepReleased(s) ==
    /\ sweep[s] = "called"
    /\ Finish(s, "RELEASED")
    /\ UNCHANGED hold

\* or the call fails, before or after the provider acted.
SweepFailed(s) ==
    /\ sweep[s] \in {"calling", "called"}
    /\ Finish(s, "RETRYING")
    /\ UNCHANGED hold

\* The run outlives the lease, or its process is gone.
LeaseLapse(k) ==
    /\ k \in leased
    /\ leased' = leased \ {k}
    /\ UNCHANGED <<offerVars, lapsed, hold, requestVars, accepting, job, sweep, batch, working, dealVars, crashes>>

SweepCrash(s) ==
    /\ sweep[s] # "idle" /\ crashes < MaxCrashes
    /\ sweep' = [sweep EXCEPT ![s] = "idle"]
    /\ batch' = [batch EXCEPT ![s] = {}]
    /\ working' = [working EXCEPT ![s] = None]
    /\ crashes' = crashes + 1
    /\ UNCHANGED <<offerVars, lapsed, hold, requestVars, accepting, job, leased, dealVars>>

-----------------------------------------------------------------------------
(***************************************************************************)
(* The protected transaction.  A request checks the status, and writes the *)
(* next one later.                                                         *)
(***************************************************************************)

\* Request h has passed its check and goes on with op.
Proceed(h, op, about) ==
    /\ handler[h] = Idle
    /\ handler' = [handler EXCEPT ![h] = [op |-> op, about |-> about]]
    /\ UNCHANGED <<transaction, winner, evidence, paidOut, dispute>>

\* Mutant: delivery may be confirmed of what was never shipped.
DeliverCheckEarly(h) ==
    transaction \in {"PAYMENT_HELD", "SHIPPED"} /\ Proceed(h, "deliver", None)

ShipCheck(h) == transaction = "PAYMENT_HELD" /\ Proceed(h, "ship", None)
DeliverCheck(h) == transaction = "SHIPPED" /\ Proceed(h, "deliver", None)
PayoutCheck(h) == transaction = "PAYOUT_ELIGIBLE" /\ Proceed(h, "payout", None)
ResolveCheck(h, d) ==
    /\ dispute[d] = "OPEN"
    /\ \E op \in {"resolveBuyer", "resolveSeller"} : Proceed(h, op, d)

\* A dispute may be opened whatever the status is.
DisputeOpen(h, d) ==
    /\ transaction # "NONE" /\ dispute[d] = "NONE" /\ handler[h] = Idle
    /\ dispute' = [dispute EXCEPT ![d] = "OPEN"]
    /\ handler' = [handler EXCEPT ![h] = [op |-> "dispute", about |-> d]]
    /\ UNCHANGED <<transaction, winner, evidence, paidOut>>

\* The write of request h, which does op and leaves the transaction in status.
Write(h, op, status) ==
    /\ handler[h].op = op
    /\ transaction' = status
    /\ handler' = [handler EXCEPT ![h] = Idle]
    /\ UNCHANGED winner

Resolved(h, status) ==
    dispute' = [dispute EXCEPT ![handler[h].about] = status]

Ship(h) == Write(h, "ship", "SHIPPED") /\ evidence' = TRUE /\ UNCHANGED <<paidOut, dispute>>
Deliver(h) ==
    Write(h, "deliver", "PAYOUT_ELIGIBLE") /\ UNCHANGED <<evidence, paidOut, dispute>>
ReleasePayout(h) ==
    Write(h, "payout", "COMPLETED") /\ paidOut' = TRUE /\ UNCHANGED <<evidence, dispute>>
Dispute(h) == Write(h, "dispute", "DISPUTED") /\ UNCHANGED <<evidence, paidOut, dispute>>

ResolveForSeller(h) ==
    /\ Write(h, "resolveSeller", "PAYOUT_ELIGIBLE")
    /\ Resolved(h, "RESOLVED_SELLER") /\ UNCHANGED <<evidence, paidOut>>
ResolveForBuyer(h) ==
    /\ Write(h, "resolveBuyer", "CANCELLED")
    /\ Resolved(h, "RESOLVED_BUYER") /\ UNCHANGED <<evidence, paidOut>>

HandlerStep(h) ==
    /\ \/ ShipCheck(h) \/ DeliverCheck(h) \/ PayoutCheck(h)
       \/ \E d \in Disputes : ResolveCheck(h, d) \/ DisputeOpen(h, d)
       \/ Ship(h) \/ Deliver(h) \/ ReleasePayout(h) \/ Dispute(h)
       \/ ResolveForSeller(h) \/ ResolveForBuyer(h)
    /\ UNCHANGED <<offerVars, lapsed, hold, requestVars, accepting, job, sweepVars, crashes>>

-----------------------------------------------------------------------------
RequestStep(r) ==
    \/ OfferCheck(r) \/ OfferHold(r) \/ OfferInsert(r) \/ OfferRollback(r)
    \/ OfferFailed(r) \/ OfferRelease(r)

AcceptStep(a) ==
    \/ \E k \in Keys : AcceptRead(a, k)
    \/ AcceptCommit(a) \/ AcceptRollback(a)

SweepStep(s) ==
    \/ SweepExpired(s) \/ SweepQueue(s) \/ SweepCandidates(s) \/ SweepSkip(s)
    \/ SweepClaim(s) \/ SweepCall(s) \/ SweepReleased(s) \/ SweepFailed(s)

EscrowNext ==
    \/ \E r \in Requests : RequestStep(r) \/ OfferLost(r)
    \/ \E k \in Keys : Lapse(k) \/ LeaseLapse(k)
    \/ \E a \in Acceptors : AcceptStep(a)
    \/ \E s \in Sweepers : SweepStep(s) \/ SweepCrash(s)
    \/ \E h \in Handlers : HandlerStep(h)

EscrowSpec == EscrowInit /\ [][EscrowNext]_escrowVars

\* The timer of a process keeps firing and its statements return; a lease runs
\* out; a provider that is asked again and again acknowledges in the end.
EscrowFairness ==
    /\ \A s \in Sweepers :
         /\ WF_escrowVars(SweepStep(s))
         /\ SF_escrowVars(SweepCall(s)) /\ SF_escrowVars(SweepReleased(s))
    /\ \A k \in Keys : WF_escrowVars(LeaseLapse(k))

-----------------------------------------------------------------------------
(***************************************************************************)
(* Properties.                                                             *)
(***************************************************************************)

\* Every variable has its type.
TypeOK ==
    /\ listing \in {"ACTIVE", "SOLD"}
    /\ offer \in [Keys -> {"NONE", "OPEN", "COUNTERED", "ACCEPTED", "REJECTED", "EXPIRED"}]
    /\ holdOf \in [Keys -> Requests \cup {None}]
    /\ lapsed \subseteq Keys
    /\ hold \in [Requests -> {"NONE", "HELD", "RELEASED"}]
    /\ request \in [Requests -> {"new", "checked", "held", "failed", "release", "lost", "done"}]
    /\ got \in [Requests -> Requests \cup {None}]
    /\ accepting \in [Acceptors -> [offer : Keys \cup {None}, losers : SUBSET Keys]]
    /\ job \in [Keys -> {"NONE", "PENDING", "PROCESSING", "RETRYING", "RELEASED"}]
    /\ leased \subseteq Keys
    /\ sweep \in [Sweepers -> {"idle", "expiring", "queued", "releasing", "calling", "called"}]
    /\ batch \in [Sweepers -> SUBSET Keys]
    /\ working \in [Sweepers -> Keys \cup {None}]
    /\ transaction \in {"NONE", "PAYMENT_HELD", "SHIPPED", "PAYOUT_ELIGIBLE", "COMPLETED",
                        "DISPUTED", "CANCELLED"}
    /\ winner \in Keys \cup {None}
    /\ evidence \in BOOLEAN /\ paidOut \in BOOLEAN
    /\ dispute \in [Disputes -> {"NONE", "OPEN", "RESOLVED_BUYER", "RESOLVED_SELLER"}]
    /\ handler \in [Handlers -> [op : {"idle", "ship", "deliver", "payout", "dispute",
                                       "resolveBuyer", "resolveSeller"},
                                 about : Disputes \cup {None}]]
    /\ crashes \in 0..MaxCrashes

\* Several offers of a listing may be accepted at once, also one that has
\* just been countered, rejected or expired: exactly the offer of the
\* transaction ends up accepted, and no other is open when it is stored.
OneWinner ==
    \A k \in Keys : offer[k] = "ACCEPTED" <=> winner = k

\* Counteroffers and the expiry sweep give up an offer and queue the release
\* of its hold in one transaction, also when they race an acceptance.
RetiredHoldsQueued ==
    \A k \in Keys : offer[k] \in {"COUNTERED", "EXPIRED"} => job[k] # "NONE"

\* A job is RELEASED only if the provider gave that hold back, whichever
\* process did it and however many leases ran out.
ReleasedMeansReleased ==
    \A k \in Keys : job[k] = "RELEASED" => hold[holdOf[k]] = "RELEASED"

\* No request gives back the hold of an offer that is open or accepted: only
\* the expiry of the offer or a counteroffer does.
LiveOfferBacked ==
    \A k \in Keys :
        /\ offer[k] \in {"OPEN", "ACCEPTED"}
        /\ k \notin lapsed
        /\ \A j \in Keys : OfferParent[j] = k => offer[j] = "NONE"
        => hold[holdOf[k]] = "HELD"

\* Duplicate requests may get different holds for one offer: a hold that no
\* offer has is released by a request that got it, if it does not die.
NoStrayHold ==
    \A h \in Requests :
        hold[h] = "HELD" =>
            \/ \E k \in Keys : holdOf[k] = h
            \/ \E r \in Requests :
                 got[r] = h /\ request[r] \in {"held", "failed", "release", "lost"}

\* Every hold is accounted for: that of a live offer is held, that of an offer
\* that was countered or expired has a release job, a released job was released,
\* and a hold of no offer is given back by whoever got it (offer, counterOffer,
\* acceptOffer, processPaymentReleases).
HoldsAccounted ==
    TypeOK /\ RetiredHoldsQueued /\ ReleasedMeansReleased /\ LiveOfferBacked /\ NoStrayHold

\* A payout is released only for what was shipped, or after a dispute was
\* decided, however the requests of the parties interleave.  (Which way it was
\* decided may change later: resolveDispute does not look again.)
PayoutJustified ==
    paidOut => evidence \/ \E d \in Disputes : dispute[d] \in {"RESOLVED_SELLER", "RESOLVED_BUYER"}

\* An offer that is refused or given up when another is accepted, countered or
\* expires gets a release job in the same transaction: no terminal hold is
\* orphaned.
TerminalHoldsQueued ==
    \A k \in Keys : offer[k] \in {"COUNTERED", "REJECTED", "EXPIRED"} => job[k] # "NONE"

\* The hold behind a release job is given back in the end, although the
\* provider fails, a process dies in the middle and leases run out.
QueuedHoldsReleased ==
    \A k \in Keys : (job[k] # "NONE") ~> (job[k] = "RELEASED")

\* An open offer does not outlive its expiry for ever.
ExpiredOffersRetired ==
    \A k \in Keys : (k \in lapsed /\ offer[k] = "OPEN") ~> (offer[k] # "OPEN")

\* No money stays held for an offer that is over: an expired offer is retired,
\* and a queued hold given back (queueExpiredOfferReleases,
\* processPaymentReleases).
HoldsGivenBack == QueuedHoldsReleased /\ ExpiredOffersRetired
=============================================================================
