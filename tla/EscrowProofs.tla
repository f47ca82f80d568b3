---------------------------- MODULE EscrowProofs ----------------------------
(***************************************************************************)
(* What is proved of one listing of the C2C marketplace, for every set of  *)
(* offers, requests, processes and parties.                                *)
(***************************************************************************)
EXTENDS Escrow, TLAPS

-----------------------------------------------------------------------------
(***************************************************************************)
(* Types.                                                                  *)
(***************************************************************************)

\* Queueing release jobs keeps the type of the jobs.
LEMMA QueueType ==
    ASSUME TypeOK, NEW ks
    PROVE  Queue(ks) \in [Keys -> {"NONE", "PENDING", "PROCESSING", "RETRYING", "RELEASED"}]
BY DEF TypeOK, Queue

\* A buyer's request leaves every variable in its type.
LEMMA RequestTyped ==
    ASSUME TypeOK, NEW r \in Requests, RequestStep(r) \/ OfferLost(r)
    PROVE  TypeOK'
<1> USE DEF offerVars, requestVars, sweepVars, dealVars
<1>1. CASE OfferCheck(r)
  BY <1>1 DEF TypeOK, OfferCheck
<1>2. CASE OfferHold(r)
  BY <1>2 DEF TypeOK, OfferHold
<1>3. CASE OfferInsert(r)
  BY <1>3, QueueType, EscrowAssumption DEF TypeOK, OfferInsert
<1>4. CASE OfferRollback(r)
  BY <1>4 DEF TypeOK, OfferRollback
<1>5. CASE OfferFailed(r)
  BY <1>5 DEF TypeOK, OfferFailed
<1>6. CASE OfferRelease(r)
  BY <1>6 DEF TypeOK, OfferRelease
<1>7. CASE OfferLost(r)
  BY <1>7, EscrowAssumption DEF TypeOK, OfferLost
<1> QED BY <1>1, <1>2, <1>3, <1>4, <1>5, <1>6, <1>7 DEF RequestStep

\* So does an acceptance of the seller.
LEMMA AcceptTyped ==
    ASSUME TypeOK, NEW a \in Acceptors, AcceptStep(a)
    PROVE  TypeOK'
<1> USE DEF offerVars, requestVars, sweepVars, dealVars
<1>1. ASSUME NEW k \in Keys, AcceptRead(a, k) PROVE TypeOK'
  BY <1>1 DEF TypeOK, AcceptRead
<1>2. CASE AcceptCommit(a)
  BY <1>2, QueueType DEF TypeOK, AcceptCommit, AcceptDone
<1>3. CASE AcceptRollback(a)
  BY <1>3 DEF TypeOK, AcceptRollback, AcceptDone
<1> QED BY <1>1, <1>2, <1>3 DEF AcceptStep

\* So does a run of the scheduler.
LEMMA SweepTyped ==
    ASSUME TypeOK, NEW s \in Sweepers, SweepStep(s) \/ SweepCrash(s)
    PROVE  TypeOK'
<1> USE DEF offerVars, requestVars, sweepVars, dealVars
<1>1. CASE SweepExpired(s)
  BY <1>1 DEF TypeOK, SweepExpired
<1>2. CASE SweepQueue(s)
  BY <1>2, QueueType DEF TypeOK, SweepQueue
<1>3. CASE SweepCandidates(s)
  BY <1>3 DEF TypeOK, SweepCandidates, Continue
<1>4. CASE SweepSkip(s)
  BY <1>4 DEF TypeOK, SweepSkip, Continue
<1>5. CASE SweepClaim(s)
  BY <1>5 DEF TypeOK, SweepClaim
<1>6. CASE SweepCall(s)
  BY <1>6 DEF TypeOK, SweepCall
<1>7. CASE SweepReleased(s)
  BY <1>7 DEF TypeOK, SweepReleased, Finish, Continue
<1>8. CASE SweepFailed(s)
  BY <1>8 DEF TypeOK, SweepFailed, Finish, Continue
<1>9. CASE SweepCrash(s)
  BY <1>9, EscrowAssumption DEF TypeOK, SweepCrash
<1> QED BY <1>1, <1>2, <1>3, <1>4, <1>5, <1>6, <1>7, <1>8, <1>9 DEF SweepStep

\* What a request on the transaction may be about to write.
HandlerStates ==
    [op : {"idle", "ship", "deliver", "payout", "dispute", "resolveBuyer", "resolveSeller"},
     about : Disputes \cup {None}]

\* Between its requests a handler has nothing to write.
LEMMA IdleType == Idle \in HandlerStates
BY DEF Idle, HandlerStates

\* A request on the transaction leaves every variable in its type.
LEMMA HandlerTyped ==
    ASSUME TypeOK, NEW h \in Handlers, HandlerStep(h)
    PROVE  TypeOK'
<1> USE DEF offerVars, requestVars, sweepVars, dealVars
<1>1. UNCHANGED <<offerVars, lapsed, hold, requestVars, accepting, job, sweepVars, crashes>>
  BY DEF HandlerStep
<1> DEFINE HandlerTypeOK ==
      /\ transaction \in {"NONE", "PAYMENT_HELD", "SHIPPED", "PAYOUT_ELIGIBLE", "COMPLETED",
                          "DISPUTED", "CANCELLED"}
      /\ winner \in Keys \cup {None}
      /\ evidence \in BOOLEAN /\ paidOut \in BOOLEAN
      /\ dispute \in [Disputes -> {"NONE", "OPEN", "RESOLVED_BUYER", "RESOLVED_SELLER"}]
      /\ handler \in [Handlers -> HandlerStates]
<1>2. HandlerTypeOK
  BY DEF TypeOK, HandlerStates
<1>3. HandlerTypeOK'
  <2>1. CASE ShipCheck(h) \/ DeliverCheck(h) \/ PayoutCheck(h)
    BY <2>1, <1>2 DEF ShipCheck, DeliverCheck, PayoutCheck, Proceed, HandlerStates
  <2>2. ASSUME NEW d \in Disputes, ResolveCheck(h, d) PROVE HandlerTypeOK'
    BY <2>2, <1>2 DEF ResolveCheck, Proceed, HandlerStates
  <2>3. ASSUME NEW d \in Disputes, DisputeOpen(h, d) PROVE HandlerTypeOK'
    BY <2>3, <1>2 DEF DisputeOpen, HandlerStates
  <2>4. CASE Ship(h) \/ Deliver(h)
    BY <2>4, <1>2, IdleType DEF Ship, Deliver, Write
  <2>5. CASE ReleasePayout(h) \/ Dispute(h)
    BY <2>5, <1>2, IdleType DEF ReleasePayout, Dispute, Write
  <2>6. CASE ResolveForSeller(h) \/ ResolveForBuyer(h)
    BY <2>6, <1>2, IdleType DEF ResolveForSeller, ResolveForBuyer, Resolved, Write
  <2> QED BY <2>1, <2>2, <2>3, <2>4, <2>5, <2>6 DEF HandlerStep
<1> QED BY <1>1, <1>3 DEF TypeOK, HandlerStates

\* Every variable has its type, in every behaviour (offer, acceptOffer,
\* processPaymentReleases and the requests on the transaction).
THEOREM EscrowTyped == EscrowSpec => []TypeOK
<1>1. EscrowInit => TypeOK
  <2> SUFFICES ASSUME EscrowInit PROVE TypeOK
    OBVIOUS
  <2>1. accepting \in [Acceptors -> [offer : Keys \cup {None}, losers : SUBSET Keys]]
    BY DEF EscrowInit
  <2>2. handler \in [Handlers -> HandlerStates]
    BY IdleType DEF EscrowInit
  <2>3. crashes \in 0..MaxCrashes
    BY EscrowAssumption DEF EscrowInit
  <2> QED BY <2>1, <2>2, <2>3 DEF EscrowInit, TypeOK, HandlerStates
<1>2. TypeOK /\ [EscrowNext]_escrowVars => TypeOK'
  <2> SUFFICES ASSUME TypeOK, [EscrowNext]_escrowVars PROVE TypeOK'
    OBVIOUS
  <2>1. ASSUME NEW k \in Keys, Lapse(k) \/ LeaseLapse(k) PROVE TypeOK'
    BY <2>1 DEF TypeOK, Lapse, LeaseLapse, offerVars, requestVars, sweepVars, dealVars
  <2>2. CASE UNCHANGED escrowVars
    BY <2>2 DEF TypeOK, escrowVars, offerVars, requestVars, sweepVars, dealVars
  <2> QED BY <2>1, <2>2, RequestTyped, AcceptTyped, SweepTyped, HandlerTyped DEF EscrowNext
<1> QED BY <1>1, <1>2, PTL DEF EscrowSpec

-----------------------------------------------------------------------------
(***************************************************************************)
(* Release jobs.                                                           *)
(***************************************************************************)

\* Nothing stored is forgotten: an offer keeps its row and its hold, a job its
\* row, a hold its record at the provider, and what has lapsed stays lapsed.
Kept ==
    /\ \A k \in Keys : offer[k] # "NONE" => offer'[k] # "NONE" /\ holdOf'[k] = holdOf[k]
    /\ \A k \in Keys : job[k] # "NONE" => job'[k] # "NONE"
    /\ \A r \in Requests : hold[r] # "NONE" => hold'[r] # "NONE"
    /\ lapsed \subseteq lapsed'

\* Every step of the escrow keeps them.
LEMMA StepKeeps ==
    ASSUME TypeOK, [EscrowNext]_escrowVars
    PROVE  Kept
<1> USE DEF TypeOK, Kept, escrowVars, offerVars, requestVars, sweepVars, dealVars
<1>1. ASSUME NEW r \in Requests, RequestStep(r) \/ OfferLost(r) PROVE Kept
  <2>1. CASE OfferInsert(r)
    BY <2>1, EscrowAssumption DEF OfferInsert, Insertable, Queue
  <2>2. CASE OfferHold(r) \/ OfferRelease(r)
    BY <2>2 DEF OfferHold, OfferRelease
  <2>3. CASE OfferCheck(r) \/ OfferRollback(r) \/ OfferFailed(r) \/ OfferLost(r)
    BY <2>3 DEF OfferCheck, OfferRollback, OfferFailed, OfferLost
  <2> QED BY <1>1, <2>1, <2>2, <2>3 DEF RequestStep
<1>2. ASSUME NEW k \in Keys, Lapse(k) \/ LeaseLapse(k) PROVE Kept
  BY <1>2 DEF Lapse, LeaseLapse
<1>3. ASSUME NEW a \in Acceptors, AcceptStep(a) PROVE Kept
  <2>1. CASE AcceptCommit(a)
    BY <2>1 DEF AcceptCommit, Queue
  <2> QED BY <1>3, <2>1 DEF AcceptStep, AcceptRead, AcceptRollback
<1>4. ASSUME NEW s \in Sweepers, SweepStep(s) \/ SweepCrash(s) PROVE Kept
  <2>1. CASE SweepQueue(s)
    BY <2>1 DEF SweepQueue, Queue
  <2>2. CASE SweepClaim(s) \/ SweepCall(s)
    BY <2>2 DEF SweepClaim, SweepCall
  <2>3. CASE SweepReleased(s) \/ SweepFailed(s)
    BY <2>3 DEF SweepReleased, SweepFailed, Finish
  <2>4. CASE SweepExpired(s) \/ SweepCandidates(s) \/ SweepSkip(s) \/ SweepCrash(s)
    BY <2>4 DEF SweepExpired, SweepCandidates, SweepSkip, SweepCrash
  <2> QED BY <1>4, <2>1, <2>2, <2>3, <2>4 DEF SweepStep
<1>5. ASSUME NEW h \in Handlers, HandlerStep(h) PROVE Kept
  BY <1>5 DEF HandlerStep
<1>6. CASE UNCHANGED escrowVars
  BY <1>6
<1> QED BY <1>1, <1>2, <1>3, <1>4, <1>5, <1>6 DEF EscrowNext

\* A release job is that of a stored offer.
JobOffered == \A k \in Keys : job[k] # "NONE" => offer[k] # "NONE"

\* So are the offers of a seller's snapshot, and the one to be accepted does
\* not lose.
SnapshotOffered ==
    \A a \in Acceptors :
        /\ accepting[a].offer # None => offer[accepting[a].offer] # "NONE"
        /\ accepting[a].offer \notin accepting[a].losers
        /\ \A k \in accepting[a].losers : offer[k] # "NONE"

\* A process calls the provider for a job.
SweepWorks ==
    \A s \in Sweepers :
        sweep[s] \in {"calling", "called"} => working[s] \in Keys /\ job[working[s]] # "NONE"

\* A process expires what has lapsed.
ExpiringLapsed == \A s \in Sweepers : sweep[s] = "expiring" => batch[s] \subseteq lapsed

\* The inductive invariant of the release jobs.
JobsInv == JobOffered /\ SnapshotOffered /\ SweepWorks /\ ExpiringLapsed /\ RetiredHoldsQueued

\* It holds with every step.
LEMMA JobsStep ==
    ASSUME TypeOK, TypeOK', JobsInv, [EscrowNext]_escrowVars
    PROVE  JobsInv'
<1> USE DEF TypeOK, JobsInv, escrowVars, offerVars, requestVars, sweepVars, dealVars,
            JobOffered, SnapshotOffered, SweepWorks, ExpiringLapsed, RetiredHoldsQueued
<1>1. Kept
  BY StepKeeps
<1>2. ASSUME NEW r \in Requests, OfferInsert(r) PROVE JobsInv'
  <2>1. JobOffered' /\ RetiredHoldsQueued'
    BY <1>2, EscrowAssumption DEF OfferInsert, Insertable, Queue
  <2>2. SnapshotOffered'
    BY <1>1, <1>2 DEF Kept, OfferInsert
  <2>3. SweepWorks' /\ ExpiringLapsed'
    BY <1>1, <1>2 DEF Kept, OfferInsert
  <2> QED BY <2>1, <2>2, <2>3
<1>3. ASSUME NEW a \in Acceptors, AcceptStep(a) PROVE JobsInv'
  <2>1. ASSUME NEW k \in Keys, AcceptRead(a, k) PROVE JobsInv'
    BY <2>1 DEF AcceptRead
  <2>2. CASE AcceptCommit(a)
    <3>1. JobOffered' /\ RetiredHoldsQueued'
      BY <2>2 DEF AcceptCommit, Queue
    <3>2. SnapshotOffered'
      BY <1>1, <2>2 DEF Kept, AcceptCommit, AcceptDone
    <3> QED BY <1>1, <2>2, <3>1, <3>2 DEF Kept, AcceptCommit
  <2>3. CASE AcceptRollback(a)
    BY <2>3 DEF AcceptRollback, AcceptDone
  <2> QED BY <1>3, <2>1, <2>2, <2>3 DEF AcceptStep
<1>4. ASSUME NEW s \in Sweepers, SweepStep(s) \/ SweepCrash(s) PROVE JobsInv'
  <2>1. CASE SweepQueue(s)
    <3>1. JobOffered' /\ RetiredHoldsQueued'
      BY <2>1 DEF SweepQueue, Queue
    <3> QED BY <1>1, <2>1, <3>1 DEF Kept, SweepQueue
  <2>2. CASE SweepClaim(s)
    BY <2>2 DEF SweepClaim, Claimable
  <2>3. CASE SweepReleased(s) \/ SweepFailed(s)
    BY <1>1, <2>3 DEF Kept, SweepReleased, SweepFailed, Finish, Continue
  <2>4. CASE SweepExpired(s)
    BY <2>4 DEF SweepExpired
  <2>5. CASE SweepCandidates(s)
    BY <2>5 DEF SweepCandidates, Continue
  <2>6. CASE SweepSkip(s)
    BY <2>6 DEF SweepSkip, Continue
  <2>7. CASE SweepCall(s)
    BY <2>7 DEF SweepCall
  <2>8. CASE SweepCrash(s)
    BY <2>8 DEF SweepCrash
  <2> QED BY <1>4, <2>1, <2>2, <2>3, <2>4, <2>5, <2>6, <2>7, <2>8 DEF SweepStep
<1>5. ASSUME NEW k \in Keys, Lapse(k) PROVE JobsInv'
  BY <1>5 DEF Lapse
<1>6. CASE UNCHANGED <<offer, lapsed, accepting, job, sweep, batch, working>>
  BY <1>6
<1> QED
  BY <1>2, <1>3, <1>4, <1>5, <1>6
     DEF EscrowNext, RequestStep, OfferCheck, OfferHold, OfferRollback, OfferFailed, OfferRelease,
         OfferLost, LeaseLapse, HandlerStep

\* It holds in every state.
LEMMA EscrowJobs == EscrowSpec => []JobsInv
<1>1. EscrowInit => JobsInv
  BY EscrowAssumption
     DEF EscrowInit, JobsInv, JobOffered, SnapshotOffered, SweepWorks, ExpiringLapsed,
         RetiredHoldsQueued
<1>2. TypeOK /\ TypeOK' /\ JobsInv /\ [EscrowNext]_escrowVars => JobsInv'
  BY JobsStep
<1> QED BY <1>1, <1>2, EscrowTyped, PTL DEF EscrowSpec

\* Every offer that was countered or has expired has a release job: a
\* counteroffer and the expiry sweep give up an offer and queue its hold in one
\* transaction (counterOffer, queueExpiredOfferReleases).
THEOREM RetiredOffersQueued == EscrowSpec => []RetiredHoldsQueued
<1>1. JobsInv => RetiredHoldsQueued
  BY DEF JobsInv
<1> QED BY <1>1, EscrowJobs, PTL

-----------------------------------------------------------------------------
(***************************************************************************)
(* The winner.                                                             *)
(***************************************************************************)

\* Before there is a transaction no offer has won and none was rejected.
Undecided ==
    transaction = "NONE" => winner = None /\ \A k \in Keys : offer[k] # "REJECTED"

\* The inductive invariant of acceptance.
WinnerInv == OneWinner /\ Undecided

\* It holds with every step.  A second snapshot cannot commit: there is a
\* transaction.
LEMMA WinnerStep ==
    ASSUME TypeOK, WinnerInv, [EscrowNext]_escrowVars
    PROVE  WinnerInv'
<1> USE DEF TypeOK, WinnerInv, OneWinner, Undecided, escrowVars, offerVars, requestVars,
            sweepVars, dealVars
<1>1. ASSUME NEW r \in Requests, OfferInsert(r) PROVE WinnerInv'
  BY <1>1, EscrowAssumption DEF OfferInsert, Insertable
<1>2. ASSUME NEW a \in Acceptors, AcceptCommit(a) PROVE WinnerInv'
  BY <1>2, EscrowAssumption DEF AcceptCommit
<1>3. ASSUME NEW s \in Sweepers, SweepQueue(s) PROVE WinnerInv'
  BY <1>3 DEF SweepQueue
<1>4. ASSUME NEW h \in Handlers, HandlerStep(h) PROVE WinnerInv'
  <2>1. transaction' = "NONE" => transaction = "NONE"
    BY <1>4
       DEF HandlerStep, ShipCheck, DeliverCheck, PayoutCheck, ResolveCheck, DisputeOpen, Proceed,
           Ship, Deliver, ReleasePayout, Dispute, ResolveForSeller, ResolveForBuyer, Write
  <2>2. winner' = winner
    BY <1>4
       DEF HandlerStep, ShipCheck, DeliverCheck, PayoutCheck, ResolveCheck, DisputeOpen, Proceed,
           Ship, Deliver, ReleasePayout, Dispute, ResolveForSeller, ResolveForBuyer, Write
  <2> QED BY <1>4, <2>1, <2>2 DEF HandlerStep
<1>5. CASE UNCHANGED <<offer, transaction, winner>>
  BY <1>5
<1> QED
  BY <1>1, <1>2, <1>3, <1>4, <1>5
     DEF EscrowNext, RequestStep, OfferCheck, OfferHold, OfferRollback, OfferFailed, OfferRelease,
         OfferLost, Lapse, LeaseLapse, AcceptStep, AcceptRead, AcceptRollback, SweepStep,
         SweepExpired, SweepCandidates, SweepSkip, SweepClaim, SweepCall, SweepReleased,
         SweepFailed, SweepCrash, Finish

\* It holds in every state.
LEMMA EscrowDecided == EscrowSpec => []WinnerInv
<1>1. EscrowInit => WinnerInv
  BY EscrowAssumption DEF EscrowInit, WinnerInv, OneWinner, Undecided
<1>2. TypeOK /\ WinnerInv /\ [EscrowNext]_escrowVars => WinnerInv'
  BY WinnerStep
<1> QED BY <1>1, <1>2, EscrowTyped, PTL DEF EscrowSpec

\* However many acceptances of a listing run at once, and whatever buyers and
\* the expiry sweep do meanwhile, exactly the offer of the transaction is
\* accepted (acceptOffer).
THEOREM OneOfferWins == EscrowSpec => []OneWinner
<1>1. WinnerInv => OneWinner
  BY DEF WinnerInv
<1> QED BY <1>1, EscrowDecided, PTL

-----------------------------------------------------------------------------
(***************************************************************************)
(* Payment holds.                                                          *)
(***************************************************************************)

\* A request that has not called the provider has no hold there.
Unheld == \A r \in Requests : request[r] \in {"new", "checked"} => hold[r] = "NONE"

\* A request works with a hold made for its own key.
GotPlaced ==
    \A r \in Requests : request[r] \in {"held", "failed", "release"} =>
        got[r] \in Requests /\ hold[got[r]] # "NONE" /\ RequestKey[got[r]] = RequestKey[r]

\* So is the hold of an offer.
HoldStored ==
    \A k \in Keys :
        /\ offer[k] = "NONE" => holdOf[k] = None
        /\ offer[k] # "NONE" =>
             holdOf[k] \in Requests /\ hold[holdOf[k]] # "NONE" /\ RequestKey[holdOf[k]] = k

\* The provider has given back the hold it was called for.
CalledReleased ==
    \A s \in Sweepers : sweep[s] = "called" => hold[holdOf[working[s]]] = "RELEASED"

\* The inductive invariant of the holds.
HoldsInv ==
    Unheld /\ GotPlaced /\ HoldStored /\ CalledReleased /\ ReleasedMeansReleased /\ NoStrayHold

\* A buyer's request preserves it.
LEMMA RequestHolds ==
    ASSUME TypeOK, JobsInv, HoldsInv, NEW r \in Requests, RequestStep(r) \/ OfferLost(r)
    PROVE  HoldsInv'
<1> USE DEF TypeOK, HoldsInv, offerVars, requestVars, sweepVars, dealVars, Unheld, GotPlaced,
            HoldStored, CalledReleased, ReleasedMeansReleased
<1>1. CASE OfferCheck(r)
  BY <1>1 DEF OfferCheck, NoStrayHold
<1>2. CASE OfferHold(r)
  <2>1. Unheld' /\ GotPlaced'
    BY <1>2, EscrowAssumption DEF OfferHold
  <2>2. HoldStored'
    BY <1>2 DEF OfferHold
  <2>3. CalledReleased'
    BY <1>2 DEF OfferHold, JobsInv, SweepWorks, JobOffered
  <2>4. ReleasedMeansReleased'
    BY <1>2 DEF OfferHold, JobsInv, JobOffered
  <2>5. NoStrayHold'
    BY <1>2 DEF OfferHold, NoStrayHold
  <2> QED BY <2>1, <2>2, <2>3, <2>4, <2>5
<1>3. CASE OfferInsert(r)
  <2>0. RequestKey[r] \in Keys /\ OfferParent[RequestKey[r]] # RequestKey[r]
    BY EscrowAssumption
  <2>1. Unheld' /\ GotPlaced'
    BY <1>3 DEF OfferInsert
  <2>2. HoldStored'
    BY <1>3, <2>0, EscrowAssumption DEF OfferInsert, Insertable
  <2>3. CalledReleased'
    BY <1>3, <2>0 DEF OfferInsert, Insertable, JobsInv, SweepWorks, JobOffered
  <2>4. ReleasedMeansReleased'
    BY <1>3, <2>0 DEF OfferInsert, Insertable, JobsInv, JobOffered, Queue
  <2>5. NoStrayHold'
    <3> SUFFICES ASSUME NEW h \in Requests, hold[h] = "HELD"
                 PROVE  \/ \E k \in Keys : holdOf'[k] = h
                        \/ \E q \in Requests :
                             got[q] = h /\ request'[q] \in {"held", "failed", "release", "lost"}
      BY <1>3 DEF OfferInsert, NoStrayHold
    <3>1. h # None
      BY EscrowAssumption
    <3>2. ASSUME NEW k \in Keys, holdOf[k] = h PROVE holdOf'[k] = h
      BY <1>3, <2>0, <3>1, <3>2 DEF OfferInsert, Insertable
    <3>3. ASSUME NEW q \in Requests, got[q] = h, q # r
          PROVE  request'[q] = request[q]
      BY <1>3, <3>3 DEF OfferInsert
    <3>4. got[r] = h => holdOf'[RequestKey[r]] = h
      BY <1>3, <2>0 DEF OfferInsert
    <3> QED BY <2>0, <3>2, <3>3, <3>4 DEF NoStrayHold
  <2> QED BY <2>1, <2>2, <2>3, <2>4, <2>5
<1>4. CASE OfferRollback(r)
  BY <1>4 DEF OfferRollback, NoStrayHold
<1>5. CASE OfferFailed(r)
  <2>1. NoStrayHold'
    <3>1. MustRelease(r) \/ \E k \in Keys : holdOf[k] = got[r]
      BY EscrowAssumption DEF MustRelease
    <3>2. UNCHANGED <<hold, holdOf, got>> /\ \A q \in Requests \ {r} : request'[q] = request[q]
      BY <1>5 DEF OfferFailed
    <3>3. MustRelease(r) => request'[r] = "release"
      BY <1>5 DEF OfferFailed
    <3> QED BY <3>1, <3>2, <3>3 DEF NoStrayHold
  <2> QED BY <1>5, <2>1 DEF OfferFailed
<1>6. CASE OfferRelease(r)
  <2>1. Unheld' /\ GotPlaced'
    BY <1>6 DEF OfferRelease
  <2>2. HoldStored' /\ CalledReleased'
    BY <1>6 DEF OfferRelease, JobsInv, SweepWorks, JobOffered
  <2>3. ReleasedMeansReleased'
    BY <1>6 DEF OfferRelease, JobsInv, JobOffered
  <2>4. NoStrayHold'
    BY <1>6 DEF OfferRelease, NoStrayHold
  <2> QED BY <2>1, <2>2, <2>3, <2>4
<1>7. CASE OfferLost(r)
  BY <1>7 DEF OfferLost, NoStrayHold
<1> QED BY <1>1, <1>2, <1>3, <1>4, <1>5, <1>6, <1>7 DEF RequestStep

\* So does the scheduler.
LEMMA SweepHolds ==
    ASSUME TypeOK, JobsInv, HoldsInv, NEW s \in Sweepers, SweepStep(s) \/ SweepCrash(s)
    PROVE  HoldsInv'
<1> USE DEF TypeOK, HoldsInv, offerVars, requestVars, sweepVars, dealVars, JobsInv, JobOffered,
            SweepWorks
<1> DEFINE Frame == /\ UNCHANGED <<holdOf, requestVars>>
                    /\ \A k \in Keys : offer[k] = "NONE" <=> offer'[k] = "NONE"
           CalledBefore == \A t \in Sweepers :
                             sweep'[t] = "called" => sweep[t] = "called" /\ working'[t] = working[t]
           ReleasedBefore == \A k \in Keys : job'[k] = "RELEASED" => job[k] = "RELEASED"
<1>1. CASE SweepCall(s)
  <2>1. working[s] \in Keys /\ holdOf[working[s]] \in Requests
    BY <1>1 DEF SweepCall, HoldStored
  <2>2. Unheld'
    BY <1>1, <2>1 DEF SweepCall, Unheld, HoldStored
  <2>3. GotPlaced'
    BY <1>1, <2>1 DEF SweepCall, GotPlaced, HoldStored
  <2>4. HoldStored'
    BY <1>1, <2>1 DEF SweepCall, HoldStored
  <2>5. CalledReleased'
    BY <1>1, <2>1 DEF SweepCall, CalledReleased, HoldStored
  <2>6. ReleasedMeansReleased'
    BY <1>1, <2>1 DEF SweepCall, ReleasedMeansReleased, HoldStored
  <2>7. NoStrayHold'
    BY <1>1, <2>1 DEF SweepCall, NoStrayHold
  <2> QED BY <2>2, <2>3, <2>4, <2>5, <2>6, <2>7
<1>2. CASE SweepReleased(s)
  <2>1. Frame /\ hold' = hold
    BY <1>2 DEF SweepReleased, Finish
  <2>2. CalledBefore
    BY <1>2 DEF SweepReleased, Finish, Continue
  <2>3. ReleasedMeansReleased'
    BY <1>2 DEF SweepReleased, Finish, ReleasedMeansReleased, CalledReleased
  <2> QED BY <2>1, <2>2, <2>3 DEF Unheld, GotPlaced, HoldStored, CalledReleased, NoStrayHold
<1>3. ASSUME Frame, hold' = hold, CalledBefore, ReleasedBefore PROVE HoldsInv'
  <2>1. Unheld' /\ GotPlaced' /\ HoldStored'
    BY <1>3 DEF Unheld, GotPlaced, HoldStored
  <2>2. CalledReleased' /\ ReleasedMeansReleased'
    BY <1>3 DEF CalledReleased, ReleasedMeansReleased
  <2>3. NoStrayHold'
    BY <1>3 DEF NoStrayHold
  <2> QED BY <2>1, <2>2, <2>3
<1>4. CASE SweepExpired(s)
  <2>1. Frame /\ hold' = hold /\ CalledBefore /\ ReleasedBefore
    BY <1>4 DEF SweepExpired
  <2> QED BY <2>1, <1>3
<1>5. CASE SweepQueue(s)
  <2>1. Frame /\ hold' = hold /\ CalledBefore
    BY <1>5 DEF SweepQueue
  <2>2. ReleasedBefore
    BY <1>5 DEF SweepQueue, Queue
  <2> QED BY <2>1, <2>2, <1>3
<1>6. CASE SweepCandidates(s) \/ SweepSkip(s)
  <2>1. Frame /\ hold' = hold /\ ReleasedBefore
    BY <1>6 DEF SweepCandidates, SweepSkip
  <2>2. CalledBefore
    BY <1>6 DEF SweepCandidates, SweepSkip, Continue
  <2> QED BY <2>1, <2>2, <1>3
<1>7. CASE SweepClaim(s)
  <2>1. Frame /\ hold' = hold /\ CalledBefore
    BY <1>7 DEF SweepClaim
  <2>2. ReleasedBefore
    BY <1>7 DEF SweepClaim
  <2> QED BY <2>1, <2>2, <1>3
<1>8. CASE SweepFailed(s)
  <2>1. Frame /\ hold' = hold
    BY <1>8 DEF SweepFailed, Finish
  <2>2. CalledBefore
    BY <1>8 DEF SweepFailed, Finish, Continue
  <2>3. ReleasedBefore
    BY <1>8 DEF SweepFailed, Finish
  <2> QED BY <2>1, <2>2, <2>3, <1>3
<1>9. CASE SweepCrash(s)
  <2>1. Frame /\ hold' = hold /\ CalledBefore /\ ReleasedBefore
    BY <1>9 DEF SweepCrash
  <2> QED BY <2>1, <1>3
<1> QED BY <1>1, <1>2, <1>4, <1>5, <1>6, <1>7, <1>8, <1>9 DEF SweepStep

\* So does every step.
LEMMA HoldsStep ==
    ASSUME TypeOK, JobsInv, HoldsInv, [EscrowNext]_escrowVars
    PROVE  HoldsInv'
<1> USE DEF HoldsInv, escrowVars, offerVars, requestVars, sweepVars, dealVars
<1>1. ASSUME NEW a \in Acceptors, AcceptCommit(a) PROVE HoldsInv'
  <2>1. /\ UNCHANGED <<holdOf, hold, requestVars, sweep, working>>
        /\ \A k \in Keys : offer[k] = "NONE" <=> offer'[k] = "NONE"
    BY <1>1 DEF AcceptCommit, TypeOK, JobsInv, SnapshotOffered
  <2>2. \A k \in Keys : job'[k] = "RELEASED" => job[k] = "RELEASED"
    BY <1>1 DEF AcceptCommit, Queue, TypeOK
  <2> QED
    BY <2>1, <2>2 DEF Unheld, GotPlaced, HoldStored, CalledReleased, ReleasedMeansReleased,
                      NoStrayHold
<1>2. CASE UNCHANGED <<offer, holdOf, hold, requestVars, job, sweep, working>>
  BY <1>2 DEF Unheld, GotPlaced, HoldStored, CalledReleased, ReleasedMeansReleased, NoStrayHold
<1> QED
  BY <1>1, <1>2, RequestHolds, SweepHolds
     DEF EscrowNext, Lapse, LeaseLapse, AcceptStep, AcceptRead, AcceptRollback, HandlerStep

\* The invariant of the holds is one in every state.
LEMMA EscrowHolds == EscrowSpec => []HoldsInv
<1>1. EscrowInit => HoldsInv
  BY DEF EscrowInit, HoldsInv, Unheld, GotPlaced, HoldStored, CalledReleased,
         ReleasedMeansReleased, NoStrayHold
<1>2. TypeOK /\ JobsInv /\ HoldsInv /\ [EscrowNext]_escrowVars => HoldsInv'
  BY HoldsStep
<1> QED BY <1>1, <1>2, EscrowTyped, EscrowJobs, PTL DEF EscrowSpec

\* A job that says RELEASED stands for a hold the provider gave back, whichever
\* process did it and however many leases ran out (processPaymentReleases).
THEOREM ReleasedJobsReleased == EscrowSpec => []ReleasedMeansReleased
<1>1. HoldsInv => ReleasedMeansReleased
  BY DEF HoldsInv
<1> QED BY <1>1, EscrowHolds, PTL

\* A hold of no offer is held by a request that will give it back, unless its
\* process dies: duplicates of a request, and requests whose transaction fails,
\* leave no hold behind (the catch block of offer and counterOffer).
THEOREM StrayHoldsReturned == EscrowSpec => []NoStrayHold
<1>1. HoldsInv => NoStrayHold
  BY DEF HoldsInv
<1> QED BY <1>1, EscrowHolds, PTL

-----------------------------------------------------------------------------
(***************************************************************************)
(* The holds of live offers.  A failed request gives back its hold if no   *)
(* offer has it: it must not be that another request stores it between the *)
(* look and the call.                                                      *)
(***************************************************************************)

\* The key of request r is its own: nobody repeats the request.
Alone(r) == \A q \in Requests : RequestKey[q] = RequestKey[r] => q = r

\* The transactions the database aborts for no reason of the rows are those of
\* requests nobody repeats.
UnluckyAlone == \A r \in Unlucky : Alone(r)

\* No offer will be stored under k any more: one is, or what it counters is
\* closed.
Over(k) ==
    \/ offer[k] # "NONE"
    \/ OfferParent[k] # None /\ offer[OfferParent[k]] \notin {"NONE", "OPEN"}

\* Offer k has been countered.
Countered(k) == \E j \in Keys : OfferParent[j] = k /\ offer[j] # "NONE"

\* A request that was checked counters an offer that is stored.
ParentStored ==
    \A r \in Requests :
        request[r] \in {"checked", "held"} /\ OfferParent[RequestKey[r]] # None =>
            offer[OfferParent[RequestKey[r]]] # "NONE"

\* A request fails when its key is over, or it is alone.
FailedIsOver ==
    \A r \in Requests : request[r] \in {"failed", "release"} => Over(RequestKey[r]) \/ Alone(r)

\* The hold of a request that can still be stored is held.
HeldUnlessOver ==
    \A r \in Requests : request[r] = "held" => hold[got[r]] = "HELD" \/ Over(RequestKey[r])

\* A request gives back a hold its offer does not have.
ReleaseUnowned == \A r \in Requests : request[r] = "release" => holdOf[RequestKey[r]] # got[r]

\* Why an offer is closed, and why it has a job.
Reasons ==
    \A k \in Keys :
        /\ offer[k] = "COUNTERED" => Countered(k)
        /\ offer[k] = "EXPIRED" => k \in lapsed
        /\ job[k] # "NONE" => offer[k] = "REJECTED" \/ k \in lapsed \/ Countered(k)

\* The inductive invariant of the live offers.
LiveInv ==
    ParentStored /\ FailedIsOver /\ HeldUnlessOver /\ ReleaseUnowned /\ Reasons /\ LiveOfferBacked

\* What is over stays over, and what was countered stays so.
LEMMA OverStays ==
    ASSUME TypeOK, WinnerInv, [EscrowNext]_escrowVars, NEW k \in Keys
    PROVE  (Over(k) => Over(k)') /\ (Countered(k) => Countered(k)')
<1>1. Kept
  BY StepKeeps
<1>2. ASSUME NEW j \in Keys, offer[j] \notin {"NONE", "OPEN"} PROVE offer'[j] \notin {"NONE", "OPEN"}
  <2>1. CASE UNCHANGED offer
    BY <1>2, <2>1
  <2>2. ASSUME NEW r \in Requests, OfferInsert(r) PROVE offer'[j] \notin {"NONE", "OPEN"}
    BY <1>2, <2>2 DEF OfferInsert, Insertable, TypeOK
  <2>3. ASSUME NEW a \in Acceptors, AcceptCommit(a) PROVE offer'[j] \notin {"NONE", "OPEN"}
    BY <1>2, <2>3 DEF AcceptCommit, TypeOK
  <2>4. ASSUME NEW s \in Sweepers, SweepQueue(s) PROVE offer'[j] \notin {"NONE", "OPEN"}
    BY <1>2, <2>4 DEF SweepQueue, TypeOK
  <2> QED
    BY <2>1, <2>2, <2>3, <2>4
       DEF EscrowNext, escrowVars, offerVars, RequestStep, OfferCheck, OfferHold, OfferRollback,
           OfferFailed, OfferRelease, OfferLost, Lapse, LeaseLapse, AcceptStep, AcceptRead,
           AcceptRollback, SweepStep, SweepExpired, SweepCandidates, SweepSkip, SweepClaim,
           SweepCall, SweepReleased, SweepFailed, SweepCrash, Finish, HandlerStep
<1>3. OfferParent[k] \in Keys \cup {None}
  BY EscrowAssumption
<1> QED BY <1>1, <1>2, <1>3 DEF Over, Countered, Kept

\* A buyer's request preserves the invariant.
LEMMA RequestLive ==
    ASSUME UnluckyAlone, TypeOK, JobsInv, WinnerInv, HoldsInv, LiveInv, [EscrowNext]_escrowVars,
           NEW r \in Requests, RequestStep(r) \/ OfferLost(r)
    PROVE  LiveInv'
<1> USE DEF TypeOK, offerVars, requestVars, sweepVars, dealVars
<1>0. /\ RequestKey \in [Requests -> Keys]
      /\ OfferParent \in [Keys -> Keys \cup {None}]
      /\ None \notin Keys \cup Requests
      /\ Unlucky \subseteq Requests
  BY EscrowAssumption
<1>1. /\ \A k \in Keys : (Over(k) => Over(k)') /\ (Countered(k) => Countered(k)')
      /\ Kept
  BY OverStays, StepKeeps
<1>2. CASE OfferCheck(r)
  <2>1. UNCHANGED <<offer, holdOf, hold, job, lapsed, got>>
    BY <1>2 DEF OfferCheck
  <2>2. /\ \A q \in Requests : q # r => request'[q] = request[q]
        /\ request'[r] \in {"done", "checked"}
    BY <1>2 DEF OfferCheck
  <2>3. request'[r] = "checked" /\ OfferParent[RequestKey[r]] # None =>
          offer[OfferParent[RequestKey[r]]] # "NONE"
    BY <1>2 DEF OfferCheck
  <2>4. ParentStored'
    BY <2>1, <2>2, <2>3 DEF LiveInv, ParentStored
  <2>5. (FailedIsOver /\ HeldUnlessOver /\ ReleaseUnowned)'
    BY <2>1, <2>2 DEF LiveInv, FailedIsOver, HeldUnlessOver, ReleaseUnowned, Over
  <2>6. (Reasons /\ LiveOfferBacked)'
    BY <2>1 DEF LiveInv, Reasons, Countered, LiveOfferBacked
  <2> QED BY <2>4, <2>5, <2>6 DEF LiveInv
<1>3. CASE OfferHold(r)
  <2>1. UNCHANGED <<offer, holdOf, job, lapsed>>
    BY <1>3 DEF OfferHold
  <2>2. \A q \in Requests : q # r => request'[q] = request[q] /\ got'[q] = got[q]
    BY <1>3 DEF OfferHold
  <2>3. request[r] = "checked" /\ request'[r] \in {"held", "done"}
    BY <1>3 DEF OfferHold
  <2>4. \A h \in Requests : hold[h] = "HELD" => hold'[h] = "HELD"
    BY <1>3 DEF OfferHold
  <2>5. request'[r] = "held" => hold'[got'[r]] = "HELD"
    BY <1>3 DEF OfferHold
  <2>6. ParentStored' /\ FailedIsOver' /\ ReleaseUnowned'
    BY <2>1, <2>2, <2>3 DEF LiveInv, ParentStored, FailedIsOver, ReleaseUnowned, Over
  <2>7. HeldUnlessOver'
    BY <2>1, <2>2, <2>4, <2>5 DEF LiveInv, HeldUnlessOver, Over, HoldsInv, GotPlaced
  <2>8. Reasons'
    BY <2>1 DEF LiveInv, Reasons, Countered
  <2>9. LiveOfferBacked'
    BY <2>1, <2>4 DEF LiveInv, LiveOfferBacked, HoldsInv, HoldStored
  <2> QED BY <2>6, <2>7, <2>8, <2>9 DEF LiveInv
<1>4. CASE OfferInsert(r)
  <2> DEFINE k == RequestKey[r]
             parent == OfferParent[k]
  <2>1. /\ k \in Keys /\ parent \in Keys \cup {None} /\ parent # k /\ None \notin Keys
        /\ request[r] = "held"
        /\ offer[k] = "NONE" /\ (parent # None => offer[parent] = "OPEN")
        /\ UNCHANGED <<hold, got, lapsed>>
    BY <1>4, EscrowAssumption DEF OfferInsert, Insertable
  <2>2. /\ offer'[k] = "OPEN" /\ holdOf'[k] = got[r]
        /\ \A j \in Keys \ {k} :
             holdOf'[j] = holdOf[j] /\ (j # parent => offer'[j] = offer[j] /\ job'[j] = job[j])
        /\ parent # None => offer'[parent] = "COUNTERED"
        /\ job'[k] = job[k]
    BY <1>4, <2>1 DEF OfferInsert, Queue
  <2>3. \A q \in Requests : q # r => request'[q] = request[q]
    BY <1>4 DEF OfferInsert
  <2>4. request'[r] = "done"
    BY <1>4 DEF OfferInsert
  <2>5. ~Over(k) /\ job[k] = "NONE" /\ hold[got[r]] = "HELD"
    BY <2>1 DEF Over, LiveInv, HeldUnlessOver, JobsInv, JobOffered
  <2>6. ParentStored'
    BY <1>0, <1>1, <2>3, <2>4 DEF LiveInv, ParentStored, Kept
  <2>7. FailedIsOver'
    BY <1>0, <1>1, <2>3, <2>4 DEF LiveInv, FailedIsOver
  <2>8. HeldUnlessOver'
    BY <1>0, <1>1, <2>1, <2>3, <2>4 DEF LiveInv, HeldUnlessOver
  <2>9. ReleaseUnowned'
    <3> SUFFICES ASSUME NEW q \in Requests, request'[q] = "release"
                 PROVE  holdOf'[RequestKey[q]] # got'[q]
      BY DEF ReleaseUnowned
    <3>1. request[q] = "release" /\ q # r
      BY <2>3, <2>4
    <3>2. RequestKey[q] # k
      BY <2>5, <3>1 DEF LiveInv, FailedIsOver, Alone
    <3> QED BY <1>0, <2>1, <2>2, <3>1, <3>2 DEF LiveInv, ReleaseUnowned
  <2>10. Countered(parent)'
    BY <2>1, <2>2 DEF Countered
  <2>11. Reasons'
    BY <1>1, <2>1, <2>2, <2>5, <2>10 DEF LiveInv, Reasons
  <2>12. LiveOfferBacked'
    <3> SUFFICES ASSUME NEW j \in Keys, offer'[j] \in {"OPEN", "ACCEPTED"}, j \notin lapsed',
                        ~Countered(j)'
                 PROVE  hold'[holdOf'[j]] = "HELD"
      BY DEF LiveOfferBacked, Countered
    <3>1. j # k => j # parent
      BY <2>1, <2>2
    <3>2. ~Countered(j)
      BY <1>1
    <3> QED BY <2>1, <2>2, <2>5, <3>1, <3>2 DEF LiveInv, LiveOfferBacked, Countered
  <2> QED BY <2>6, <2>7, <2>8, <2>9, <2>11, <2>12 DEF LiveInv
<1>5. ASSUME UNCHANGED <<offer, holdOf, job, lapsed, hold, got>>,
             \A q \in Requests : q # r => request'[q] = request[q],
             request'[r] \notin {"checked", "held"},
             request'[r] \in {"failed", "release"} => Over(RequestKey[r]) \/ Alone(r),
             request'[r] = "release" => holdOf[RequestKey[r]] # got[r]
      PROVE  LiveInv'
  BY <1>5 DEF LiveInv, ParentStored, FailedIsOver, HeldUnlessOver, ReleaseUnowned, Reasons,
              LiveOfferBacked, Over, Countered
<1>6. CASE OfferRollback(r)
  <2>1. request[r] = "held" /\ request'[r] = "failed"
    BY <1>6 DEF OfferRollback
  <2>2. CASE r \in Unlucky
    BY <1>5, <1>6, <2>1, <2>2 DEF OfferRollback, UnluckyAlone
  <2>3. CASE ~Insertable(r)
    <3>1. Over(RequestKey[r])
      BY <1>0, <2>1, <2>3
         DEF Insertable, Over, LiveInv, ParentStored, HoldsInv, GotPlaced, HoldStored
    <3> QED BY <1>5, <1>6, <2>1, <3>1 DEF OfferRollback
  <2> QED BY <1>6, <2>2, <2>3 DEF OfferRollback
<1>7. CASE OfferFailed(r)
  <2>1. request[r] = "failed" /\ request'[r] \in {"release", "done"}
    BY <1>7 DEF OfferFailed
  <2>2. Over(RequestKey[r]) \/ Alone(r)
    BY <2>1 DEF LiveInv, FailedIsOver
  <2>3. request'[r] = "release" => holdOf[RequestKey[r]] # got[r]
    BY <1>0, <1>7 DEF OfferFailed, MustRelease
  <2> QED BY <1>5, <1>7, <2>1, <2>2, <2>3 DEF OfferFailed
<1>8. CASE OfferRelease(r)
  <2>1. /\ request[r] = "release" /\ request'[r] = "done"
        /\ \A q \in Requests : q # r => request'[q] = request[q]
        /\ UNCHANGED <<offer, holdOf, job, lapsed, got>>
        /\ \A h \in Requests : h # got[r] => hold'[h] = hold[h]
    BY <1>8 DEF OfferRelease
  <2>2. ParentStored' /\ FailedIsOver' /\ ReleaseUnowned'
    BY <2>1 DEF LiveInv, ParentStored, FailedIsOver, ReleaseUnowned, Over
  <2>3. HeldUnlessOver'
    <3> SUFFICES ASSUME NEW q \in Requests, request'[q] = "held", ~Over(RequestKey[q])'
                 PROVE  hold'[got'[q]] = "HELD"
      BY DEF HeldUnlessOver
    <3>1. q # r /\ request[q] = "held" /\ got'[q] = got[q]
      BY <2>1
    <3>2. ~Over(RequestKey[q])
      BY <2>1 DEF Over
    <3>3. RequestKey[q] # RequestKey[r]
      BY <2>1, <3>1, <3>2 DEF LiveInv, FailedIsOver, Alone
    <3>4. got[q] # got[r] /\ got[q] \in Requests
      BY <2>1, <3>1, <3>3 DEF HoldsInv, GotPlaced
    <3> QED BY <2>1, <3>1, <3>2, <3>4 DEF LiveInv, HeldUnlessOver
  <2>4. Reasons'
    BY <2>1 DEF LiveInv, Reasons, Countered
  <2>5. LiveOfferBacked'
    <3>1. \A k \in Keys : offer[k] # "NONE" => holdOf[k] \in Requests /\ holdOf[k] # got[r]
      BY <2>1 DEF HoldsInv, HoldStored, GotPlaced, LiveInv, ReleaseUnowned
    <3> QED BY <2>1, <3>1 DEF LiveInv, LiveOfferBacked
  <2> QED BY <2>2, <2>3, <2>4, <2>5 DEF LiveInv
<1>9. CASE OfferLost(r)
  BY <1>5, <1>9 DEF OfferLost
<1> QED BY <1>2, <1>3, <1>4, <1>6, <1>7, <1>8, <1>9 DEF RequestStep

\* So does the scheduler.
LEMMA SweepLive ==
    ASSUME TypeOK, JobsInv, WinnerInv, HoldsInv, LiveInv, [EscrowNext]_escrowVars,
           NEW s \in Sweepers, SweepStep(s) \/ SweepCrash(s)
    PROVE  LiveInv'
<1> USE DEF TypeOK, offerVars, requestVars, sweepVars, dealVars
<1>1. /\ \A k \in Keys : (Over(k) => Over(k)') /\ (Countered(k) => Countered(k)')
      /\ RequestKey \in [Requests -> Keys]
      /\ Kept
  BY OverStays, StepKeeps, EscrowAssumption
<1>2. CASE SweepQueue(s)
  <2>1. /\ UNCHANGED <<holdOf, lapsed, hold, request, got>>
        /\ \A k \in Keys :
             \/ offer'[k] = offer[k] /\ job'[k] = job[k]
             \/ offer'[k] = "EXPIRED" /\ k \in lapsed
    BY <1>2 DEF SweepQueue, Queue, JobsInv, ExpiringLapsed
  <2>2. ParentStored' /\ FailedIsOver' /\ HeldUnlessOver' /\ ReleaseUnowned'
    BY <1>1, <2>1, EscrowAssumption
       DEF LiveInv, ParentStored, FailedIsOver, HeldUnlessOver, ReleaseUnowned, Kept
  <2>3. Reasons'
    BY <1>1, <2>1 DEF LiveInv, Reasons
  <2>4. LiveOfferBacked'
    <3>1. \A k \in Keys : ~Countered(k)' => ~Countered(k)
      BY <1>1
    <3> QED BY <2>1, <3>1 DEF LiveInv, LiveOfferBacked, Countered
  <2> QED BY <2>2, <2>3, <2>4 DEF LiveInv
<1>3. CASE SweepCall(s)
  <2> DEFINE k == working[s]
  <2>1. /\ UNCHANGED <<offer, holdOf, lapsed, request, got, job>>
        /\ \A h \in Requests : h # holdOf[k] => hold'[h] = hold[h]
        /\ k \in Keys /\ job[k] # "NONE" /\ offer[k] # "NONE" /\ RequestKey[holdOf[k]] = k
    BY <1>3 DEF SweepCall, JobsInv, SweepWorks, JobOffered, HoldsInv, HoldStored
  <2>2. ParentStored' /\ FailedIsOver' /\ ReleaseUnowned'
    BY <2>1 DEF LiveInv, ParentStored, FailedIsOver, ReleaseUnowned, Over
  <2>3. HeldUnlessOver'
    <3> SUFFICES ASSUME NEW q \in Requests, request[q] = "held", ~Over(RequestKey[q])
                 PROVE  hold'[got[q]] = "HELD"
      BY <2>1 DEF HeldUnlessOver, Over
    <3>1. got[q] \in Requests /\ RequestKey[got[q]] # k
      BY <2>1 DEF Over, HoldsInv, GotPlaced
    <3> QED BY <2>1, <3>1 DEF LiveInv, HeldUnlessOver
  <2>4. Reasons'
    BY <2>1 DEF LiveInv, Reasons, Countered
  <2>5. LiveOfferBacked'
    <3> SUFFICES ASSUME NEW j \in Keys, offer[j] \in {"OPEN", "ACCEPTED"}, j \notin lapsed,
                        ~Countered(j)
                 PROVE  hold'[holdOf[j]] = "HELD"
      BY <2>1 DEF LiveOfferBacked, Countered
    <3>1. hold[holdOf[j]] = "HELD"
      BY DEF LiveInv, LiveOfferBacked, Countered
    <3>2. j # k
      BY <2>1 DEF LiveInv, Reasons
    <3>3. holdOf[j] \in Requests /\ holdOf[j] # holdOf[k]
      BY <2>1, <3>2 DEF HoldsInv, HoldStored
    <3> QED BY <2>1, <3>1, <3>3
  <2> QED BY <2>2, <2>3, <2>4, <2>5 DEF LiveInv
<1>4. ASSUME UNCHANGED <<offer, holdOf, lapsed, hold, request, got>>,
             \A k \in Keys : job[k] = "NONE" => job'[k] = "NONE"
      PROVE  LiveInv'
  <2>1. (ParentStored /\ FailedIsOver /\ HeldUnlessOver /\ ReleaseUnowned /\ LiveOfferBacked)'
    BY <1>4 DEF LiveInv, ParentStored, FailedIsOver, HeldUnlessOver, ReleaseUnowned,
                LiveOfferBacked, Over
  <2>2. Reasons'
    BY <1>4 DEF LiveInv, Reasons, Countered
  <2> QED BY <2>1, <2>2 DEF LiveInv
<1>5. CASE SweepClaim(s)
  <2>1. \A k \in Keys : job[k] = "NONE" => job'[k] = "NONE"
    BY <1>5 DEF SweepClaim, Claimable
  <2> QED BY <1>4, <1>5, <2>1 DEF SweepClaim
<1>6. CASE SweepReleased(s) \/ SweepFailed(s)
  <2>1. \A k \in Keys : job[k] = "NONE" => job'[k] = "NONE"
    BY <1>6 DEF SweepReleased, SweepFailed, Finish, JobsInv, SweepWorks
  <2> QED BY <1>4, <1>6, <2>1 DEF SweepReleased, SweepFailed, Finish
<1>7. CASE SweepExpired(s) \/ SweepCandidates(s) \/ SweepSkip(s) \/ SweepCrash(s)
  BY <1>4, <1>7 DEF SweepExpired, SweepCandidates, SweepSkip, SweepCrash
<1> QED BY <1>2, <1>3, <1>5, <1>6, <1>7 DEF SweepStep

\* So does the commit of an acceptance: the accepted offer was open, for one
\* that was countered or has expired is no live offer, and none was rejected.
LEMMA AcceptLive ==
    ASSUME TypeOK, JobsInv, WinnerInv, HoldsInv, LiveInv, [EscrowNext]_escrowVars,
           NEW a \in Acceptors, AcceptCommit(a)
    PROVE  LiveInv'
<1> USE DEF TypeOK, offerVars, requestVars, sweepVars, dealVars
<1> DEFINE k == accepting[a].offer
           losers == accepting[a].losers
<1>1. /\ \A j \in Keys : (Over(j) => Over(j)') /\ (Countered(j) => Countered(j)')
      /\ RequestKey \in [Requests -> Keys]
      /\ Kept
  BY OverStays, StepKeeps, EscrowAssumption
<1>2. /\ UNCHANGED <<holdOf, lapsed, hold, request, got>>
      /\ k \in Keys /\ offer[k] # "NONE" /\ k \notin losers
      /\ \A j \in Keys : offer[j] \notin {"REJECTED", "ACCEPTED"}
      /\ offer'[k] = "ACCEPTED"
      /\ \A j \in Keys \ {k} : IF offer[j] = "OPEN" THEN offer'[j] = "REJECTED"
                                                    ELSE offer'[j] = offer[j]
      /\ \A j \in losers : offer[j] # "NONE"
  BY EscrowAssumption
     DEF AcceptCommit, JobsInv, SnapshotOffered, WinnerInv, OneWinner, Undecided
<1>3. \A j \in Keys : job'[j] = job[j] \/ j \in losers
  BY DEF AcceptCommit, Queue
<1>4. (ParentStored /\ FailedIsOver /\ HeldUnlessOver /\ ReleaseUnowned)'
  BY <1>1, <1>2, EscrowAssumption
     DEF LiveInv, ParentStored, FailedIsOver, HeldUnlessOver, ReleaseUnowned, Kept
<1>5. Reasons'
  <2> SUFFICES ASSUME NEW j \in Keys
               PROVE  /\ offer'[j] = "COUNTERED" => Countered(j)'
                      /\ offer'[j] = "EXPIRED" => j \in lapsed'
                      /\ job'[j] # "NONE" => \/ offer'[j] = "REJECTED" \/ j \in lapsed'
                                             \/ Countered(j)'
    BY DEF Reasons
  <2>1. CASE j = k
    BY <1>1, <1>2, <1>3, <2>1 DEF LiveInv, Reasons
  <2>2. CASE j # k
    BY <1>1, <1>2, <1>3, <2>2 DEF LiveInv, Reasons
  <2> QED BY <2>1, <2>2
<1>6. LiveOfferBacked'
  <2> SUFFICES ASSUME NEW j \in Keys, offer'[j] \in {"OPEN", "ACCEPTED"}, j \notin lapsed,
                      ~Countered(j)
               PROVE  hold[holdOf[j]] = "HELD"
    BY <1>1, <1>2 DEF LiveOfferBacked, Countered
  <2>1. offer[j] = "OPEN"
    BY <1>2 DEF LiveInv, Reasons
  <2> QED BY <2>1 DEF LiveInv, LiveOfferBacked, Countered
<1> QED BY <1>4, <1>5, <1>6 DEF LiveInv

\* So does every step.
LEMMA LiveStep ==
    ASSUME UnluckyAlone, TypeOK, JobsInv, WinnerInv, HoldsInv, LiveInv, [EscrowNext]_escrowVars
    PROVE  LiveInv'
<1> USE DEF LiveInv, escrowVars, offerVars, requestVars, sweepVars, dealVars
<1>1. ASSUME NEW k \in Keys, Lapse(k) PROVE LiveInv'
  BY <1>1 DEF Lapse, ParentStored, FailedIsOver, HeldUnlessOver, ReleaseUnowned, Reasons,
              LiveOfferBacked, Over, Countered
<1>2. CASE UNCHANGED <<offer, holdOf, lapsed, hold, requestVars, job>>
  BY <1>2 DEF ParentStored, FailedIsOver, HeldUnlessOver, ReleaseUnowned, Reasons,
              LiveOfferBacked, Over, Countered
<1> QED
  BY <1>1, <1>2, RequestLive, SweepLive, AcceptLive
     DEF EscrowNext, LeaseLapse, AcceptStep, AcceptRead, AcceptRollback, HandlerStep

\* No request gives back the hold of an offer that is live, whatever requests
\* are repeated, fail or race each other, if those the database aborts are not
\* repeated (offer, counterOffer, processPaymentReleases).
THEOREM LiveOffersBacked == UnluckyAlone => (EscrowSpec => []LiveOfferBacked)
<1> SUFFICES ASSUME UnluckyAlone PROVE EscrowSpec => []LiveOfferBacked
  OBVIOUS
<1>1. EscrowInit => LiveInv
  BY DEF EscrowInit, LiveInv, ParentStored, FailedIsOver, HeldUnlessOver, ReleaseUnowned, Reasons,
         LiveOfferBacked
<1>2. TypeOK /\ JobsInv /\ WinnerInv /\ HoldsInv /\ LiveInv /\ [EscrowNext]_escrowVars => LiveInv'
  BY LiveStep
<1>3. LiveInv => LiveOfferBacked
  BY DEF LiveInv
<1> QED
  BY <1>1, <1>2, <1>3, EscrowTyped, EscrowJobs, EscrowDecided, EscrowHolds, PTL DEF EscrowSpec

\* Every hold is accounted for (offer, counterOffer, acceptOffer,
\* processPaymentReleases).
THEOREM AllHoldsAccounted == UnluckyAlone => (EscrowSpec => []HoldsAccounted)
<1>1. TypeOK /\ RetiredHoldsQueued /\ ReleasedMeansReleased /\ LiveOfferBacked /\ NoStrayHold =>
        HoldsAccounted
  BY DEF HoldsAccounted
<1> QED
  BY <1>1, EscrowTyped, RetiredOffersQueued, ReleasedJobsReleased, LiveOffersBacked,
     StrayHoldsReturned, PTL

-----------------------------------------------------------------------------
(***************************************************************************)
(* The payout.                                                             *)
(***************************************************************************)

\* There is a reason to pay the seller.
Justified ==
    evidence \/ \E d \in Disputes : dispute[d] \in {"RESOLVED_SELLER", "RESOLVED_BUYER"}

\* The inductive invariant of the transaction: what was shipped has evidence,
\* and whoever is on the way to a payout has a reason.
PayInv ==
    /\ transaction = "SHIPPED" => evidence
    /\ transaction = "PAYOUT_ELIGIBLE" \/ paidOut => Justified
    /\ \A h \in Handlers :
         /\ handler[h].op \in {"deliver", "payout"} => Justified
         /\ handler[h].op \in {"resolveBuyer", "resolveSeller"} => handler[h].about \in Disputes

\* A request on the transaction preserves it.
LEMMA HandlerPays ==
    ASSUME TypeOK, PayInv, NEW h \in Handlers, HandlerStep(h)
    PROVE  PayInv'
<1> USE DEF TypeOK, PayInv, Justified
<1>1. CASE ShipCheck(h) \/ DeliverCheck(h) \/ PayoutCheck(h)
  BY <1>1 DEF ShipCheck, DeliverCheck, PayoutCheck, Proceed
<1>2. ASSUME NEW d \in Disputes, ResolveCheck(h, d) PROVE PayInv'
  BY <1>2 DEF ResolveCheck, Proceed
<1>3. ASSUME NEW d \in Disputes, DisputeOpen(h, d) PROVE PayInv'
  BY <1>3 DEF DisputeOpen
<1>4. CASE Ship(h)
  BY <1>4 DEF Ship, Write, Idle
<1>5. CASE Deliver(h) \/ Dispute(h)
  BY <1>5 DEF Deliver, Dispute, Write, Idle
<1>6. CASE ReleasePayout(h)
  BY <1>6 DEF ReleasePayout, Write, Idle
<1>7. CASE ResolveForSeller(h) \/ ResolveForBuyer(h)
  BY <1>7 DEF ResolveForSeller, ResolveForBuyer, Resolved, Write, Idle
<1> QED BY <1>1, <1>2, <1>3, <1>4, <1>5, <1>6, <1>7 DEF HandlerStep

\* A payout is released only for what was shipped, or after a dispute was
\* decided: each request looks at the transaction before it writes, and others
\* write in between (confirmDelivery, releasePayout, openDispute,
\* resolveDispute).
THEOREM PayoutsJustified == EscrowSpec => []PayoutJustified
<1>1. EscrowInit => PayInv
  BY DEF EscrowInit, PayInv, Idle
<1>2. TypeOK /\ PayInv /\ [EscrowNext]_escrowVars => PayInv'
  <2> SUFFICES ASSUME TypeOK, PayInv, [EscrowNext]_escrowVars PROVE PayInv'
    OBVIOUS
  <2>1. ASSUME NEW a \in Acceptors, AcceptCommit(a) PROVE PayInv'
    BY <2>1 DEF AcceptCommit, PayInv, Justified
  <2>2. CASE UNCHANGED dealVars
    BY <2>2 DEF dealVars, PayInv, Justified
  <2> QED
    BY <2>1, <2>2, HandlerPays
       DEF EscrowNext, escrowVars, dealVars, RequestStep, OfferCheck, OfferHold, OfferInsert,
           OfferRollback, OfferFailed, OfferRelease, OfferLost, Lapse, LeaseLapse, AcceptStep,
           AcceptRead, AcceptRollback, SweepStep, SweepExpired, SweepQueue, SweepCandidates,
           SweepSkip, SweepClaim, SweepCall, SweepReleased, SweepFailed, SweepCrash, Finish
<1>3. PayInv => PayoutJustified
  BY DEF PayInv, Justified, PayoutJustified
<1> QED BY <1>1, <1>2, <1>3, EscrowTyped, PTL DEF EscrowSpec
=============================================================================
