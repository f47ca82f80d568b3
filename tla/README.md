# LogiCommerce: TLA+ models of the transactional core

LogiCommerce is a logistics and e-commerce platform: a NestJS API
(`src/apps/api`), a worker process (`src/apps/worker`), a web application over
the API, and MySQL as the only authority on state. What is hard in it is neither
computation nor messaging. It is that many HTTP requests, provider webhooks,
timers and processes read and write the same rows, and that most of them do so
under MySQL's default isolation, REPEATABLE READ, or outside any transaction.

This directory models the parts that decide something: who gets stock, money, a
quote, a place on a container, a session. Every module says in its head which
handlers it translates.

| Part | Specification | Instances |
|---|---|---|
| stock of orders, reservations, sweeper, feeds, picking | `Stock` (implements `Reservations`) | `MCStock` |
| invoice payments and webhooks; refunds | `Payments`; `Refunds` (extends it) | `MCPayments`, `MCRefunds` |
| marketplace offers, holds, escrow | `Escrow` | `MCEscrow`, `MCProgress` |
| freight requests and quotes | `Freight` | `MCCommerce` |
| receiving; orders on the floor; returns | `Receiving`, `Fulfillment`, `Returns` | `MCCommerce` |
| journal and settlements; document numbers | `Ledger` | `MCCommerce` |
| B2B orders; third party stock and billing | `Procurement`, `ClientStock` | `MCCommerce` |
| carts and promotions; checkout saga | `Storefront`, `Checkout` | `MCCommerce` |
| catalog; listings; recommendations | `Catalog`, `Marketplace`, `Optimization` | `MCCommerce` |
| dispatch of a booking, sweeper of the worker | `Dispatch` | `MCTransport`, `MCProgress` |
| uploads; transport papers and customs; insurance | `Documents`, `Papers`, `Insurance` | `MCTransport` |
| consolidation; handling units and linehaul; post | `Consolidation`, `Handling`, `Postal` | `MCTransport`, `MCProgress` (the first) |
| sessions; second factors and the rate limit; rights | `Sessions`, `Enrolment`, `Access` | `MCTransport` |
| partner orders and webhooks | `Partner` | `MCTransport`, `MCProgress` |
| partner credentials, calls, notices | `PartnerKeys` | `MCTransport` |
| outbox publisher | `Outbox` | `MCProgress` |
| the absent value they share | `Rows` | |

Proofs are in `StockProofs`, `EscrowProofs`, `PaymentsProofs`, `CommerceProofs`,
`TransportProofs` and `ProgressProofs`. To repeat the checks:

    tlc -config stock_all.cfg MCStock.tla
    tlapm StockProofs.tla

`PROJECT.json` maps every definition to the lines it translates, lists the
hazards of the code with the properties that cover them (further ones are at the
end of this page), and names for every property a mutated definition that breaks
it.

## How the code is read

**Transactions.** Only four transactions of the API ask for `Serializable`:
`checkout`, `acceptPurchaseOrder`, the intent of a refund, and `creditNote`.
Each is one atomic step that commits or leaves no trace. Every other
`$transaction` runs at REPEATABLE READ. There a plain `SELECT` sees the snapshot
taken at the first read, and an `UPDATE` tests its `where` and evaluates
`increment` on the *current* row. Such an operation is two steps:

* a step that takes the snapshot (`FeedBegin`, `PickRead`, `PayRead`,
  `ApplyRead`, `ReceiveRead`, `FulfillBegin`) and stores what is used of it in a
  variable of the actor;
* a step that writes: a condition of an `updateMany` is evaluated on the current
  state, a JavaScript condition on the snapshot.

Row locks taken by the writes make the writes of two transactions on the same
rows follow each other, so the write phase is one step. A transaction that is
chosen as a deadlock victim or loses a unique key is a third step (`FeedAbort`,
`PickAbort`, `PayAbort`, `AcceptRollback`, `OfferRollback`, `DrawRefused`), or,
where it changes nothing that is modelled, the branch of the commit that ends
the request.

**Check first, write later.** Most handlers check in plain reads and then write
in a transaction of their own, by id and without repeating the check. In every
module this is a `...Read` or `...Check` step, whose guard is the check, followed
by a step of the operation's name. Where the write repeats a condition (a version,
a status, a unique index) the condition is an operator of its own: `ClaimTaken`,
`PlanClaimed`, `Bookable`, `QuoteFree`, `RevisionFree`, `KeyFree`.

**Statements outside a transaction** are steps of their own (`WriteLine` and
`BumpVersion` of a cart, `Revoke` and `RevokeTokens`, `EnrollUpsert` and
`EnrollClear`), and so is every call of a provider, object store or queue, which
is where requests wait longest.

**Crashes** lose the variables of the actor and keep the rows.

**Timers.** "Past its `expiresAt`" is a set that only grows (`Expire`, `Lapse`,
`QuoteLapses`, `CutoffPasses`), and an element joins it at any moment: the models
contain no clock and no assumption about how long anything takes, except where a
constant says so (`SlowRequests`).

**Tenants.** Every query is scoped to one tenant, so every module models one.

**Quantities.** In `Stock`, `Payments` and `Refunds` an amount is the cardinality
of a set of pairs `<<line, k>>`, `k` up to the quantity of the line. A sum over
lines is then the cardinality of a union, and disjoint unions are all the
arithmetic of sums the proofs need. `Handling` counts the parcels of a unit and the
grams of a linehaul in the same way. The other modules use numbers.

**Components side by side.** The components of `MCCommerce`, `MCTransport` and
`MCProgress` share no row. An instance module declares a variable `focus`, its
initial states choose one component, and only that one moves (`Still`): TLC
explores the sum of their state spaces and not the product. Their composition is
where rows are shared: `Stock` holds the stock side of checkout, purchase orders,
receiving, returns and picking; `Refunds` extends `Payments`; `Escrow` holds an
offer, its hold and its deal; `Consolidation`, `Dispatch` and `Insurance` hold
both the API's and the worker's writes.

**Properties with parts.** A property a run checks may be a conjunction of named
parts. Each part is stated with a comment of its own in the module of its
component; the conjunction says what the parts promise together. A part called
`...OnlyInARace` or `...UnlessOvertaken` is exact about an exception the code has:
it says that the limit, or the decision, holds except for a request that had read
before another one wrote.

## Components, state and hazards

Paths are under `src/apps/api/src` unless they say otherwise.

**Stock of orders** (`commerce/commerce.repository.ts`,
`src/apps/worker/src/worker.services.ts`, parts of `fulfillment/` and
`returns-finance/`). State: `InventoryBalance` per item and bucket (ON_HAND,
RESERVED, ALLOCATED, PICKED), the append-only `StockLedgerEntry`, one
`InventoryReservation` per order line, statuses of orders, purchase orders and
fulfillment orders. `checkout` reserves all lines or none; `acceptPurchaseOrder`
turns the reservations of one supplier into allocations and confirms the order
with its last purchase order; `releaseBatch` of the worker returns expired
reservations to ON_HAND; `inventoryFeed` overwrites ON_HAND; `receiveAsn` and the
restock of `inspectReturn` increase it; `pick` moves ON_HAND to PICKED. Hard:
acceptance races expiry, sweepers overlap and crash, an absolute write is computed
from an old read, a check is made in a snapshot.

**Carts and checkout** (`commerce/`). State: cart, lines and version, promotions,
payment authorization, order. The authorization comes before the transaction and
is voided if the transaction fails. Hard: two requests with one idempotency key,
a crash between authorization and order, an edit of two statements, a promotion
that ends between quote and order.

**Receiving and fulfillment** (`fulfillment/fulfillment.repository.ts`,
`network-operations/`). State: shipping notices with lines received, inspected and
put away; fulfillment orders from picking to delivery; packages, labels, tracking
events; exceptions and re-routing. Hard: completion is decided by counting other
lines in a snapshot, statuses are written by id, tracking arrives in any order.

**Returns, journal, settlements** (`returns-finance/`). State: return
authorizations by version, journal entries, settlements. Hard: one write by id
among writes by version, a reversal nothing ties to its original, two settlements
over the same entries.

**Billing** (`billing/`). State: invoice, payment schedules with balances and a
checkout lock, payment sessions, provider events, allocations, refunds, credit
notes, number sequences. Hosted checkouts at the provider, webhooks at least once
and in any order; a paid first schedule confirms the freight booking. Hard: a lock
with a timeout around a provider call, statuses computed from a snapshot, webhook
against API answer, a crash with a claimed event.

**C2C marketplace** (`c2c/`). State: sellers, listings, offers and their payment
holds, release jobs with leases, the protected transaction, disputes, reviews.
Hard: the hold is placed before the offer is stored and given back by
compensation; acceptance races expiry, counteroffers and new offers; the release
scheduler runs in every process; moderation writes by id.

**Freight** (`freight/`, the transport sweeper of the worker). State: requests,
quote revisions, bookings with a credit exposure, legs, assignments, check-ins,
exceptions, documents in quarantine. Hard: nearly every check is a read before the
transaction.

**International logistics** (`international-logistics/`). State: transport papers,
customs filings, insurance quotes, policies and claims, consolidation plans with
members and loads, handling units, linehauls, postal items, receptacles and
dispatches. Hard: capacity summed outside the transaction that uses it, handovers
that write other rows, expiry by the worker.

**Procurement and network operations** (`b2b/`, `network-operations/`). RFQs,
quotes, orders fulfilled in parts and invoiced when complete; client stock,
billable events and their invoices. Hard: quantities checked in a snapshot and
incremented on the current row, reads before transactions.

**Outbox, partners** (`src/apps/worker/src/worker.services.ts`, `partner/`). State:
events and deliveries with status, attempts and lease; partner orders,
credentials, receipts. Hard: leases outlived, crash between effect and mark,
rotation in two statements.

**Accounts** (`auth/`, `identity/`). State: sessions, refresh tokens, codes, reset
tokens, second factors, roles and rights, machine credentials, counters of
attempts. Hard: genuine and stolen token race, revocation in two statements,
rights read long before the session that carries them.

**Catalog, optimization** (`catalog/`, `optimization/`). Submissions, review and
publication; runs, decisions and rollbacks. Hard: reads in the snapshot, writes
by id.

Tenancy, analytics, operability, HTTP bootstrap, shared packages, web pages and
infrastructure hold no protocol state; see "Not modelled".

## Stock

`Checkout(o)`, `AcceptPurchaseOrder(s)`, `SweepRead/SweepRelease/SweepCrash`,
`FeedBegin/FeedCommit/FeedAbort`, `ReceiveAsn`, `RestockReturn`,
`CreateFulfillment`, `PickCheck/PickRead/PickCommit/PickAbort` (`PickOver` is the
common end of a pick request) are the operations, one action per committed
transaction or read. `balance` and `ledger` are functions of bucket and item;
`Book(from, to, L)` is the pair of conditional updates and ledger entries every
move consists of. A reservation is identified with its line, because checkout
creates exactly one per line; every item has one facility. The sweeper's batch is
at most `BatchSize` (100 in the code) of the unresolved expired reservations, and
each one is claimed and released in its own transaction. `AllocatedBacked` is
also a statement about the code's gap between acceptance and picking: pick takes
ON_HAND and never ALLOCATED.

`Reservations` is the promise behind it, without balances, suppliers, sweepers or
transactions: lines are held all or none, a held line is allocated or given back
for good, an order is confirmed in the step that allocates its last line.
`Stock` maps its rows to it with `Fate` and `Confirmed` and every step is a step
of it or a stutter (`ImplementsReservations`).

The instances have three lines of two orders, the first with two vendors, and
stock for one order only, so that a checkout fails, a competitor wins after an
expiry, and one of two purchase orders is accepted while the other lapses.

* `stock_all` (794,500 states up to symmetry): everything but crashes and receipts,
  with a feed and two pickers. `SoldIsBacked` joins `TypeOK`, `ReservedBacked`,
  `AllocatedBacked`, `ResolvedOnce` (the race of acceptance and expiry) and
  `ConfirmedFullyAllocated`. `UnitsKept` joins `HeldReconciled` and
  `UnitsConserved`, the accounts that survive feeds and picks.
  `MisstatedOnlyInARace` says how the others fail: `PartsOnlyByAFeed`, an ON_HAND row
  parts from its ledger (picks, which the code does not record there, counted back in)
  only when a feed overwrites what was written after its read, and then by just that;
  `FallsBelowOnlyByAPick`, it falls below zero only by a pick whose row changed after
  its read.
* `stock_commerce` (18,899 states): without feeds and picks, with two sweepers
  that take one reservation at a time, a crash, and a receipt. `LedgerHolds`
  (`Reconciled` and `NonNegativeOnHand`), `ImplementsReservations`, and
  `ExpiredReservationsResolved` under fairness.

With a feed or a picker TLC refutes the two parts of `LedgerHolds`, against what
the repository says of them. A feed that commits after a checkout erases the
checkout from ON_HAND but not from the ledger (`commerce.repository.ts:130`);
`docs/architecture/adr/0006-ledgers.md:5`: "Inventory and finance use immutable ledger entries
with transactionally derived balances." Two picks, or a pick and a checkout, drive
ON_HAND below zero (`fulfillment.repository.ts:418`);
`packages/logistics-engine/src/index.ts:28`: "stock cannot become negative".

## Payments and Refunds

`createPaymentSession` is a sequence of autocommitted statements:
`CheckoutStart` (replay and first checks), `CheckoutLock`, `CheckoutPrice` (read
again under the lock), `CheckoutOpen` or `CheckoutRefused` (the provider call),
`CheckoutInsert`, `CheckoutRetain` (lock kept until the session expires) and
`CheckoutRelease`; `RequestCrash` stops it anywhere. `Capture`, `CheckoutFails`
and `SessionLapse` are the provider's side. A webhook is `EventClaim`, then
`PayFailed` or the transaction `PayRead` with `PayReplay`, `PayReject` or
`PayCommit`; `PayAbort` and `ReceiverCrash` are its failures. `CreditNote` is
atomic. `Pay` computes statuses from the snapshot and increments the current row,
as the code does. `SlowRequests` says whether a request may outlive its
120 second lock.

`Refunds` extends it with the refund rows and their two ends: `RefundIntent`,
`RefundResume`, `RefundCall`, `RefundError`, `RefundRecord` for the API request,
`HookClaim`, `HookUnknown`, `HookPending`, `HookFailed`, `HookSucceeded` for the
webhook, and `ApplyRead`, `ApplySkip`, `ApplyFail`, `ApplyCommit` for
`applyRefund`, which both run. `StripeRefunds` are those whose events carry the
refund id; Coinbase's carry a reference the API may not have stored yet.

* `payments_concurrent` (134,616 states): schedules of 2 and 1, two sessions of
  the first, two success events of one session and a failure event, two receivers,
  a credit note, a crash. `MoneyAccounted` (`TypeOK`, `PaidMatchesAllocations`,
  `CapturedRetained`), `CheckoutExclusive` (`AtMostOneLiveCheckout`,
  `LockedCheckoutIsCurrent`), `ConfirmedBookingIsPaid`. Requests are faster than
  their lock here, so the lock also keeps every other payment and credit note away
  from a schedule until a session of it lapses: `OverpaidOnlyAfterALapse`.
* `payments_slow` (79,476 states): requests that outlive their lock, two receivers, a
  credit note. `OverpaidOnlyInARace` joins `PaidMeansSettled`, which holds however
  requests, webhooks and credit notes overlap, `ExceededOnlyInARace` and
  `UnmarkedOnlyInARace`: a schedule is overpaid, or a settled invoice is not marked
  PAID, only by a delivery whose rows changed between its read and its commit.
  `CapturedSettles` under fairness.
* `refunds_all` (963,562 states up to symmetry): three refunds of 1 of a payment of 2,
  so that two are applied and the third is refused unless one fails; two callers, a
  hook, events of both providers (duplicate, early, contradictory), a crash.
  `RefundsAccounted` (`RefundTypeOK`, `NoOverRefund`, `AppliedOnlyIfRefunded`), and
  `DeductionLostOnlyInARace`: a balance parts from its journals only when a refund is
  applied over what was written after its read, and then by just that amount.
* `refunds_unapplied`: see Findings.

## Escrow

`OfferCheck`, `OfferHold` (the provider call), `OfferInsert` or `OfferRollback`,
then `OfferFailed` and `OfferRelease` for compensation, `OfferLost` for a crash:
the buyer's request. `AcceptRead`, `AcceptCommit`, `AcceptRollback`: the seller's.
`SweepExpired`, `SweepQueue`, `SweepCandidates`, `SweepClaim`, `SweepSkip`,
`SweepCall`, `SweepReleased`, `SweepFailed`, `SweepCrash` and `LeaseLapse`: the
release scheduler. `ShipCheck/Ship`, `DeliverCheck/Deliver`,
`PayoutCheck/ReleasePayout`, `DisputeOpen/Dispute`,
`ResolveCheck/ResolveForSeller/ResolveForBuyer`: the protected transaction, each
a read and a later write by id.

* `escrow_offers` (1,172,094 states up to symmetry): an offer requested twice under
  one key, a counteroffer whose transaction may abort, a competing offer, two
  acceptances, an expiry, the sweep, a crash. `OneWinner`, and `HoldsAccounted`
  (`TypeOK`, `RetiredHoldsQueued`, `ReleasedMeansReleased`, `LiveOfferBacked`,
  `NoStrayHold`).
* `escrow_deal` (251,301 states): one offer to its end, two handlers, a dispute,
  two sweepers, releases that fail, a crash. `PayoutJustified`.
* `HoldsGivenBack` (`QueuedHoldsReleased`, `ExpiredOffersRetired`) is checked under
  fairness in the run `progress`.
* `escrow_orphan`: see Findings.

## The components of `MCCommerce`

Each paragraph names the state, the actions, and the property with its exception.

* **`Freight`** (`freight.repository.ts`: requests, quotes, acceptance). A caller is
  a record of what it goes on to do and what it saw. `UpdateCheck/UpdateRequest`,
  submission, cancellation, estimates and the quotes' life are `...Check` steps with a
  commit; only the edit compares a version and only unique indexes (`Bookable`,
  `RevisionFree`) refuse a commit. `SubmittedIsFrozen`, `AcceptedIsBooked`,
  `RevisionsCount`, `CreditExceededOnlyInARace` (two acceptances of one account
  compare the same exposure with the limit).
* **`Receiving`** (`receiveAsn`, `putaway`). Receipts claim the version of the
  notice, a putaway changes it only when it completes the notice, and both count
  the lines left in a snapshot. `ReceivedOnce`, `CompletedIsPutAway`. The converse,
  that a notice with nothing left is completed, fails: two putaways each count the
  other's line.
* **`Fulfillment`** (`pack`, `label`, `transition`, `tracking`, and the exceptions
  and routes of network operations). `FloorStep` is a check or the write of the
  checked request. `ShippedIsLabeled`, `ExecutedIsResolved`.
* **`Returns`** (`createReturn`, `approveReturn`, `receiveReturn`,
  `inspectReturn`). Receipt and inspection claim status and version
  (`ReturnClaimed`), approval writes by id. `ReturnedWithinOrder`,
  `RestockedAtMostOnce`, `RefundedAtMostOnce`, `LedgerAgreesUnlessReopened`.
* **`Ledger`** (journals, reversals, settlements; in a section of its own, with its own
  `focus`, document numbers). `LineFree` is the unique settlement line of an entry.
  `SettledOnce`. A number is `LookUp`, `Draw` or `DrawFirst` or `DrawRefused`, then
  `CommitNumber` or `RollbackNumber`. `NumberedWithoutGaps`.
* **`Procurement`** (RFQ quotes, orders, approval, fulfilment). `FulfillBegin`
  takes the snapshot and the parcel, `Fulfill` increments current rows.
  `OneOrderPerQuote`, `InvoiceCoversDelivery`, `OverdeliveryExplained`.
* **`ClientStock`** (`assignInventory`, billable events, `issueInvoice`).
  `OverpromiseOnlyInARace`, `NoRebilling`.
* **`Checkout`** (`checkout` of service and repository, cart lines). `Quote`,
  `Authorize`, `PlaceOrder` or `PlaceOrderFails`, `Void`; `Forsake` is a crash or
  an unanswered void; an edit is `EditRead`, `WriteLine` or `DeleteLine`,
  `BumpVersion`. `OrderedAsQuoted`, `HeldForAnOrder`.
* **`Catalog`**: `CreateSubmission`, `SubmitProduct`, `Reject` are one update each;
  `ApproveRead/Approve` and `PublishOfferRead/PublishOffer` read in the snapshot
  and write by id. `RejectedUnlessOvertaken`, `AnnouncedOncePerReader`.
* **`Optimization`**: `RunRead/Run` ranks lanes as `recommend` does, a decision is
  `AdviceRead` and `Decide`, `Execute` or `Rollback`. `KeepsTheBest`,
  `TrailConnected`, `UnsignedOnlyInARace`.
* **`Marketplace`**: seller verification, drafting, submission under the policy,
  moderation, reviews. `ProhibitedNeverOffered`, `SoldUnlessOvertaken`.
* **`Storefront`**: carts and promotions before a checkout. `ManyCartsOnlyInARace`,
  `DiscountIsSound` (rounding to half a minor unit), `UsedLateOnlyIfQuoted`.

The run `commerce_flows` (618,623 states up to symmetry) checks:

| Property | Parts |
|---|---|
| `AcceptanceBinds` | `AcceptedIsBooked`, `OneOrderPerQuote`, `InvoiceCoversDelivery` |
| `NumbersRunOn` | `RevisionsCount`, `NumberedWithoutGaps` |
| `NoticePutAway` | `ReceivedOnce`, `CompletedIsPutAway` |
| `GoodsLeaveInOrder` | `ShippedIsLabeled`, `ExecutedIsResolved` |
| `BooksAgree` | `ReturnsAgree` (the four of `Returns`), `SettledOnce` |
| `HeldForAnOrder` | |
| `AdviceSound` | the three of `Optimization` |
| `OffersSound` | `ProhibitedNeverOffered`, `AnnouncedOncePerReader`, `ManyCartsOnlyInARace`, `DiscountIsSound` |
| `LimitsExceededOnlyInARace` | `CreditExceededOnlyInARace`, `OverpromiseOnlyInARace`, `OverdeliveryExplained`, `NoRebilling` |
| `DecidedUnlessOvertaken` | `SubmittedIsFrozen`, `OrderedAsQuoted`, `RejectedUnlessOvertaken`, `SoldUnlessOvertaken`, `UsedLateOnlyIfQuoted` |

## The components of `MCTransport`

* **`Documents`** (`completeDocument` of freight). `RegisterDocument`, `ClientPut`,
  `PutUrlExpires` are the client's; `CompleteStart`, `HeadStaging`,
  `FinalizeUpload`, `HeadFinal`, `MarkScanning`, `Scan`, `MarkClean` or
  `MarkRejected`, `DropRejected`, `DropObject`, `RejectUploaded` the completion, each
  a call of the object store or a row update; `CompletionFails` stops it between any
  two. Two executions overlap. `UnverifiedOnlyInARace`: a row becomes CLEAN only at its
  final key after a scan that passed, and the verified object is replaced or lost only
  by a step of an execution that another one has overtaken (`Overtaken`).
* **`Dispatch`** (legs, assignments, check-ins, delivery; the worker's sweeper).
  `DeskStep` is a check or a write of a member of staff, `SweepStart`, `SweepLook`
  and `SweepOpen` are the sweeper's snapshot and write. `NobodyStranded`,
  `CompletedIsProven`; `OverdueNoticed` under fairness.
* **`Papers`** (revisions of a transport document; customs filings of the same
  consignment, which share nothing with them). `RevisionsCounted`. `FilingClaimed`
  is the version of the write. `CustomsDecisionFinal`.
* **`Insurance`** (quotes, policies, premiums, claims; the worker's expiry). Quotes
  are taken by status, claims by version (`ClaimTaken`). `ExpiredNeverBinds`,
  `ExpiredPolicyStays`, `PaidWithinApproved`, `ClaimHistoryConnected`.
* **`Consolidation`** (a plan, its members, containers and status; the worker's
  cut-off). Only the plan's own transitions compare its version (`PlanClaimed`).
  `TotalWeight` is the sum the plan check and the property compare.
  `OverbookedOnlyInARace`, `UnweighedLoadedOnlyInARace`,
  `DepartedReopenedOnlyByAMember`; `ReportedAgainOnlyInARace` and
  `MissedCutoffReported` in `progress`.
* **`Handling`** (contents and events of handling units; in a section of its own, with
  its own `focus`, allocation of plans and receptacles to linehauls and postal
  consignments). `OverpackedOnlyInARace`, `HandledOnce`. `WeightLeft` sums what the
  request saw. `OverloadedOnlyInARace`.
* **`Postal`** (items, receptacles, dispatches, reports). `ReceptacleMoves` and
  `DispatchMoves` are the transition tables.
  `ReceptacleFollowsItsTransitions`, `HandedOverIsDespatched`, `NoEmptyDispatch`,
  `ReportedOnce`.
* **`Sessions`** (login, refresh, revocation, reset). `RotateRead`, `RotateClaimed`,
  `RotateReused` or `RotateLost`; `Revoke` and `RevokeTokens` are two statements.
  `OneUsableToken`, `RevokedHasNoToken`, `CodeOpensOneSession`, `ResetOnce`,
  `ReuseEndsSession`.
* **`Enrolment`** (registration, verification, TOTP; the counters of attempts in
  Redis). `SwitchedOffOnlyInARace`, `ConfirmedIsProven`, `UnconfirmedHasNoCodes`,
  `AdmittedWithinLimit`.
* **`Access`** (roles, rights in tokens, machine credentials).
  `ExcessOnlyByAnOldLogin`, `RevokedKeyIsRefused`.
* **`Partner`** (orders of a shop and its webhooks). `AcceptedAnnouncedOnce`,
  `OutcomeFinal`, `GivenUpLate`, `SharedOnlyAfterLapse`; `EventuallySettled` in
  `progress`.
* **`PartnerKeys`** (rotation in three statements, the calls and notices a key
  admits). `OneSuccessorUnlessTroubled`, `CallsWithinRate`, `NoticedOnce`. Its three
  parts move separately (`keys`, `calls`, `notices`).

The run `transport_flows` (396,670 states up to symmetry) checks:

| Property | Parts |
|---|---|
| `UnverifiedOnlyInARace` | |
| `TransportProven` | `NobodyStranded`, `CompletedIsProven` |
| `SessionsSound` | `OneUsableToken`, `RevokedHasNoToken`, `CodeOpensOneSession`, `ResetOnce` |
| `RepeatedOnce` | `HandledOnce`, `ReportedOnce`, `AcceptedAnnouncedOnce`, `NoticedOnce`, `SharedOnlyAfterLapse` |
| `RecordsAgree` | `PaidWithinApproved`, `ClaimHistoryConnected`, `NoEmptyDispatch`, `RevisionsCounted`, `GivenUpLate` |
| `AccessSound` | `OneSuccessorUnlessTroubled`, `AdmittedWithinLimit`, `CallsWithinRate`, `UnconfirmedHasNoCodes` |
| `CapacityExceededOnlyInARace` | `OverbookedOnlyInARace`, `OverloadedOnlyInARace`, `OverpackedOnlyInARace`, `UnweighedLoadedOnlyInARace` |
| `DecisionsStand` | `CustomsDecisionFinal`, `ExpiredNeverBinds`, `ExpiredPolicyStays`, `OutcomeFinal`, `DepartedReopenedOnlyByAMember`, `HandedOverIsDespatched`, `ReceptacleFollowsItsTransitions` |
| `RightsEnd` | `ExcessOnlyByAnOldLogin`, `RevokedKeyIsRefused`, `ReuseEndsSession`, `SwitchedOffOnlyInARace`, `ConfirmedIsProven` |

## The components of `MCProgress`

`Outbox`: `Append` is a business transaction that commits an event; `Poll`, `Claim`,
`Add` or `AddFails`, `MarkPublished` or `RecordFailure` are `publishBatch`;
`BecomesDue`, `JobForgotten` and `PublisherCrash` its surroundings. The model counts
the moves of `availableAt` instead of comparing times. `Partner` in this run has one
sender that may crash and two deliveries: `ReadBatch`, `ClaimDelivery`,
`PostAccepted` or `PostFails`, `MarkDelivered` or `MarkFailed`, `BatchDone`.
`Escrow` has one offer and two schedulers. `Dispatch` has one sweeper of the worker,
`Consolidation` two, because two workers are deployed
(`infrastructure/aws/production/variables.tf:79-82`): a missed cut-off may be reported
twice, and `ReportedAgainOnlyInARace` says that no worker sets out to do so once the
notice is there.

The run `progress` (32,558 states, no symmetry) checks:

| Property | Parts |
|---|---|
| `NeitherLostNorRepeated` | `PublishedIsQueued`, `PublishedForGood`, `ReportedAgainOnlyInARace` |
| `MessagesArrive` | `EventuallyPublished`, `EventuallySettled` |
| `HoldsGivenBack` | `QueuedHoldsReleased`, `ExpiredOffersRetired` |
| `LateIsNoticed` | `OverdueNoticed`, `MissedCutoffReported` |

## Bounds

The constants of the modules are given values in the `.cfg` files. Two of everything
that competes (orders, sessions, requests, receivers, sweepers, callers) is what a
race needs; the hazards of this code are races of two transactions on one row, or of
two transactions and a timer. A quantity of two next to one makes "enough for one but
not the other" and "partly paid" happen. One crash suffices because a crashed actor
leaves nothing in memory: the rows it leaves are a state another actor continues
from, and a second crash starts from the same kind of state.

The bounds by name:

* sizes of data: `MaxQty`, `MaxAmount`, `MaxWeight`, `LinehaulWeight`,
  `CargoPackages`, `Ordered`, `OnHandAtFirst`, `Quantities`, `CartQuantities`,
  `Amounts`, `Subtotals`, `CreditLimit`, `MinimumCapacity`, `Alternatives`: just above
  and below what one and two requests need;
* limits of the code, made small: `BatchSize` (100), `MaxAttempts` (5), `Maximum` of
  `Enrolment`, `PerMinute`;
* events that would go on for ever: `MaxCrashes`, `MaxTrouble` (failures and crashes of
  publishers, forgotten jobs), `MaxMishaps` (lapsed claims of deliveries, crashes),
  `MaxEdits`, `MaxMoves` and `MaxPostalMoves` (versions of plan and of postal rows),
  `MaxPutaways`, `MaxChanges`, `MaxNumber`, `MaxPassword`, `MaxMore` (attempts above the
  limit of a window);
* choices of the instance: `Perishing` and `Perishable` (the quotes and offers that
  may lapse), `Unlucky` (requests the database may abort), `MCDuty` (who of the staff
  does what), `MCParcels` (four requests of `fulfill`, one naming a line twice);
  a call of `PartnerKeys`
  that was looked up is `Followed` by its counter.

Symmetry: the callers of `MCCommerce` and `MCTransport`; the pickers of `stock_all`; the
callers and hooks of `refunds_all`; in `escrow_offers` the two
requests of one key and the two acceptances. No constant, action or property tells
the members of these sets apart, and the runs that use symmetry check no liveness.

`CHECK_DEADLOCK FALSE` in all runs but those of `Stock`: once every request is
answered and every event handled, these systems rest, because the sets of requests
are finite. The sweeper of `Stock` can always poll.

## Fairness

* `Stock`: weak fairness of `SweepRead(w)` and of releasing some reservation of the
  batch: the worker polls on an interval and walks its batch. Nothing is assumed
  of buyers, suppliers, feeds or pickers. Crashes are bounded, so a sweeper that
  keeps coming back is what the interval gives.
* `Payments`: weak fairness of a receiver's step, a process that is running goes on
  running; and per event strong fairness of claim, read and finish: the provider
  redelivers an event until it is answered with success, and a transaction that
  may abort on a deadlock does not do so for ever. `CapturedSettles` also says
  what the code leaves for manual reconciliation, a capture above the balance.
* `Escrow`: weak fairness of the sweep's own steps and of leases lapsing, strong
  fairness of the provider call and its success: the provider does not refuse a
  release for ever. The scheduler is a timer in the API process.
* `Outbox`: an event that nobody has in hand becomes due (time passes), and a
  publisher takes its next step (its timer and its process).
* `Partner`: a delivery nobody holds comes due, and a sender takes its next step. No
  success of the endpoint is assumed: a delivery may be given up.
* `Dispatch`, `Consolidation`: the sweeper takes its next step (its timer).

In `progress` the fairness of one component must not constrain the behaviours of
another: a component that stands still has nothing enabled that fairness asks for,
except the scheduler of `Escrow`, whose fairness is therefore conditional on `focus`.

## What is proved

Every invariant and every action property of a passing run but
`OverpaidOnlyAfterALapse` is a theorem, for all values of the constants; so is the refinement of `Reservations`. What a theorem
needs beyond the `...Assumption`s of the modules is written in its statement. Each
proof follows one pattern: the invariant of a run is strengthened to an inductive
one, named `...Inv`, that also says what the local variables of a request still
know of the rows, and the step lemma has one case for each action. An action
property follows from the same invariant.

| Module | About | Hypotheses in the statements |
|---|---|---|
| `StockProofs` | `Stock`, `Reservations` | no pickers (`StockNonNegative`); neither pickers nor feeds (`StockReconciled`, `StockLedgerHolds`) |
| `EscrowProofs` | `Escrow` | `UnluckyAlone` (`LiveOffersBacked`, `AllHoldsAccounted`) |
| `PaymentsProofs` | `Payments`, `Refunds` | `~SlowRequests` (`OneCheckoutLive`, `CheckoutsExclusive`), `RequestsDistinct` (the second) |
| `CommerceProofs` | the components of `MCCommerce` | none |
| `TransportProofs` | the components of `MCTransport` | none |
| `ProgressProofs` | `Outbox`, the cut-off of `Consolidation` | none |

The hypotheses are what the code needs, and the instances of the runs that check these
properties satisfy them.

* `UnluckyAlone`: the database aborts no transaction of a request that is repeated
  under its key. Otherwise the one that failed may look before, and release the
  shared hold after, the other one stored the offer (`c2c.repository.ts:251-275`).
* `~SlowRequests`: no request outlives its 120 second lock. One that does inserts a
  second live checkout.
* `RequestsDistinct`: no two requests have one idempotency key. The value of the lock
  *is* the key (`billing.service.ts:138-242`), so the lock of a duplicate is taken
  for that of the first request; when a late payment of an older session clears the
  lock in between, the session that is open is no longer the one the lock retains.
  TLC refutes `LockedCheckoutIsCurrent` with three requests, two of which share a key.
  `AtMostOneLiveCheckout` needs no such hypothesis.

Where overlapping requests do harm, the theorem makes no hypothesis against them: it
says exactly which overlap is needed, for any number of actors
(`StockMisstatedOnlyInARace`, `PaymentsOverpaidOnlyInARace`, `RefundsLostOnlyInARace`,
`CleanIsLostOnlyInARace`, `EventsNeitherLostNorRepeated`).

### Stock

`StockProofs` rests on `StockAssumption` only (finite sets of lines and receipts,
positive quantities, functions of the right shape). A move takes from a bucket only
what `Covers` allows, and the units of a set of lines are a finite set, so `Qty` of a
disjoint union is a sum (lemmas at the start of the module, from the library's facts
on cardinality). `StockInv` adds to the five parts of `SoldIsBacked` what makes them inductive: a
purchase order exists exactly when its order does (`SplitsPlaced`), only
reservations of placed orders are resolved (`ResolvedPlaced`), every line of an
accepted purchase order is allocated (`AcceptedAllocated`), and a confirmed order
has accepted purchase orders only (`ConfirmedAccepted`). `ReservedBacked` alone is
not inductive: acceptance subtracts the lines of a split, and without `ResolvedOnce`
and `ResolvedPlaced` these might have been given back before. Conservation,
reconciliation and non-negativity each have an invariant of their own next to it.
`StockMisstatedOnlyInARace` follows action by action: every move changes balance and
ledger by the same amount and takes no more than `Covers` allows, but for the
absolute write of a feed and the decrement of a pick, whose effect is computed from what
they saw.

`StockImplementsReservations` proves the refinement with `RefinementInv`: `StockInv`
and `AllocatedAccepted`, that every allocated line belongs to an accepted purchase
order. An acceptance that leaves no other purchase order pending has then allocated
every line of the order and must be the confirming step; any other acceptance must
leave the order unconfirmed. `Checkout` maps to `Place`, `AcceptPurchaseOrder` to
`Allocate`, `SweepRelease` to `GiveBack`, or to a stutter if it lost the race, and
everything else to a stutter.

### Escrow

`JobsInv` says that what a snapshot, a sweep or a job names is an offer that was stored
or has lapsed, which `RetiredHoldsQueued` needs. `WinnerInv`: without a transaction
there is no winner and nothing is REJECTED, so a second acceptance cannot commit.
`HoldsInv`: which request still answers for a hold that no offer owns, and that a
job whose call was made has its hold RELEASED. `LiveInv`: a request gives back only a
hold of an offer that will never be stored (`Over`), or it is alone with its key.
`PayInv`: what each handler has seen by the time it writes. `PayoutJustified` is hard
because delivery, payout, dispute and resolution write by id after a read.

### Payments and Refunds

`MoneyInv` accounts for every captured session (allocated, retained as an exception,
or with the receiver that has its event in hand), and what a schedule has paid is the
cardinality of the union of its allocations. `BookingInv`: no request and no checkout
asks for less than its schedule owes, so one capture settles it. `LockInv`: a request
within its time that has still something to pay has the lock, and two such requests
with a price are of one key, whatever the others do. `CurrentInv`: what the holder of
the lock asks for is what the schedule owes now. For `OverpaidOnlyInARace`: balances
only grow between a read and its commit, so that a delivery that was not overtaken has
seen what there is and its check of the excess and its statuses are right, and one that
was writes statuses that are at most too low.

In `Refunds`, `StoredInv` says that an event in hand is about a stored session,
`RefundedInv` that the refunds alive fit the capture, that a row says no more than the
provider knows and that what an actor was told is true, whichever of API answer and
webhook comes first. `RefundsLostOnlyInARace` needs the types only: every other step
moves balances and journals together (`OffsKept`), and an applied refund moves their
difference by what its snapshot missed.

### The components of `MCCommerce`

`NoticeInv`: a receipt whose version is current has seen every line as it is but for
putaways. `SettlementInv`: a settlement in work has a row, and one without a row no
lines. `GoodsInv`: what a request ships or tracks exists. `QuotesInv`: what a caller
does about a quote, the quote has come so far, and the revision a supplier is about to
store follows those stored. `WorkInv`: an edit is of a draft unless another step came
between, and an acceptance fitted the credit it read. `PurchaseInv`: what a delivery has
seen has been delivered. `HeldInv`: held money has an order or a request that answers
for it. `CartInv`: a version fixes the lines of a cart but for a removal whose version
is still to be written. `ReturnsInv`. `NumbersInv`: one transaction holds the row of a
kind, and what it drew continues the stored documents. `AnnouncedInv`, `ProhibitedInv`,
`ManagerInv`, `DiscountInv`, `CartsInv`. `AdviceInv`: a run is ranked by score and
order, an approver's read is on the trail. The sums of `Returns` and `ClientStock` are
cardinalities with a name (`UnitsOn`, `UnitsOfOthers`).

### The components of `MCTransport`

Documents: `CompletionInv`. Dispatch: `DispatchInv`. Accounts: `CountersInv`,
`EnrolmentInv`; `AccessInv` (a token follows a login, a refresh carries
rights that were current when it read); `SessionsInv`, of which `TokensInv` says which
of the overlapping rotations of one family may still claim, and `CodesInv` and
`ResetsInv` that a claim is the only one. Partners: `WindowsInv`, `NoticesInv`,
`RotationsInv` (a rotation that read the key before another one wrote is troubled),
`OrdersInv`, `BatchesInv`, and `WebhooksInv`: what a sender read of a delivery exists
and its attempts only grew since; what one posts is not due, and no older batch of
another sender can claim it. Transport: `ReportsInv`, `HandledInv`, `FilledInv`
(a closed receptacle and a dispatch that left are filled, and stay so), `MovesInv`
(what a request read of a postal row is current or the row moved on), `PapersInv`
(the issued revisions are `1..n`), `CustomsInv`, `CoverInv`, `ClaimsInv`, `PlanInv`.
The limits: `SumsInv`, `AllocationsInv` and `ContentsInv` say that what a request
read left room for what it writes; a step that exceeds the limit has therefore been
overtaken since its read, which is the exception the properties name.

### The components of `MCProgress`

`OutboxInv`: an event whose publisher has added it, and one that is PUBLISHED, has had a
job. Every write of a row tests its status, and none takes a PUBLISHED one
(`PublishedForGood`). `CutoffReportedAgain`: a sweeper
whose look comes after the notice goes away without a write.

### Compositions

The properties of `commerce_flows`, `transport_flows` and `progress` are proved of
the specification the run checks. A step of it is a step of the component in focus
that leaves the others as they are, so it is a step or a stutter of *each* component
(`StepsOfComponents`, `SafetyOfComponents`), and `Spec` implies the specification of
each (`SpecOfComponents`). The property then follows from the theorems of its parts.

### Only model-checked

* The liveness properties: `ExpiredReservationsResolved`, `CapturedSettles`,
  `MessagesArrive`, `HoldsGivenBack`, `LateIsNoticed`. Fairness, and the ENABLED it
  is made of, is out of the prover's reach.
* `OverpaidOnlyAfterALapse`.
* The two runs that expect a violation.

No module of a specification declares a recursive operator. What is folded over a set
(`TotalWeight` of `Consolidation`, `Total` of `Ledger`) is used in the proofs as a
name, and nothing is claimed of its value.

Next: an abstract specification of a hold (placed, owned, given back) that `Escrow`
implements, of a payment that `Payments` implements, and of an announcement (at least
once, in a row for each consumer) that `Outbox` and `Partner` share.

## Findings

Two runs expect a violation:

* `refunds_unapplied`: a late PENDING answer replaces the COMPLETED of the webhook,
  and the refund is never booked (`billing.service.ts:403`).
* `escrow_orphan`: an offer stored while another is being accepted is rejected
  without a release job (`c2c.repository.ts:322`), against
  `docs/operations/provider-contracts.md:32-36`: "Countered, rejected, and expired
  offers create durable release jobs in the same database transaction as their
  terminal transition; ... reconciliation exposes no orphaned terminal holds."

Those of "Stock" (a feed, a pick) follow from the instances named there. Five formulas state what a doc or the code says of
itself, and TLC refutes them; no run checks them, but the modules keep them:

* `NoOverpayment` of `Payments`, in the instance of `payments_slow` and also with
  requests faster than their lock (13 states): a session lapses, its lock ends and its
  payment is captured late; a credit note commits between the read and the writes of the
  delivery, whose check of the excess (`billing.service.ts:850`) has compared with the
  snapshot. Two receivers with two sessions of one schedule do it as well.
  `docs/operations/phase12-freight-payments-runbook.md:77-79`: "A successful provider
  payment that exceeds the remaining schedule balance is retained as a failed payment
  event for manual reconciliation; it must not be force-posted or silently applied to
  another receivable."
* `BalanceMatchesLedger` of `Refunds`, in the instance of `refunds_all` (20 states): two
  partial refunds of one payment are applied from one snapshot
  (`billing.service.ts:1013`); both journals are posted, the balance loses one of them
  only. `docs/architecture/adr/0006-ledgers.md:5-6`: "Inventory and finance use immutable
  ledger entries with transactionally derived balances."
* `ReversedNotSettled` of `Ledger`: "Exclude settled/reversed journals"
  (`docs/testing/repository-audit-2026-08-16.md:31`); `calculateSettlement`
  (`returns-finance.repository.ts:408`) does not look for reversals.
* `LodgedCanBeDecided` of `Papers`: the version of a filing is its lock and its
  number, so a transition can be refused for ever by another filing's number.
* `TotalMatchesLines` of `Checkout`: "Cart changed during checkout; request a new
  quote" (`commerce.repository.ts:606`); a line that is deleted before the version is
  incremented gets through.

## Further hazards

`PROJECT.json` lists the forty main ones. These were met while modelling, are in the
models, and are bounded by the properties named or stated by none:

* **Dispatch.** A START after proof of delivery sets the booking IN_TRANSIT again, and
  a second proof is refused. An exception opened from a read a check-in has
  overtaken waits for the next check-in; two workers may open two.
* **Documents.** Two overlapping completions copy to and delete at one final key: the
  row of one may be CLEAN while the other has removed the object, or copied again over
  what was scanned. The upload URL binds size and checksum, so that what is copied again
  should be the same.
* **Fulfillment.** An order packed twice, or rerouted and packed again, has two
  packages, and `label` refuses it for ever. A label is bought before the transaction
  that records it, so a crash leaves a paid label no shipment names. DELIVERED is
  accepted in any state and may be followed by DISPATCHED.
* **Procurement.** A line named twice in one delivery may be delivered beyond its
  quantity (`b2b.repository.ts:371-380`), and the order then stays
  PARTIALLY_FULFILLED and is never invoiced. A late approval takes FULFILLED back to
  APPROVED.
* **Checkout.** The twin of a request, with one idempotency key, voids the
  authorization of the order the other one made (`HeldForAnOrder` asks only in the
  other direction). A crash between authorization and order leaves money held.
* **Storefront.** Two carts; an order at the discount of a promotion that has ended.
* **Catalog.** An approval overtakes a rejection; two publications announce twice.
* **Marketplace.** A late moderation relists a SOLD listing (`c2c.repository.ts:161`).
* **Optimization.** Overlapping decision and execution overwrite each other
  (`optimization.repository.ts:156-164`).
* **Consolidation.** A member written by a request that read the plan as DRAFT reopens
  a CANCELLED or DEPARTED plan; one container may be on two plans; two
  sweepers that look before either has written report a missed cut-off twice; a sweep takes the first 100 and may starve
  the others.
* **Linehaul.** Two allocations read one remaining capacity
  (`international-logistics.repository.ts:1355-1372`).
* **Postal.** A handover sets receptacles that were reopened or received meanwhile to
  DESPATCHED.
* **Papers.** A VOID document comes back by a late transition.
* **Sessions.** A login whose password was verified before a reset opens a session
  after it; sessions opened between the read and the write of `revokeAll` survive.
* **Enrolment, Access.** An enrolment switches off the factor that was confirmed while
  it ran (`mfa.service.ts:36-62`, `99-113`); a login carries rights taken away while it
  ran (`auth.service.ts:64-83`, `identity.service.ts:72-84`).
* **Partner, PartnerKeys.** A crash between order and enqueue loses the webhook,
  because the replay answers without it; two fulfilments announce twice; decryption
  outside the `try` ends the whole batch. A rotation that stops half-way, or races
  another one, leaves two live keys.
* **Escrow.** Acceptance of an offer that expired or was countered in between, a failing
  duplicate request releasing a shared hold, a dispute decided twice, a dispute that
  reopens a completed transaction.
* **Payments, Refunds.** An event left PROCESSING by a crash, two requests of one key
  sharing a checkout lock that a late payment cleared (`billing.service.ts:214`), a
  Coinbase refund event that arrives before its reference is stored and is passed over
  (`billing.service.ts:810`).
* **Stock.** A pick takes the stock of nobody's reservation
  (`fulfillment.repository.ts:421`).

## Not modelled

* The MOCK payment provider, which the code refuses in production; signatures,
  formatting, exports, PDF rendering; the payment schedules' split and the rate cards
  a quote is priced with (amounts are given).
* Inside modelled repositories: `createStoreDomain`, addresses, hubs, operators and
  products (constants or nothing), milestones, the sweeps over expired payment
  sessions and invoices and over overdue postal handovers, the length check of B2B
  quotes (`b2b.repository.ts:229-235`). `Enrolment` has no crash between its two
  statements. `Sessions` and `Enrolment` share no row, so `lastUsedStep`, which
  `confirm` may lower (`mfa.service.ts:110`) and a login compares, is a set of spent
  codes that only grows. Carrier events whose code gives an item no status are left out
  of `Postal`: they change nothing the model has.
* Provider services are external: a hosted checkout, a refund, a hold, a label answer
  a repeated key with the first result, as the adapters rely on; an object store, a
  queue and Redis do what their calls say.
* Tenancy registration and membership, analytics, operability and reconciliation
  reports, HTTP bootstrap, health, configuration and shared packages: record keeping
  or reading, one request at a time.
* The engine library `packages/logistics-engine` is not called by the API.
* The web application, the schema, seeds, deployment and tests.
