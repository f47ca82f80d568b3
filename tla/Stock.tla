------------------------------- MODULE Stock -------------------------------
(***************************************************************************)
(* The stock of the commerce and fulfillment services: the quantity rows   *)
(* InventoryBalance (one per inventory item and bucket), the append-only   *)
(* StockLedgerEntry, the InventoryReservation of every order line, and the *)
(* status of orders, purchase orders (one per <<order, vendor>> split) and *)
(* fulfillment orders, which together decide who may move stock.           *)
(*                                                                         *)
(* Actors: buyers (Checkout), suppliers (AcceptPurchaseOrder), the expiry  *)
(* sweepers of the worker processes, inventory feeds, warehouse receipts,  *)
(* returns that are restocked, and pickers.                                *)
(*                                                                         *)
(* Transactions.  checkout and acceptPurchaseOrder run SERIALIZABLE: one   *)
(* atomic step that commits or leaves no trace.  The others run at MySQL's *)
(* REPEATABLE READ: plain reads see the snapshot the transaction took at   *)
(* its first read, writes act on the current row, so such an operation is  *)
(* a step that reads and a later step that commits.                        *)
(*                                                                         *)
(* A reservation is identified with its order line (checkout creates       *)
(* exactly one per line).  Every item has one facility, and its ON_HAND    *)
(* row already exists.                                                     *)
(***************************************************************************)
EXTENDS Integers, FiniteSets

CONSTANTS
    Items,          \* inventory items
    Orders,         \* orders that may be placed (one cart each)
    Lines,          \* order lines; a line is also its reservation
    Vendors,        \* seller:supplier groups an order is split by
    LineOrder,      \* [Lines -> Orders]
    LineItem,       \* [Lines -> Items]
    LineVendor,     \* [Lines -> Vendors]
    LineQty,        \* [Lines -> 1..MaxQty]
    MaxQty,         \* largest quantity of a line or of a receipt
    InitialStock,   \* [Items -> Nat], ON_HAND at the start
    Sweepers,       \* concurrent executions of releaseBatch
    BatchSize,      \* "take: 100" of releaseBatch
    MaxCrashes,     \* bound: worker crashes explored
    Returnable,     \* bound: lines whose return is explored
    Feeds,          \* inventory feed requests
    FeedKey,        \* [Feeds -> external keys]
    FeedItem,       \* [Feeds -> Items]
    FeedQty,        \* [Feeds -> Nat], the absolute quantity of the feed
    Receipts,       \* accepted ASN lines
    ReceiptItem,    \* [Receipts -> Items]
    ReceiptQty,     \* [Receipts -> 1..MaxQty]
    Pickers,        \* concurrent pick requests
    None            \* the split of an idle picker

Splits == {<<LineOrder[l], LineVendor[l]>> : l \in Lines}
Buckets == {"ON_HAND", "RESERVED", "ALLOCATED", "PICKED"}

ASSUME StockAssumption ==
    /\ IsFiniteSet(Lines)
    /\ IsFiniteSet(Receipts)
    /\ MaxQty \in Nat
    /\ BatchSize \in Nat \ {0}
    /\ MaxCrashes \in Nat
    /\ LineOrder \in [Lines -> Orders]
    /\ LineItem \in [Lines -> Items]
    /\ LineVendor \in [Lines -> Vendors]
    /\ LineQty \in [Lines -> 1..MaxQty]
    /\ InitialStock \in [Items -> Nat]
    /\ FeedItem \in [Feeds -> Items]
    /\ FeedQty \in [Feeds -> Nat]
    /\ DOMAIN FeedKey = Feeds
    /\ ReceiptItem \in [Receipts -> Items]
    /\ ReceiptQty \in [Receipts -> 1..MaxQty]
    /\ None \notin Splits

VARIABLES
    balance,        \* InventoryBalance.quantity by bucket and item
    ledger,         \* sum of StockLedgerEntry.quantityDelta by bucket and item
    orderStatus,    \* Order.status; "NONE" before checkout
    splitStatus,    \* status of the OrderSplit and its purchase order
    expired,        \* lines whose reservation is past expiresAt
    releasedAt,     \* lines whose reservation was released
    allocatedAt,    \* lines whose reservation was allocated
    batch,          \* reservations a sweeper read and has yet to visit
    crashes,        \* worker crashes so far (bounded by MaxCrashes)
    feedKeys,       \* external keys of the InventoryFeed rows
    feedRead,       \* per feed request: "idle" or "read"
    feedSeen,       \* ON_HAND in the snapshot of the feed's transaction
    received,       \* receipts already booked
    restocked,      \* lines restocked by a return inspection
    fulfillment,    \* FulfillmentOrder.status per split
    pick,           \* per picker: "idle", "checked" or "read"
    pickSplit,      \* the split the picker works on
    pickSeen        \* ON_HAND in the snapshot of the pick transaction

stockVars == <<balance, ledger>>
orderVars == <<orderStatus, splitStatus>>
reservationVars == <<releasedAt, allocatedAt>>
sweepVars == <<batch, crashes>>
feedVars == <<feedKeys, feedRead, feedSeen>>
inboundVars == <<received, restocked>>
pickVars == <<fulfillment, pick, pickSplit, pickSeen>>
vars == <<stockVars, orderVars, expired, reservationVars, sweepVars, feedVars,
          inboundVars, pickVars>>

-----------------------------------------------------------------------------
(* Quantities.  The units of item i in a set S of lines (or receipts) are  *)
(* counted as a set of pairs <<line, k>>, so that a sum over lines is the  *)
(* cardinality of a union.                                                 *)

UnitsOf(D, S, item, qty, i) ==
    {u \in D \X (1..MaxQty) : u[1] \in S /\ item[u[1]] = i /\ u[2] <= qty[u[1]]}

Units(L, i) == UnitsOf(Lines, L, LineItem, LineQty, i)
Qty(L, i) == Cardinality(Units(L, i))

ItemsOf(L) == {LineItem[l] : l \in L}
LinesOfOrder(o) == {l \in Lines : LineOrder[l] = o}
LinesOfSplit(s) == {l \in Lines : <<LineOrder[l], LineVendor[l]>> = s}

Placed == {l \in Lines : orderStatus[LineOrder[l]] # "NONE"}
Live == Placed \ (releasedAt \cup allocatedAt)

\* A pair of conditional updates on two buckets: quantity - n where
\* quantity >= n, then quantity + n in the other one.
Moved(q, from, to, L) ==
    [b \in Buckets |-> [i \in Items |->
        CASE b = from -> q[b][i] - Qty(L, i)
          [] b = to   -> q[b][i] + Qty(L, i)
          [] OTHER    -> q[b][i]]]

\* Mutant: the update loses its condition "quantity >= n".
CoversUnchecked(b, L) == b \in Buckets /\ L \subseteq Lines

Covers(b, L) == \A i \in ItemsOf(L) : Qty(L, i) <= balance[b][i]

\* The same move booked in the balance rows and in the ledger.
Book(from, to, L) ==
    /\ Covers(from, L)
    /\ balance' = Moved(balance, from, to, L)
    /\ ledger' = Moved(ledger, from, to, L)

\* n units of item i enter ON_HAND, in the balance row and in the ledger.
BookInbound(i, n) ==
    /\ balance' = [balance EXCEPT !["ON_HAND"][i] = @ + n]
    /\ ledger' = [ledger EXCEPT !["ON_HAND"][i] = @ + n]

NothingSeen == [i \in Items |-> 0]

-----------------------------------------------------------------------------
Init ==
    /\ balance = [b \in Buckets |-> [i \in Items |->
                     IF b = "ON_HAND" THEN InitialStock[i] ELSE 0]]
    /\ ledger = balance
    /\ orderStatus = [o \in Orders |-> "NONE"]
    /\ splitStatus = [s \in Splits |-> "NONE"]
    /\ expired = {}
    /\ releasedAt = {}
    /\ allocatedAt = {}
    /\ batch = [w \in Sweepers |-> {}]
    /\ crashes = 0
    /\ feedKeys = {}
    /\ feedRead = [f \in Feeds |-> "idle"]
    /\ feedSeen = [f \in Feeds |-> 0]
    /\ received = {}
    /\ restocked = {}
    /\ fulfillment = [s \in Splits |-> "NONE"]
    /\ pick = [p \in Pickers |-> "idle"]
    /\ pickSplit = [p \in Pickers |-> None]
    /\ pickSeen = [p \in Pickers |-> NothingSeen]

\* CommerceRepository.checkout: reserve every line or none.
Checkout(o) ==
    /\ orderStatus[o] = "NONE"
    /\ LinesOfOrder(o) # {}
    /\ Book("ON_HAND", "RESERVED", LinesOfOrder(o))
    /\ orderStatus' = [orderStatus EXCEPT ![o] = "PENDING"]
    /\ splitStatus' = [s \in Splits |-> IF s[1] = o THEN "PENDING" ELSE splitStatus[s]]
    /\ UNCHANGED <<expired, reservationVars, sweepVars, feedVars, inboundVars, pickVars>>

\* Mutant: lines without a live reservation are skipped instead of refused.
AcceptSkippingReleased(s) ==
    LET L == LinesOfSplit(s) \cap Live IN
    /\ splitStatus[s] = "PENDING"
    /\ Book("RESERVED", "ALLOCATED", L)
    /\ allocatedAt' = allocatedAt \cup L
    /\ splitStatus' = [splitStatus EXCEPT ![s] = "ACCEPTED"]
    /\ orderStatus' =
         IF \E t \in Splits : t[1] = s[1] /\ splitStatus'[t] = "PENDING"
         THEN orderStatus
         ELSE [orderStatus EXCEPT ![s[1]] = "CONFIRMED"]
    /\ UNCHANGED <<expired, releasedAt, sweepVars, feedVars, inboundVars, pickVars>>

\* CommerceRepository.acceptPurchaseOrder: every line of the split must still
\* hold a live reservation; the order is confirmed with its last split.
AcceptPurchaseOrder(s) ==
    /\ splitStatus[s] = "PENDING"
    /\ LinesOfSplit(s) \subseteq Live
    /\ Book("RESERVED", "ALLOCATED", LinesOfSplit(s))
    /\ allocatedAt' = allocatedAt \cup LinesOfSplit(s)
    /\ splitStatus' = [splitStatus EXCEPT ![s] = "ACCEPTED"]
    /\ orderStatus' =
         IF \E t \in Splits : t[1] = s[1] /\ splitStatus'[t] = "PENDING"
         THEN orderStatus
         ELSE [orderStatus EXCEPT ![s[1]] = "CONFIRMED"]
    /\ UNCHANGED <<expired, releasedAt, sweepVars, feedVars, inboundVars, pickVars>>

\* The clock passes expiresAt of a reservation.
Expire(l) ==
    /\ l \in Placed \ expired
    /\ expired' = expired \cup {l}
    /\ UNCHANGED <<stockVars, orderVars, reservationVars, sweepVars, feedVars,
                   inboundVars, pickVars>>

-----------------------------------------------------------------------------
(* ReservationExpirySweeper.releaseBatch: read a batch, then one           *)
(* transaction per reservation.                                            *)

\* Mutant: the batch query forgets "releasedAt: null, allocatedAt: null".
SweepReadUnfiltered(w) ==
    /\ batch[w] = {}
    /\ \E B \in SUBSET (Placed \cap expired) :
          /\ \/ Cardinality(B) = BatchSize
             \/ B = Placed \cap expired /\ Cardinality(B) < BatchSize
          /\ batch' = [batch EXCEPT ![w] = B]
    /\ UNCHANGED <<stockVars, orderVars, expired, reservationVars, crashes, feedVars,
                   inboundVars, pickVars>>

SweepRead(w) ==
    /\ batch[w] = {}
    /\ \E B \in SUBSET (Live \cap expired) :
          /\ \/ Cardinality(B) = BatchSize
             \/ B = Live \cap expired /\ Cardinality(B) < BatchSize
          /\ batch' = [batch EXCEPT ![w] = B]
    /\ UNCHANGED <<stockVars, orderVars, expired, reservationVars, crashes, feedVars,
                   inboundVars, pickVars>>

\* Mutant: the reservation is released without claiming it first.
SweepReleaseUnclaimed(w, l) ==
    /\ l \in batch[w]
    /\ Book("RESERVED", "ON_HAND", {l})
    /\ releasedAt' = releasedAt \cup {l}
    /\ batch' = [batch EXCEPT ![w] = @ \ {l}]
    /\ UNCHANGED <<orderVars, expired, allocatedAt, crashes, feedVars, inboundVars, pickVars>>

\* The claim releasedAt = NULL and allocatedAt = NULL is evaluated again on the
\* current row; a claimed reservation without its reserved balance rolls back
\* and abandons the rest of the batch.
SweepRelease(w, l) ==
    /\ l \in batch[w]
    /\ IF l \in Live
       THEN IF Covers("RESERVED", {l})
            THEN /\ Book("RESERVED", "ON_HAND", {l})
                 /\ releasedAt' = releasedAt \cup {l}
                 /\ batch' = [batch EXCEPT ![w] = @ \ {l}]
            ELSE /\ batch' = [batch EXCEPT ![w] = {}]
                 /\ UNCHANGED <<stockVars, releasedAt>>
       ELSE /\ batch' = [batch EXCEPT ![w] = @ \ {l}]
            /\ UNCHANGED <<stockVars, releasedAt>>
    /\ UNCHANGED <<orderVars, expired, allocatedAt, crashes, feedVars, inboundVars, pickVars>>

SweepCrash(w) ==
    /\ batch[w] # {}
    /\ crashes < MaxCrashes
    /\ batch' = [batch EXCEPT ![w] = {}]
    /\ crashes' = crashes + 1
    /\ UNCHANGED <<stockVars, orderVars, expired, reservationVars, feedVars, inboundVars,
                   pickVars>>

-----------------------------------------------------------------------------
(* CommerceRepository.inventoryFeed: the snapshot supplies both the replay *)
(* check and the quantity the ledger delta is computed from; the balance   *)
(* is written as an absolute value.                                        *)

FeedBegin(f) ==
    /\ feedRead[f] = "idle"
    /\ FeedKey[f] \notin feedKeys
    /\ feedRead' = [feedRead EXCEPT ![f] = "read"]
    /\ feedSeen' = [feedSeen EXCEPT ![f] = balance["ON_HAND"][FeedItem[f]]]
    /\ UNCHANGED <<stockVars, orderVars, expired, reservationVars, sweepVars, feedKeys,
                   inboundVars, pickVars>>

FeedOver(f) ==
    /\ feedRead' = [feedRead EXCEPT ![f] = "idle"]
    /\ feedSeen' = [feedSeen EXCEPT ![f] = 0]

\* The unique key (tenant, source, externalKey) admits one InventoryFeed row.
FeedCommit(f) ==
    /\ feedRead[f] = "read"
    /\ FeedKey[f] \notin feedKeys
    /\ balance' = [balance EXCEPT !["ON_HAND"][FeedItem[f]] = FeedQty[f]]
    /\ ledger' = [ledger EXCEPT !["ON_HAND"][FeedItem[f]] = @ + (FeedQty[f] - feedSeen[f])]
    /\ feedKeys' = feedKeys \cup {FeedKey[f]}
    /\ FeedOver(f)
    /\ UNCHANGED <<orderVars, expired, reservationVars, sweepVars, inboundVars, pickVars>>

\* Rolled back: the key was taken meanwhile, a lock conflict, or a lost client.
FeedAbort(f) ==
    /\ feedRead[f] = "read"
    /\ FeedOver(f)
    /\ UNCHANGED <<stockVars, orderVars, expired, reservationVars, sweepVars, feedKeys,
                   inboundVars, pickVars>>

-----------------------------------------------------------------------------
(* Inbound stock: atomic increments with their ledger entry.               *)

\* FulfillmentRepository.receiveAsn for the accepted quantity of one ASN line;
\* the version check of the ASN books a line at most once.
ReceiveAsn(r) ==
    /\ r \notin received
    /\ BookInbound(ReceiptItem[r], ReceiptQty[r])
    /\ received' = received \cup {r}
    /\ UNCHANGED <<orderVars, expired, reservationVars, sweepVars, feedVars, restocked, pickVars>>

\* Mutant: the quantities of earlier returns of the line are not subtracted.
RestockAgain(l) ==
    /\ l \in Placed
    /\ BookInbound(LineItem[l], LineQty[l])
    /\ restocked' = restocked \cup {l}
    /\ UNCHANGED <<orderVars, expired, reservationVars, sweepVars, feedVars, received, pickVars>>

\* ReturnsFinanceRepository.inspectReturn with disposition RESTOCK.  A return
\* may be requested for an order in any status; the quantities of a line's
\* returns never exceed the line, which is returned here as a whole.
RestockReturn(l) ==
    /\ l \in (Placed \cap Returnable) \ restocked
    /\ BookInbound(LineItem[l], LineQty[l])
    /\ restocked' = restocked \cup {l}
    /\ UNCHANGED <<orderVars, expired, reservationVars, sweepVars, feedVars, received, pickVars>>

-----------------------------------------------------------------------------
(* FulfillmentRepository.createFulfillment and pick.                       *)

CreateFulfillment(s) ==
    /\ splitStatus[s] = "ACCEPTED"
    /\ fulfillment[s] = "NONE"
    /\ fulfillment' = [fulfillment EXCEPT ![s] = "PENDING"]
    /\ UNCHANGED <<stockVars, orderVars, expired, reservationVars, sweepVars, feedVars,
                   inboundVars, pick, pickSplit, pickSeen>>

\* The status is read before the transaction starts ...
PickCheck(p, s) ==
    /\ pick[p] = "idle"
    /\ fulfillment[s] = "PENDING"
    /\ pick' = [pick EXCEPT ![p] = "checked"]
    /\ pickSplit' = [pickSplit EXCEPT ![p] = s]
    /\ UNCHANGED <<stockVars, orderVars, expired, reservationVars, sweepVars, feedVars,
                   inboundVars, fulfillment, pickSeen>>

\* ... the ON_HAND rows in the transaction's snapshot ...
PickRead(p) ==
    /\ pick[p] = "checked"
    /\ pick' = [pick EXCEPT ![p] = "read"]
    /\ pickSeen' = [pickSeen EXCEPT ![p] = balance["ON_HAND"]]
    /\ UNCHANGED <<stockVars, orderVars, expired, reservationVars, sweepVars, feedVars,
                   inboundVars, fulfillment, pickSplit>>

PickOver(p) ==
    /\ pick' = [pick EXCEPT ![p] = "idle"]
    /\ pickSplit' = [pickSplit EXCEPT ![p] = None]
    /\ pickSeen' = [pickSeen EXCEPT ![p] = NothingSeen]

\* Mutant: nobody compares the quantity with the line.
PickCommitUnchecked(p) ==
    LET L == LinesOfSplit(pickSplit[p]) IN
    /\ pick[p] = "read"
    /\ balance' = Moved(balance, "ON_HAND", "PICKED", L)
    /\ fulfillment' = [fulfillment EXCEPT ![pickSplit[p]] = "PICKED"]
    /\ PickOver(p)
    /\ UNCHANGED <<ledger, orderVars, expired, reservationVars, sweepVars, feedVars,
                   inboundVars>>

\* ... and the decrement is applied to the current rows, unconditionally and
\* without a ledger entry.
PickCommit(p) ==
    LET L == LinesOfSplit(pickSplit[p]) IN
    /\ pick[p] = "read"
    /\ \A i \in ItemsOf(L) : Qty(L, i) <= pickSeen[p][i]
    /\ balance' = Moved(balance, "ON_HAND", "PICKED", L)
    /\ fulfillment' = [fulfillment EXCEPT ![pickSplit[p]] = "PICKED"]
    /\ PickOver(p)
    /\ UNCHANGED <<ledger, orderVars, expired, reservationVars, sweepVars, feedVars,
                   inboundVars>>

\* "Insufficient inventory", a lock conflict, or a lost client.
PickAbort(p) ==
    /\ pick[p] # "idle"
    /\ PickOver(p)
    /\ UNCHANGED <<stockVars, orderVars, expired, reservationVars, sweepVars, feedVars,
                   inboundVars, fulfillment>>

-----------------------------------------------------------------------------
CommerceNext ==
    \/ \E o \in Orders : Checkout(o)
    \/ \E s \in Splits : AcceptPurchaseOrder(s)
    \/ \E l \in Lines : Expire(l)

SweepNext(w) ==
    \/ SweepRead(w)
    \/ \E l \in Lines : SweepRelease(w, l)
    \/ SweepCrash(w)

FeedNext(f) == FeedBegin(f) \/ FeedCommit(f) \/ FeedAbort(f)

InboundNext ==
    \/ \E r \in Receipts : ReceiveAsn(r)
    \/ \E l \in Lines : RestockReturn(l)

PickNext(p) ==
    \/ \E s \in Splits : PickCheck(p, s)
    \/ PickRead(p)
    \/ PickCommit(p)
    \/ PickAbort(p)

Next ==
    \/ CommerceNext
    \/ \E w \in Sweepers : SweepNext(w)
    \/ \E f \in Feeds : FeedNext(f)
    \/ InboundNext
    \/ \E s \in Splits : CreateFulfillment(s)
    \/ \E p \in Pickers : PickNext(p)

Spec == Init /\ [][Next]_vars

\* The worker polls on a timer and finishes the batch it read.
Fairness == \A w \in Sweepers :
    /\ WF_vars(SweepRead(w))
    /\ WF_vars(\E l \in Lines : SweepRelease(w, l))

FairSpec == Spec /\ Fairness

-----------------------------------------------------------------------------
(* Properties.                                                             *)

\* Every row and every local variable of an operation has its declared shape.
TypeOK ==
    /\ balance \in [Buckets -> [Items -> Int]]
    /\ ledger \in [Buckets -> [Items -> Int]]
    /\ orderStatus \in [Orders -> {"NONE", "PENDING", "CONFIRMED"}]
    /\ splitStatus \in [Splits -> {"NONE", "PENDING", "ACCEPTED"}]
    /\ expired \subseteq Lines
    /\ releasedAt \subseteq Lines
    /\ allocatedAt \subseteq Lines
    /\ batch \in [Sweepers -> SUBSET Lines]
    /\ crashes \in Nat
    /\ feedRead \in [Feeds -> {"idle", "read"}]
    /\ feedSeen \in [Feeds -> Int]
    /\ received \subseteq Receipts
    /\ restocked \subseteq Lines
    /\ fulfillment \in [Splits -> {"NONE", "PENDING", "PICKED"}]
    /\ pick \in [Pickers -> {"idle", "checked", "read"}]
    /\ pickSplit \in [Pickers -> Splits \cup {None}]
    /\ \A p \in Pickers : pick[p] # "idle" => pickSplit[p] \in Splits
    /\ pickSeen \in [Pickers -> [Items -> Int]]

\* The RESERVED row of an item is exactly the quantity of its reservations that
\* are neither released nor allocated, whatever checkouts, acceptances and
\* sweepers interleave: releaseBatch never meets a reservation without its
\* balance, which would abandon every other reservation of the batch.
ReservedBacked == \A i \in Items : balance["RESERVED"][i] = Qty(Live, i)

\* ALLOCATED is exactly the quantity of the accepted purchase orders' lines.
AllocatedBacked == \A i \in Items : balance["ALLOCATED"][i] = Qty(allocatedAt, i)

\* A reservation is released by the sweeper or allocated by an acceptance, never
\* both: both transactions race for the same row.
ResolvedOnce == releasedAt \cap allocatedAt = {}

\* An order is CONFIRMED only when every one of its lines holds allocated stock;
\* in particular no line of a confirmed order was given back by the sweeper.
ConfirmedFullyAllocated ==
    \A o \in Orders : orderStatus[o] = "CONFIRMED" => LinesOfOrder(o) \subseteq allocatedAt

\* What was sold is backed: held and allocated stock agree with the reservations
\* behind them, none is resolved twice, a confirmed order has all of its lines
\* allocated, and every row and local variable keeps its shape (checkout,
\* acceptPurchaseOrder, releaseBatch).
SoldIsBacked ==
    TypeOK /\ ReservedBacked /\ AllocatedBacked /\ ResolvedOnce /\ ConfirmedFullyAllocated

\* The buckets no feed and no pick writes agree with the sum of their ledger
\* entries at every instant.
HeldReconciled ==
    \A b \in {"RESERVED", "ALLOCATED"} : balance[b] = ledger[b]

\* Every balance row is the sum of its ledger entries (inventoryReconciliation).
Reconciled == balance = ledger

\* No ON_HAND row is ever negative.
NonNegativeOnHand == \A i \in Items : balance["ON_HAND"][i] >= 0

Total(i) == balance["ON_HAND"][i] + balance["RESERVED"][i]
            + balance["ALLOCATED"][i] + balance["PICKED"][i]

ReceivedQty(i) == Cardinality(UnitsOf(Receipts, received, ReceiptItem, ReceiptQty, i))

\* Units are only moved between buckets: an item no feed has overwritten holds
\* its initial stock plus what was received and restocked, whatever happened to
\* its reservations and however often picks were retried or raced.
UnitsConserved ==
    \A i \in Items :
        (\A f \in Feeds : FeedItem[f] = i => FeedKey[f] \notin feedKeys)
        => Total(i) = InitialStock[i] + ReceivedQty(i) + Qty(restocked, i)

\* Units neither appear nor vanish, whatever feeds and picks interleave: held
\* stock agrees with its ledger, and an item no feed has overwritten with what
\* came in (transitions of InventoryBalance, pick, inspectReturn).
UnitsKept == HeldReconciled /\ UnitsConserved

\* "Inventory and finance use immutable ledger entries with transactionally
\* derived balances", and no unit is sold twice: without feeds and picks both
\* hold of every bucket (checkout, receiveAsn, releaseBatch).
LedgerHolds == Reconciled /\ NonNegativeOnHand

\* What ON_HAND holds of item i beyond its ledger entries, once the units that
\* were picked, which no ledger entry records, are counted back in.
Unrecorded(i) == balance["ON_HAND"][i] + balance["PICKED"][i] - ledger["ON_HAND"][i]

\* The ON_HAND row changed since an open feed or pick read it.
FeedOvertaken(f) ==
    feedRead[f] = "read" /\ feedSeen[f] # balance["ON_HAND"][FeedItem[f]]
PickOvertaken(p, i) ==
    pick[p] = "read" /\ pickSeen[p][i] # balance["ON_HAND"][i]

\* ON_HAND parts from its ledger only when a feed overwrites what was written
\* after it read the row, and then by just that (inventoryFeed).
PartsOnlyByAFeed ==
    \A i \in Items : Unrecorded(i)' # Unrecorded(i) =>
        \E f \in Feeds :
            /\ FeedItem[f] = i /\ FeedOvertaken(f)
            /\ Unrecorded(i)' = Unrecorded(i) + feedSeen[f] - balance["ON_HAND"][i]

\* A row falls below zero only by a pick that read another quantity than it
\* takes from (pick); every conditional update stays within what is there.
FallsBelowOnlyByAPick ==
    \A i \in Items :
        balance'["ON_HAND"][i] < 0 /\ balance'["ON_HAND"][i] < balance["ON_HAND"][i] =>
            \E p \in Pickers : PickOvertaken(p, i)

\* Stock is misstated in no way but these two, however checkouts, acceptances,
\* sweeps, feeds, receipts, returns and picks interleave (InventoryBalance).
MisstatedOnlyInARace == [][PartsOnlyByAFeed /\ FallsBelowOnlyByAPick]_vars

\* Stock held by an expired reservation does not stay held: every expired
\* reservation is eventually released, or was allocated, although sweepers
\* overlap, read bounded batches and crash between two reservations.
ExpiredReservationsResolved ==
    \A l \in Lines : l \in expired ~> l \in releasedAt \cup allocatedAt

-----------------------------------------------------------------------------
(* The state as Reservations sees it.                                      *)

Fate(l) == CASE l \notin Placed     -> "none"
             [] l \in Live          -> "held"
             [] l \in releasedAt    -> "released"
             [] OTHER               -> "allocated"

Confirmed == {o \in Orders : orderStatus[o] = "CONFIRMED"}

Reservation == INSTANCE Reservations
    WITH fate <- [l \in Lines |-> Fate(l)], confirmed <- Confirmed

\* checkout, acceptPurchaseOrder and releaseBatch, with all that interleaves
\* with them, implement Reservations: lines are held all or none, resolved once
\* and for good, and an order is confirmed exactly when its last line is
\* allocated.
ImplementsReservations == Reservation!Spec
=============================================================================
