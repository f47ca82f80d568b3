---------------------------- MODULE StockProofs ----------------------------
(***************************************************************************)
(* Proofs about Stock for every number of items, orders, lines, sweepers,  *)
(* feeds and pickers.                                                      *)
(***************************************************************************)
EXTENDS Stock, FiniteSetTheorems, TLAPS

-----------------------------------------------------------------------------
(* Quantities of sets of lines.                                            *)

\* The units of any set of lines are finitely many, so a quantity is a natural
\* number.
LEMMA QtyType ==
  ASSUME NEW L, NEW i
  PROVE  IsFiniteSet(Units(L, i)) /\ Qty(L, i) \in Nat
<1>0. IsFiniteSet(1..MaxQty)
  BY StockAssumption, FS_Interval
<1>1. IsFiniteSet(Lines \X (1..MaxQty))
  BY <1>0, StockAssumption, FS_Product
<1>2. Units(L, i) \subseteq Lines \X (1..MaxQty)
  BY DEF Units, UnitsOf
<1>3. IsFiniteSet(Units(L, i))
  BY <1>1, <1>2, FS_Subset
<1> QED
  BY <1>3, FS_CardinalityType DEF Qty

\* The quantity of two disjoint sets of lines is the sum of their quantities.
LEMMA QtyUnion ==
  ASSUME NEW A, NEW B, NEW i, A \cap B = {}
  PROVE  Qty(A \cup B, i) = Qty(A, i) + Qty(B, i)
<1>1. Units(A \cup B, i) = Units(A, i) \cup Units(B, i)
  BY DEF Units, UnitsOf
<1>2. Units(A, i) \cap Units(B, i) = {}
  BY DEF Units, UnitsOf
<1>3. Cardinality(Units(A, i) \cap Units(B, i)) = 0
  BY <1>2, FS_EmptySet
<1>4. IsFiniteSet(Units(A, i)) /\ IsFiniteSet(Units(B, i))
  BY QtyType
<1>5. Cardinality(Units(A, i) \cup Units(B, i)) =
         Cardinality(Units(A, i)) + Cardinality(Units(B, i))
         - Cardinality(Units(A, i) \cap Units(B, i))
  BY <1>4, FS_Union
<1>6. Qty(A \cup B, i) = Qty(A, i) + Qty(B, i) - 0
  BY <1>1, <1>3, <1>5, Zenon DEF Qty
<1>7. Qty(A, i) \in Nat /\ Qty(B, i) \in Nat
  BY QtyType
<1> QED
  BY <1>6, <1>7

\* Taking lines out of a set that contains them takes out their quantity.
LEMMA QtyDifference ==
  ASSUME NEW A, NEW B, NEW i, B \subseteq A
  PROVE  Qty(A \ B, i) = Qty(A, i) - Qty(B, i)
<1>1. (A \ B) \cup B = A /\ (A \ B) \cap B = {}
  OBVIOUS
<1>2. Qty(A, i) = Qty(A \ B, i) + Qty(B, i)
  BY <1>1, QtyUnion
<1> QED
  BY <1>2, QtyType

\* No lines, no quantity.
LEMMA QtyEmpty ==
  ASSUME NEW i
  PROVE  Qty({}, i) = 0
<1>1. Units({}, i) = {}
  BY DEF Units, UnitsOf
<1> QED
  BY <1>1, FS_EmptySet DEF Qty

\* Moving a set of lines leaves every third bucket alone.
LEMMA MovedElsewhere ==
  ASSUME NEW q \in [Buckets -> [Items -> Int]], NEW L, NEW from, NEW to,
         NEW b \in Buckets, b # from, b # to
  PROVE  Moved(q, from, to, L)[b] = q[b]
<1>1. Moved(q, from, to, L)[b] = [i \in Items |-> q[b][i]]
  BY DEF Moved
<1>2. q[b] \in [Items -> Int]
  OBVIOUS
<1> QED
  BY <1>1, <1>2

\* Moving a set of lines keeps the shape of a quantity table, takes their
\* quantity from one bucket and adds it to the other.
LEMMA MovedEffect ==
  ASSUME NEW q \in [Buckets -> [Items -> Int]], NEW L,
         NEW from \in Buckets, NEW to \in Buckets, from # to
  PROVE  /\ Moved(q, from, to, L) \in [Buckets -> [Items -> Int]]
         /\ \A i \in Items :
              /\ Moved(q, from, to, L)[from][i] = q[from][i] - Qty(L, i)
              /\ Moved(q, from, to, L)[to][i] = q[to][i] + Qty(L, i)
<1> DEFINE M == Moved(q, from, to, L)
<1>1. \A i \in Items : Qty(L, i) \in Nat
  BY QtyType
<1>2. \A b \in Buckets, i \in Items : q[b][i] \in Int
  OBVIOUS
<1>3. M[from] = [i \in Items |-> q[from][i] - Qty(L, i)]
  BY DEF Moved
<1>4. M[to] = [i \in Items |-> q[to][i] + Qty(L, i)]
  BY DEF Moved
<1>5. ASSUME NEW b \in Buckets PROVE M[b] \in [Items -> Int]
  <2>1. CASE b = from
    BY <2>1, <1>1, <1>2, <1>3
  <2>2. CASE b = to
    BY <2>2, <1>1, <1>2, <1>4
  <2>3. CASE b # from /\ b # to
    BY <2>3, MovedElsewhere
  <2> QED
    BY <2>1, <2>2, <2>3
<1>6. M \in [Buckets -> [Items -> Int]]
  BY <1>5 DEF Moved
<1> QED
  BY <1>3, <1>4, <1>6

\* A booked move keeps the shape of both quantity tables.
LEMMA BookType ==
  ASSUME TypeOK, NEW from \in Buckets, NEW to \in Buckets, from # to, NEW L,
         Book(from, to, L)
  PROVE  /\ balance' \in [Buckets -> [Items -> Int]]
         /\ ledger' \in [Buckets -> [Items -> Int]]
BY MovedEffect DEF TypeOK, Book

\* What a booked move does to the rows and to the ledger.
LEMMA BookEffect ==
  ASSUME TypeOK, NEW from \in Buckets, NEW to \in Buckets, from # to, NEW L,
         Book(from, to, L)
  PROVE  \A i \in Items :
           /\ balance'[from][i] = balance[from][i] - Qty(L, i)
           /\ ledger'[from][i] = ledger[from][i] - Qty(L, i)
           /\ balance'[to][i] = balance[to][i] + Qty(L, i)
           /\ ledger'[to][i] = ledger[to][i] + Qty(L, i)
<1>1. /\ balance \in [Buckets -> [Items -> Int]]
      /\ ledger \in [Buckets -> [Items -> Int]]
  BY DEF TypeOK
<1>2. \A i \in Items :
        /\ Moved(balance, from, to, L)[from][i] = balance[from][i] - Qty(L, i)
        /\ Moved(balance, from, to, L)[to][i] = balance[to][i] + Qty(L, i)
  BY <1>1, MovedEffect
<1>3. \A i \in Items :
        /\ Moved(ledger, from, to, L)[from][i] = ledger[from][i] - Qty(L, i)
        /\ Moved(ledger, from, to, L)[to][i] = ledger[to][i] + Qty(L, i)
  BY <1>1, MovedEffect
<1> QED
  BY <1>2, <1>3 DEF Book

\* A booked move leaves a third bucket alone.
LEMMA BookElsewhere ==
  ASSUME TypeOK, NEW from, NEW to, NEW L, Book(from, to, L),
         NEW b \in Buckets, b # from, b # to
  PROVE  balance'[b] = balance[b] /\ ledger'[b] = ledger[b]
<1>1. /\ balance \in [Buckets -> [Items -> Int]]
      /\ ledger \in [Buckets -> [Items -> Int]]
  BY DEF TypeOK
<1>2. /\ Moved(balance, from, to, L)[b] = balance[b]
      /\ Moved(ledger, from, to, L)[b] = ledger[b]
  BY <1>1, MovedElsewhere
<1> QED
  BY <1>2 DEF Book

\* The buckets are four different rows.
LEMMA BucketNames ==
  /\ "ON_HAND" \in Buckets /\ "RESERVED" \in Buckets
  /\ "ALLOCATED" \in Buckets /\ "PICKED" \in Buckets
  /\ "ON_HAND" # "RESERVED" /\ "ON_HAND" # "PICKED" /\ "RESERVED" # "ALLOCATED"
  /\ "ALLOCATED" # "ON_HAND" /\ "ALLOCATED" # "PICKED" /\ "RESERVED" # "PICKED"
BY DEF Buckets

\* Every item has an ON_HAND row, so an inbound increment keeps the shape too.
LEMMA BookInboundType ==
  ASSUME TypeOK, NEW i \in Items, NEW n \in Int, BookInbound(i, n)
  PROVE  /\ balance' \in [Buckets -> [Items -> Int]]
         /\ ledger' \in [Buckets -> [Items -> Int]]
BY DEF TypeOK, BookInbound, Buckets

-----------------------------------------------------------------------------
(* Type correctness.                                                       *)

\* The first state is well typed: ON_HAND holds the initial stock.
LEMMA InitTypeOK == Init => TypeOK
<1> SUFFICES ASSUME Init PROVE TypeOK
  OBVIOUS
<1>1. balance \in [Buckets -> [Items -> Int]] /\ ledger \in [Buckets -> [Items -> Int]]
  BY StockAssumption DEF Init
<1>2. pickSeen \in [Pickers -> [Items -> Int]]
  BY DEF Init, NothingSeen
<1> QED
  BY <1>1, <1>2 DEF Init, TypeOK

\* Every step of every actor keeps rows and local variables well typed.
LEMMA NextTypeOK == TypeOK /\ [Next]_vars => TypeOK'
<1> SUFFICES ASSUME TypeOK, [Next]_vars PROVE TypeOK'
  OBVIOUS
<1> USE DEF stockVars, orderVars, reservationVars, sweepVars, feedVars, inboundVars, pickVars
<1> "ON_HAND" \in Buckets /\ "RESERVED" \in Buckets /\ "ALLOCATED" \in Buckets
    /\ "PICKED" \in Buckets
  BY DEF Buckets
<1>1. ASSUME NEW o \in Orders, Checkout(o) PROVE TypeOK'
  BY <1>1, BookType DEF TypeOK, Checkout
<1>2. ASSUME NEW s \in Splits, AcceptPurchaseOrder(s) PROVE TypeOK'
  <2>1. LinesOfSplit(s) \subseteq Lines
    BY DEF LinesOfSplit
  <2>2. balance' \in [Buckets -> [Items -> Int]] /\ ledger' \in [Buckets -> [Items -> Int]]
    BY <1>2, BookType DEF AcceptPurchaseOrder
  <2>3. orderStatus' \in [Orders -> {"NONE", "PENDING", "CONFIRMED"}]
    BY <1>2 DEF TypeOK, AcceptPurchaseOrder
  <2> QED
    BY <1>2, <2>1, <2>2, <2>3 DEF TypeOK, AcceptPurchaseOrder
<1>3. ASSUME NEW l \in Lines, Expire(l) PROVE TypeOK'
  BY <1>3 DEF TypeOK, Expire
<1>4. ASSUME NEW w \in Sweepers, SweepNext(w) PROVE TypeOK'
  <2>1. CASE SweepRead(w)
    <3>1. Live \subseteq Lines
      BY DEF Live, Placed
    <3> QED
      BY <2>1, <3>1 DEF TypeOK, SweepRead
  <2>2. ASSUME NEW l \in Lines, SweepRelease(w, l) PROVE TypeOK'
    <3>1. balance' \in [Buckets -> [Items -> Int]] /\ ledger' \in [Buckets -> [Items -> Int]]
      BY <2>2, BookType DEF SweepRelease, TypeOK
    <3> QED
      BY <2>2, <3>1 DEF TypeOK, SweepRelease
  <2>3. CASE SweepCrash(w)
    BY <2>3 DEF TypeOK, SweepCrash
  <2> QED
    BY <1>4, <2>1, <2>2, <2>3 DEF SweepNext
<1>5. ASSUME NEW f \in Feeds, FeedNext(f) PROVE TypeOK'
  <2> FeedItem[f] \in Items /\ FeedQty[f] \in Int
    BY StockAssumption
  <2>1. CASE FeedBegin(f)
    BY <2>1 DEF TypeOK, FeedBegin
  <2>2. CASE FeedCommit(f)
    <3>1. balance' \in [Buckets -> [Items -> Int]] /\ ledger' \in [Buckets -> [Items -> Int]]
      BY <2>2 DEF TypeOK, FeedCommit
    <3> QED
      BY <2>2, <3>1 DEF TypeOK, FeedCommit, FeedOver
  <2>3. CASE FeedAbort(f)
    BY <2>3 DEF TypeOK, FeedAbort, FeedOver
  <2> QED
    BY <1>5, <2>1, <2>2, <2>3 DEF FeedNext
<1>6. ASSUME NEW r \in Receipts, ReceiveAsn(r) PROVE TypeOK'
  BY <1>6, BookInboundType, StockAssumption DEF TypeOK, ReceiveAsn
<1>7. ASSUME NEW l \in Lines, RestockReturn(l) PROVE TypeOK'
  BY <1>7, BookInboundType, StockAssumption DEF TypeOK, RestockReturn
<1>8. ASSUME NEW s \in Splits, CreateFulfillment(s) PROVE TypeOK'
  BY <1>8 DEF TypeOK, CreateFulfillment
<1>9. ASSUME NEW p \in Pickers, PickNext(p) PROVE TypeOK'
  <2>1. ASSUME NEW s \in Splits, PickCheck(p, s) PROVE TypeOK'
    BY <2>1 DEF TypeOK, PickCheck
  <2>2. CASE PickRead(p)
    BY <2>2 DEF TypeOK, PickRead
  <2>3. CASE PickCommit(p)
    <3>1. balance' \in [Buckets -> [Items -> Int]]
      BY <2>3, MovedEffect DEF TypeOK, PickCommit
    <3>2. NothingSeen \in [Items -> Int]
      BY DEF NothingSeen
    <3> QED
      BY <2>3, <3>1, <3>2 DEF TypeOK, PickCommit, PickOver
  <2>4. CASE PickAbort(p)
    <3>1. NothingSeen \in [Items -> Int]
      BY DEF NothingSeen
    <3> QED
      BY <2>4, <3>1 DEF TypeOK, PickAbort, PickOver
  <2> QED
    BY <1>9, <2>1, <2>2, <2>3, <2>4 DEF PickNext
<1>10. CASE UNCHANGED vars
  BY <1>10 DEF TypeOK, vars
<1> QED
  BY <1>1, <1>2, <1>3, <1>4, <1>5, <1>6, <1>7, <1>8, <1>9, <1>10
  DEF Next, CommerceNext, InboundNext

\* Rows and local variables are well typed in every reachable state, for any
\* number of items, orders and actors.
THEOREM StockTypeOK == Spec => []TypeOK
<1>1. Init => TypeOK
  BY InitTypeOK
<1>2. TypeOK /\ [Next]_vars => TypeOK'
  BY NextTypeOK
<1> QED
  BY <1>1, <1>2, PTL DEF Spec

-----------------------------------------------------------------------------
(* The inductive invariant behind the reservation properties.  What the    *)
(* properties leave out is how the three status columns go together: a     *)
(* purchase order is accepted only with all of its lines, an order only    *)
(* confirmed with all of its purchase orders.                              *)

\* A split exists exactly when its order does.
SplitsPlaced ==
    \A s \in Splits : splitStatus[s] = "NONE" <=> orderStatus[s[1]] = "NONE"

\* Only reservations that exist are resolved.
ResolvedPlaced == releasedAt \cup allocatedAt \subseteq Placed

AcceptedAllocated ==
    \A s \in Splits : splitStatus[s] = "ACCEPTED" => LinesOfSplit(s) \subseteq allocatedAt

ConfirmedAccepted ==
    \A o \in Orders : orderStatus[o] = "CONFIRMED" =>
        \A s \in Splits : s[1] = o => splitStatus[s] = "ACCEPTED"

StockInv ==
    /\ TypeOK
    /\ ReservedBacked
    /\ AllocatedBacked
    /\ HeldReconciled
    /\ ResolvedOnce
    /\ SplitsPlaced
    /\ ResolvedPlaced
    /\ AcceptedAllocated
    /\ ConfirmedAccepted

\* Nothing is reserved or allocated before the first order.
LEMMA InitStockInv == Init => StockInv
<1> SUFFICES ASSUME Init PROVE StockInv
  OBVIOUS
<1>1. TypeOK
  BY InitTypeOK
<1>2. Placed = {} /\ Live = {}
  BY StockAssumption DEF Init, Placed, Live
<1>3. ReservedBacked /\ AllocatedBacked
  BY <1>2, QtyEmpty DEF Init, ReservedBacked, AllocatedBacked, Buckets
<1>4. HeldReconciled /\ ResolvedOnce /\ ResolvedPlaced
  BY DEF Init, HeldReconciled, ResolvedOnce, ResolvedPlaced
<1>5. SplitsPlaced /\ AcceptedAllocated /\ ConfirmedAccepted
  <2>1. \A s \in Splits : s[1] \in Orders
    BY StockAssumption DEF Splits
  <2> QED
    BY <2>1 DEF Init, SplitsPlaced, AcceptedAllocated, ConfirmedAccepted
<1> QED
  BY <1>1, <1>3, <1>4, <1>5 DEF StockInv

\* A step that touches neither the held buckets, nor the reservations, nor the
\* statuses keeps the invariant.
LEMMA FrameStockInv ==
  ASSUME StockInv, TypeOK',
         UNCHANGED <<orderStatus, splitStatus, releasedAt, allocatedAt>>,
         \A b \in {"RESERVED", "ALLOCATED"} :
            balance'[b] = balance[b] /\ ledger'[b] = ledger[b]
  PROVE  StockInv'
<1>1. Placed' = Placed /\ Live' = Live
  BY DEF Placed, Live
<1>2. ReservedBacked' /\ AllocatedBacked'
  BY <1>1 DEF StockInv, ReservedBacked, AllocatedBacked
<1>3. HeldReconciled'
  BY DEF StockInv, HeldReconciled
<1>4. ResolvedOnce' /\ ResolvedPlaced'
  BY <1>1 DEF StockInv, ResolvedOnce, ResolvedPlaced
<1>5. SplitsPlaced' /\ AcceptedAllocated' /\ ConfirmedAccepted'
  BY DEF StockInv, SplitsPlaced, AcceptedAllocated, ConfirmedAccepted
<1> QED
  BY <1>2, <1>3, <1>4, <1>5 DEF StockInv

\* checkout: the lines of the new order become live, and their quantity enters
\* the RESERVED row.
LEMMA CheckoutStockInv ==
  ASSUME StockInv, TypeOK', NEW o \in Orders, Checkout(o)
  PROVE  StockInv'
<1> DEFINE L == LinesOfOrder(o)
<1>1. L \subseteq Lines /\ L \cap Placed = {}
  BY DEF LinesOfOrder, Placed, Checkout
<1>2. Placed' = Placed \cup L
  <2>1. orderStatus \in [Orders -> {"NONE", "PENDING", "CONFIRMED"}]
    BY DEF StockInv, TypeOK
  <2> QED
    BY <2>1, StockAssumption DEF Placed, LinesOfOrder, Checkout
<1>3. releasedAt' = releasedAt /\ allocatedAt' = allocatedAt
  BY DEF Checkout, reservationVars
<1>4. Live' = Live \cup L /\ Live \cap L = {} /\ ResolvedPlaced'
  BY <1>1, <1>2, <1>3 DEF Live, StockInv, ResolvedPlaced
<1>5. /\ \A i \in Items : balance'["RESERVED"][i] = balance["RESERVED"][i] + Qty(L, i)
      /\ \A i \in Items : ledger'["RESERVED"][i] = ledger["RESERVED"][i] + Qty(L, i)
      /\ balance'["ALLOCATED"] = balance["ALLOCATED"]
      /\ ledger'["ALLOCATED"] = ledger["ALLOCATED"]
  BY BookEffect, BookElsewhere, BucketNames DEF Checkout, StockInv
<1>6. ReservedBacked'
  BY <1>4, <1>5, QtyUnion DEF ReservedBacked, StockInv
<1>7. AllocatedBacked' /\ ResolvedOnce'
  BY <1>3, <1>5 DEF AllocatedBacked, ResolvedOnce, StockInv
<1>8. HeldReconciled'
  <2>1. /\ balance'["RESERVED"] \in [Items -> Int]
        /\ ledger'["RESERVED"] \in [Items -> Int]
    BY DEF TypeOK, Buckets
  <2>2. \A i \in Items : balance'["RESERVED"][i] = ledger'["RESERVED"][i]
    BY <1>5 DEF StockInv, HeldReconciled
  <2> QED
    BY <1>5, <2>1, <2>2 DEF StockInv, HeldReconciled
<1>9. SplitsPlaced' /\ AcceptedAllocated' /\ ConfirmedAccepted'
  <2>1. \A s \in Splits : s[1] \in Orders
    BY StockAssumption DEF Splits
  <2> QED
    BY <1>3, <2>1 DEF Checkout, StockInv, TypeOK, SplitsPlaced, AcceptedAllocated, ConfirmedAccepted
<1> QED
  BY <1>4, <1>6, <1>7, <1>8, <1>9 DEF StockInv

\* acceptPurchaseOrder: live lines become allocated, and their quantity moves
\* from the RESERVED to the ALLOCATED row.
LEMMA AcceptStockInv ==
  ASSUME StockInv, TypeOK', NEW s \in Splits, AcceptPurchaseOrder(s)
  PROVE  StockInv'
<1> DEFINE L == LinesOfSplit(s)
<1> USE DEF StockInv
<1>1. L \subseteq Live /\ L \cap allocatedAt = {} /\ L \cap releasedAt = {}
  BY DEF AcceptPurchaseOrder, Live
<1>2. s[1] \in Orders /\ orderStatus[s[1]] # "NONE"
  <2>1. s[1] \in Orders
    BY StockAssumption DEF Splits
  <2> QED
    BY <2>1 DEF AcceptPurchaseOrder, SplitsPlaced
<1>3. Placed' = Placed
  <2>1. \A o \in Orders : orderStatus'[o] = "NONE" <=> orderStatus[o] = "NONE"
    BY <1>2 DEF AcceptPurchaseOrder, TypeOK
  <2> QED
    BY <2>1, StockAssumption DEF Placed
<1>4. releasedAt' = releasedAt /\ allocatedAt' = allocatedAt \cup L
  BY DEF AcceptPurchaseOrder
<1>5. Live' = Live \ L /\ ResolvedPlaced' /\ ResolvedOnce'
  BY <1>1, <1>3, <1>4 DEF Live, ResolvedPlaced, ResolvedOnce
<1>6. /\ \A i \in Items :
            /\ balance'["RESERVED"][i] = balance["RESERVED"][i] - Qty(L, i)
            /\ ledger'["RESERVED"][i] = ledger["RESERVED"][i] - Qty(L, i)
            /\ balance'["ALLOCATED"][i] = balance["ALLOCATED"][i] + Qty(L, i)
            /\ ledger'["ALLOCATED"][i] = ledger["ALLOCATED"][i] + Qty(L, i)
  BY BookEffect, BucketNames DEF AcceptPurchaseOrder
<1>7. ReservedBacked'
  BY <1>1, <1>5, <1>6, QtyDifference DEF ReservedBacked
<1>8. AllocatedBacked'
  BY <1>1, <1>4, <1>6, QtyUnion DEF AllocatedBacked
<1>9. HeldReconciled'
  <2>1. \A b \in {"RESERVED", "ALLOCATED"} :
           balance'[b] \in [Items -> Int] /\ ledger'[b] \in [Items -> Int]
    BY DEF TypeOK, Buckets
  <2>2. \A b \in {"RESERVED", "ALLOCATED"} : \A i \in Items : balance'[b][i] = ledger'[b][i]
    BY <1>6 DEF HeldReconciled
  <2> QED
    BY <2>1, <2>2 DEF HeldReconciled
<1>10. splitStatus' = [splitStatus EXCEPT ![s] = "ACCEPTED"]
  BY DEF AcceptPurchaseOrder
<1>11. AcceptedAllocated'
  BY <1>4, <1>10 DEF AcceptedAllocated, TypeOK
<1>12. SplitsPlaced' /\ ConfirmedAccepted'
  <2>1. \A t \in Splits : t[1] \in Orders
    BY StockAssumption DEF Splits
  <2>2. SplitsPlaced'
    BY <1>2, <1>10, <2>1 DEF AcceptPurchaseOrder, SplitsPlaced, TypeOK
  <2>3. ASSUME NEW o \in Orders, orderStatus'[o] = "CONFIRMED",
               NEW t \in Splits, t[1] = o
        PROVE  splitStatus'[t] = "ACCEPTED"
    <3>1. CASE orderStatus[o] = "CONFIRMED"
      BY <1>10, <2>3, <3>1 DEF ConfirmedAccepted, TypeOK
    <3>2. CASE orderStatus[o] # "CONFIRMED"
      <4>1. o = s[1] /\ splitStatus'[t] # "PENDING"
        BY <1>2, <2>3, <3>2 DEF AcceptPurchaseOrder, TypeOK
      <4>2. splitStatus'[t] # "NONE"
        BY <1>2, <1>10, <2>3, <4>1 DEF SplitsPlaced, TypeOK
      <4> QED
        BY <4>1, <4>2 DEF TypeOK
    <3> QED
      BY <3>1, <3>2
  <2> QED
    BY <2>2, <2>3 DEF ConfirmedAccepted
<1> QED
  BY <1>5, <1>7, <1>8, <1>9, <1>11, <1>12 DEF StockInv

\* releaseBatch: a reservation that was claimed leaves the live ones, and its
\* quantity leaves the RESERVED row.
LEMMA SweepStockInv ==
  ASSUME StockInv, TypeOK', NEW w \in Sweepers, NEW l \in Lines, SweepRelease(w, l)
  PROVE  StockInv'
<1> USE DEF orderVars, stockVars
<1>1. CASE UNCHANGED <<stockVars, releasedAt>>
  BY <1>1, FrameStockInv DEF SweepRelease
<1>2. CASE l \in Live /\ Book("RESERVED", "ON_HAND", {l}) /\ releasedAt' = releasedAt \cup {l}
  <2> USE DEF StockInv
  <2>1. UNCHANGED <<orderStatus, splitStatus, allocatedAt>>
    BY DEF SweepRelease
  <2>2. Placed' = Placed /\ Live' = Live \ {l} /\ ResolvedPlaced' /\ ResolvedOnce'
    BY <1>2, <2>1 DEF Placed, Live, ResolvedPlaced, ResolvedOnce
  <2>3. /\ \A i \in Items :
              /\ balance'["RESERVED"][i] = balance["RESERVED"][i] - Qty({l}, i)
              /\ ledger'["RESERVED"][i] = ledger["RESERVED"][i] - Qty({l}, i)
        /\ balance'["ALLOCATED"] = balance["ALLOCATED"]
        /\ ledger'["ALLOCATED"] = ledger["ALLOCATED"]
    BY <1>2, BookEffect, BookElsewhere, BucketNames
  <2>4. ReservedBacked'
    BY <1>2, <2>2, <2>3, QtyDifference DEF ReservedBacked
  <2>5. AllocatedBacked'
    BY <2>1, <2>3 DEF AllocatedBacked
  <2>6. HeldReconciled'
    <3>1. /\ balance'["RESERVED"] \in [Items -> Int]
          /\ ledger'["RESERVED"] \in [Items -> Int]
      BY DEF TypeOK, Buckets
    <3>2. \A i \in Items : balance'["RESERVED"][i] = ledger'["RESERVED"][i]
      BY <2>3 DEF HeldReconciled
    <3> QED
      BY <2>3, <3>1, <3>2 DEF HeldReconciled
  <2>7. SplitsPlaced' /\ AcceptedAllocated' /\ ConfirmedAccepted'
    BY <2>1 DEF SplitsPlaced, AcceptedAllocated, ConfirmedAccepted
  <2> QED
    BY <2>2, <2>4, <2>5, <2>6, <2>7
<1> QED
  BY <1>1, <1>2 DEF SweepRelease

\* Every step of every actor keeps the invariant.
LEMMA NextStockInv == StockInv /\ [Next]_vars => StockInv'
<1> SUFFICES ASSUME StockInv, [Next]_vars PROVE StockInv'
  OBVIOUS
<1> USE DEF stockVars, orderVars, reservationVars, sweepVars, feedVars, inboundVars, pickVars
<1>0. TypeOK /\ TypeOK'
  BY NextTypeOK DEF StockInv
<1>1. ASSUME NEW o \in Orders, Checkout(o) PROVE StockInv'
  BY <1>0, <1>1, CheckoutStockInv
<1>2. ASSUME NEW s \in Splits, AcceptPurchaseOrder(s) PROVE StockInv'
  BY <1>0, <1>2, AcceptStockInv
<1>3. ASSUME NEW l \in Lines, Expire(l) PROVE StockInv'
  BY <1>0, <1>3, FrameStockInv DEF Expire
<1>4. ASSUME NEW w \in Sweepers, SweepNext(w) PROVE StockInv'
  <2>1. CASE SweepRead(w)
    BY <1>0, <2>1, FrameStockInv DEF SweepRead
  <2>2. ASSUME NEW l \in Lines, SweepRelease(w, l) PROVE StockInv'
    BY <1>0, <2>2, SweepStockInv
  <2>3. CASE SweepCrash(w)
    BY <1>0, <2>3, FrameStockInv DEF SweepCrash
  <2> QED
    BY <1>4, <2>1, <2>2, <2>3 DEF SweepNext
<1>5. ASSUME NEW f \in Feeds, FeedNext(f) PROVE StockInv'
  <2>1. CASE FeedBegin(f)
    BY <1>0, <2>1, FrameStockInv DEF FeedBegin
  <2>2. CASE FeedCommit(f)
    <3>1. \A b \in {"RESERVED", "ALLOCATED"} :
             balance'[b] = balance[b] /\ ledger'[b] = ledger[b]
      BY <1>0, <2>2 DEF FeedCommit, TypeOK, Buckets
    <3> QED
      BY <1>0, <2>2, <3>1, FrameStockInv DEF FeedCommit
  <2>3. CASE FeedAbort(f)
    BY <1>0, <2>3, FrameStockInv DEF FeedAbort
  <2> QED
    BY <1>5, <2>1, <2>2, <2>3 DEF FeedNext
<1>6. ASSUME NEW i, NEW n, BookInbound(i, n),
             UNCHANGED <<orderStatus, splitStatus, releasedAt, allocatedAt>>
      PROVE  StockInv'
  <2>1. \A b \in {"RESERVED", "ALLOCATED"} :
           balance'[b] = balance[b] /\ ledger'[b] = ledger[b]
    BY <1>0, <1>6 DEF BookInbound, TypeOK, Buckets
  <2> QED
    BY <1>0, <1>6, <2>1, FrameStockInv
<1>7. ASSUME NEW r \in Receipts, ReceiveAsn(r) PROVE StockInv'
  BY <1>6, <1>7 DEF ReceiveAsn
<1>8. ASSUME NEW l \in Lines, RestockReturn(l) PROVE StockInv'
  BY <1>6, <1>8 DEF RestockReturn
<1>9. ASSUME NEW s \in Splits, CreateFulfillment(s) PROVE StockInv'
  BY <1>0, <1>9, FrameStockInv DEF CreateFulfillment
<1>10. ASSUME NEW p \in Pickers, PickNext(p) PROVE StockInv'
  <2>1. ASSUME NEW s \in Splits, PickCheck(p, s) PROVE StockInv'
    BY <1>0, <2>1, FrameStockInv DEF PickCheck
  <2>2. CASE PickRead(p)
    BY <1>0, <2>2, FrameStockInv DEF PickRead
  <2>3. CASE PickCommit(p)
    <3>1. \A b \in {"RESERVED", "ALLOCATED"} :
             balance'[b] = balance[b] /\ ledger'[b] = ledger[b]
      <4>1. balance' = Moved(balance, "ON_HAND", "PICKED", LinesOfSplit(pickSplit[p]))
            /\ ledger' = ledger
        BY <2>3 DEF PickCommit
      <4>2. balance \in [Buckets -> [Items -> Int]]
        BY <1>0 DEF TypeOK
      <4> QED
        BY <4>1, <4>2, MovedElsewhere, BucketNames
    <3> QED
      BY <1>0, <2>3, <3>1, FrameStockInv DEF PickCommit
  <2>4. CASE PickAbort(p)
    BY <1>0, <2>4, FrameStockInv DEF PickAbort
  <2> QED
    BY <1>10, <2>1, <2>2, <2>3, <2>4 DEF PickNext
<1>11. CASE UNCHANGED vars
  BY <1>0, <1>11, FrameStockInv DEF vars
<1> QED
  BY <1>1, <1>2, <1>3, <1>4, <1>5, <1>7, <1>8, <1>9, <1>10, <1>11
  DEF Next, CommerceNext, InboundNext

\* The invariant holds in every reachable state.
LEMMA StockInvariant == Spec => []StockInv
<1>1. Init => StockInv
  BY InitStockInv
<1>2. StockInv /\ [Next]_vars => StockInv'
  BY NextStockInv
<1> QED
  BY <1>1, <1>2, PTL DEF Spec

\* A RESERVED row is always the sum of the live reservations, so releaseBatch
\* never finds a reservation without its balance and never abandons a batch.
THEOREM StockReservedBacked == Spec => []ReservedBacked
<1>1. StockInv => ReservedBacked
  BY DEF StockInv
<1> QED
  BY <1>1, StockInvariant, PTL

\* An ALLOCATED row is always the sum of the accepted lines.
THEOREM StockAllocatedBacked == Spec => []AllocatedBacked
<1>1. StockInv => AllocatedBacked
  BY DEF StockInv
<1> QED
  BY <1>1, StockInvariant, PTL

\* No reservation is both released by a sweeper and allocated by a supplier.
THEOREM StockResolvedOnce == Spec => []ResolvedOnce
<1>1. StockInv => ResolvedOnce
  BY DEF StockInv
<1> QED
  BY <1>1, StockInvariant, PTL

\* The RESERVED and ALLOCATED rows agree with the ledger at every instant,
\* whatever feeds and pickers do.
THEOREM StockHeldReconciled == Spec => []HeldReconciled
<1>1. StockInv => HeldReconciled
  BY DEF StockInv
<1> QED
  BY <1>1, StockInvariant, PTL

\* A confirmed order owns allocated stock for every one of its lines.
THEOREM StockConfirmedFullyAllocated == Spec => []ConfirmedFullyAllocated
<1>1. ASSUME StockInv PROVE ConfirmedFullyAllocated
  <2> SUFFICES ASSUME NEW o \in Orders, orderStatus[o] = "CONFIRMED",
                      NEW l \in LinesOfOrder(o)
               PROVE  l \in allocatedAt
    BY DEF ConfirmedFullyAllocated
  <2> DEFINE s == <<LineOrder[l], LineVendor[l]>>
  <2>1. l \in Lines /\ s[1] = o /\ s \in Splits /\ l \in LinesOfSplit(s)
    BY DEF LinesOfOrder, LinesOfSplit, Splits
  <2>2. splitStatus[s] = "ACCEPTED"
    BY <1>1, <2>1 DEF StockInv, ConfirmedAccepted
  <2> QED
    BY <1>1, <2>1, <2>2 DEF StockInv, AcceptedAllocated
<1> QED
  BY <1>1, StockInvariant, PTL

-----------------------------------------------------------------------------
(* What holds as long as no pick and, for the ledger, no feed is running.  *)

\* A set of lines has no units of an item none of its lines is for.
LEMMA QtyOtherItem ==
  ASSUME NEW L, NEW i, i \notin ItemsOf(L)
  PROVE  Qty(L, i) = 0
<1>1. Units(L, i) = {}
  BY DEF Units, UnitsOf, ItemsOf
<1> QED
  BY <1>1, FS_EmptySet DEF Qty

\* A move that the row of every item covers leaves no row of the bucket it
\* takes from negative, if none was.
LEMMA BookCovered ==
  ASSUME TypeOK, NEW from \in Buckets, NEW to \in Buckets, from # to, NEW L,
         Book(from, to, L), NEW i \in Items, balance[from][i] >= 0
  PROVE  balance'[from][i] >= 0
<1>1. balance[from][i] \in Int /\ Qty(L, i) \in Nat
  BY QtyType DEF TypeOK
<1>2. balance'[from][i] = balance[from][i] - Qty(L, i)
  BY BookEffect
<1>3. Qty(L, i) <= balance[from][i]
  BY <1>1, QtyOtherItem DEF Book, Covers
<1> QED
  BY <1>1, <1>2, <1>3

\* Without picks no order of checkouts, sweeps, feeds and receipts ever drives
\* an ON_HAND row negative: checkout's conditional update is enough.
THEOREM StockNonNegative ==
  ASSUME Pickers = {}
  PROVE  Spec => []NonNegativeOnHand
<1> DEFINE Inv == TypeOK /\ NonNegativeOnHand
<1> USE DEF stockVars, orderVars, reservationVars, sweepVars, feedVars, inboundVars, pickVars
<1>1. Init => Inv
  BY InitTypeOK, StockAssumption DEF Init, NonNegativeOnHand, Buckets
<1>2. Inv /\ [Next]_vars => Inv'
  <2> SUFFICES ASSUME Inv, [Next]_vars PROVE NonNegativeOnHand'
    BY NextTypeOK
  <2>0. TypeOK /\ TypeOK'
    BY NextTypeOK
  <2>1. ASSUME balance' = balance PROVE NonNegativeOnHand'
    BY <2>1 DEF NonNegativeOnHand
  <2>2. ASSUME NEW o \in Orders, Checkout(o) PROVE NonNegativeOnHand'
    BY <2>0, <2>2, BookCovered, BucketNames DEF Checkout, NonNegativeOnHand
  <2>3. ASSUME NEW s \in Splits, AcceptPurchaseOrder(s) PROVE NonNegativeOnHand'
    <3>1. balance'["ON_HAND"] = balance["ON_HAND"]
      BY <2>0, <2>3, BookElsewhere, BucketNames DEF AcceptPurchaseOrder
    <3> QED
      BY <3>1 DEF NonNegativeOnHand
  <2>4. ASSUME NEW w \in Sweepers, SweepNext(w) PROVE NonNegativeOnHand'
    <3>1. CASE SweepRead(w) \/ SweepCrash(w)
      BY <2>1, <3>1 DEF SweepRead, SweepCrash
    <3>2. ASSUME NEW l \in Lines, SweepRelease(w, l), Book("RESERVED", "ON_HAND", {l})
          PROVE  NonNegativeOnHand'
      <4> SUFFICES ASSUME NEW i \in Items PROVE balance'["ON_HAND"][i] >= 0
        BY DEF NonNegativeOnHand
      <4>1. balance'["ON_HAND"][i] = balance["ON_HAND"][i] + Qty({l}, i)
        BY <2>0, <3>2, BookEffect, BucketNames
      <4>2. balance["ON_HAND"][i] \in Int /\ balance["ON_HAND"][i] >= 0
        BY <2>0, BucketNames DEF NonNegativeOnHand, TypeOK
      <4> QED
        BY <4>1, <4>2, QtyType
    <3> QED
      BY <2>1, <2>4, <3>1, <3>2 DEF SweepNext, SweepRelease
  <2>5. ASSUME NEW f \in Feeds, FeedNext(f) PROVE NonNegativeOnHand'
    <3>1. CASE FeedCommit(f)
      <4>1. FeedQty[f] \in Nat /\ FeedItem[f] \in Items
        BY StockAssumption
      <4> QED
        BY <2>0, <3>1, <4>1, BucketNames DEF FeedCommit, NonNegativeOnHand, TypeOK
    <3> QED
      BY <2>1, <2>5, <3>1 DEF FeedNext, FeedBegin, FeedAbort
  <2>6. ASSUME NEW i \in Items, NEW n \in Nat, BookInbound(i, n) PROVE NonNegativeOnHand'
    <3>1. \A j \in Items : balance["ON_HAND"][j] \in Int /\ balance["ON_HAND"][j] >= 0
      BY <2>0, BucketNames DEF NonNegativeOnHand, TypeOK
    <3> QED
      BY <2>0, <2>6, <3>1, BucketNames DEF BookInbound, NonNegativeOnHand, TypeOK
  <2>7. ASSUME NEW r \in Receipts, ReceiveAsn(r) PROVE NonNegativeOnHand'
    BY <2>6, <2>7, StockAssumption DEF ReceiveAsn
  <2>8. ASSUME NEW l \in Lines, RestockReturn(l) PROVE NonNegativeOnHand'
    BY <2>6, <2>8, StockAssumption DEF RestockReturn
  <2>9. CASE UNCHANGED vars \/ (\E l \in Lines : Expire(l))
              \/ (\E s \in Splits : CreateFulfillment(s))
    BY <2>1, <2>9 DEF vars, Expire, CreateFulfillment
  <2> QED
    BY <2>2, <2>3, <2>4, <2>5, <2>7, <2>8, <2>9 DEF Next, CommerceNext, InboundNext
<1>3. Inv => NonNegativeOnHand
  OBVIOUS
<1> HIDE DEF Inv
<1> QED
  BY <1>1, <1>2, <1>3, PTL DEF Spec

\* Without feeds and picks every balance row is the sum of its ledger entries at
\* every instant: the other writers book both in one transaction.
THEOREM StockReconciled ==
  ASSUME Pickers = {}, Feeds = {}
  PROVE  Spec => []Reconciled
<1> USE DEF stockVars, orderVars, reservationVars, sweepVars, feedVars, inboundVars, pickVars
<1>1. Init => Reconciled
  BY DEF Init, Reconciled
<1>2. Reconciled /\ [Next]_vars => Reconciled'
  <2> SUFFICES ASSUME Reconciled, [Next]_vars PROVE balance' = ledger'
    BY DEF Reconciled
  <2>1. ASSUME UNCHANGED stockVars PROVE balance' = ledger'
    BY <2>1 DEF Reconciled
  <2>2. ASSUME NEW from, NEW to, NEW L, Book(from, to, L) PROVE balance' = ledger'
    BY <2>2 DEF Book, Reconciled
  <2>3. ASSUME NEW i, NEW n, BookInbound(i, n) PROVE balance' = ledger'
    BY <2>3 DEF BookInbound, Reconciled
  <2>4. CASE CommerceNext
    BY <2>1, <2>2, <2>4 DEF CommerceNext, Checkout, AcceptPurchaseOrder, Expire
  <2>5. ASSUME NEW w \in Sweepers, SweepNext(w) PROVE balance' = ledger'
    BY <2>1, <2>2, <2>5 DEF SweepNext, SweepRead, SweepRelease, SweepCrash
  <2>6. CASE InboundNext
    BY <2>3, <2>6 DEF InboundNext, ReceiveAsn, RestockReturn
  <2>7. CASE UNCHANGED vars \/ \E s \in Splits : CreateFulfillment(s)
    BY <2>1, <2>7 DEF vars, CreateFulfillment
  <2> QED
    BY <2>4, <2>5, <2>6, <2>7 DEF Next
<1> QED
  BY <1>1, <1>2, PTL DEF Spec

-----------------------------------------------------------------------------
(* Conservation of units.                                                  *)

\* The units of one item in any set of lines (or receipts) are finitely many.
LEMMA UnitsFinite ==
  ASSUME NEW D, IsFiniteSet(D), NEW item, NEW qty, NEW S, NEW i
  PROVE  /\ IsFiniteSet(UnitsOf(D, S, item, qty, i))
         /\ Cardinality(UnitsOf(D, S, item, qty, i)) \in Nat
<1>1. IsFiniteSet(1..MaxQty)
  BY StockAssumption, FS_Interval
<1>2. IsFiniteSet(D \X (1..MaxQty))
  BY <1>1, FS_Product
<1>3. UnitsOf(D, S, item, qty, i) \subseteq D \X (1..MaxQty)
  BY DEF UnitsOf
<1>4. IsFiniteSet(UnitsOf(D, S, item, qty, i))
  BY <1>2, <1>3, FS_Subset
<1> QED
  BY <1>4, FS_CardinalityType

\* One line (or receipt) alone counts its quantity, for its own item only.
LEMMA UnitsSingle ==
  ASSUME NEW D, NEW item, NEW qty \in [D -> 1..MaxQty], NEW x \in D, NEW i
  PROVE  Cardinality(UnitsOf(D, {x}, item, qty, i)) = IF item[x] = i THEN qty[x] ELSE 0
<1> DEFINE N == UnitsOf(D, {x}, item, qty, i)
<1>1. CASE item[x] # i
  <2>1. N = {}
    BY <1>1 DEF UnitsOf
  <2> QED
    BY <1>1, <2>1, FS_EmptySet
<1>2. CASE item[x] = i
  <2>1. qty[x] \in 1..MaxQty /\ qty[x] \in Nat /\ qty[x] >= 1
    BY StockAssumption
  <2>2. N = {x} \X (1..qty[x])
    BY <1>2, <2>1, StockAssumption DEF UnitsOf
  <2>3. IsFiniteSet({x}) /\ Cardinality({x}) = 1
    BY FS_Singleton
  <2>4. IsFiniteSet(1..qty[x]) /\ Cardinality(1..qty[x]) = qty[x]
    BY <2>1, FS_Interval
  <2>5. Cardinality({x} \X (1..qty[x])) = Cardinality({x}) * Cardinality(1..qty[x])
    BY <2>3, <2>4, FS_Product
  <2>6. Cardinality(N) = 1 * qty[x]
    BY <2>2, <2>3, <2>4, <2>5, Zenon
  <2> QED
    BY <1>2, <2>1, <2>6
<1> QED
  BY <1>1, <1>2

\* Booking one more line (or receipt) adds what it counts alone.
LEMMA UnitsAdd ==
  ASSUME NEW D, IsFiniteSet(D), NEW item, NEW qty, NEW S, NEW x, x \notin S, NEW i
  PROVE  Cardinality(UnitsOf(D, S \cup {x}, item, qty, i)) =
           Cardinality(UnitsOf(D, S, item, qty, i))
           + Cardinality(UnitsOf(D, {x}, item, qty, i))
<1> DEFINE U == UnitsOf(D, S, item, qty, i)
           N == UnitsOf(D, {x}, item, qty, i)
<1>1. UnitsOf(D, S \cup {x}, item, qty, i) = U \cup N
  BY DEF UnitsOf
<1>2. U \cap N = {}
  BY DEF UnitsOf
<1>3. Cardinality(U \cap N) = 0
  BY <1>2, FS_EmptySet
<1>4. /\ IsFiniteSet(U) /\ IsFiniteSet(N)
      /\ Cardinality(U) \in Nat /\ Cardinality(N) \in Nat
  BY UnitsFinite
<1> HIDE DEF U, N
<1>5. Cardinality(U \cup N) = Cardinality(U) + Cardinality(N) - Cardinality(U \cap N)
  BY <1>4, FS_Union
<1>6. Cardinality(U \cup N) = Cardinality(U) + Cardinality(N)
  BY <1>3, <1>4, <1>5
<1> QED
  BY <1>1, <1>6 DEF U, N

\* A move between two buckets keeps the units of every item.
LEMMA MovedTotal ==
  ASSUME TypeOK, NEW from \in Buckets, NEW to \in Buckets, from # to, NEW L,
         balance' = Moved(balance, from, to, L), NEW i \in Items
  PROVE  Total(i)' = Total(i)
<1>1. balance \in [Buckets -> [Items -> Int]]
  BY DEF TypeOK
<1>2. /\ balance'[from][i] = balance[from][i] - Qty(L, i)
      /\ balance'[to][i] = balance[to][i] + Qty(L, i)
  BY <1>1, MovedEffect
<1>3. ASSUME NEW b \in Buckets, b # from, b # to PROVE balance'[b][i] = balance[b][i]
  BY <1>1, <1>3, MovedElsewhere
<1>4. Qty(L, i) \in Int /\ \A b \in Buckets : balance[b][i] \in Int
  BY <1>1, QtyType
<1> QED
  BY <1>2, <1>3, <1>4 DEF Total, Buckets

Fed(i) == \E f \in Feeds : FeedItem[f] = i /\ FeedKey[f] \in feedKeys

\* Whatever interleaves, an item no feed overwrote holds its initial stock plus
\* what was received and restocked: reservations, releases, allocations and
\* picks only move units between buckets, and each receipt counts once.
THEOREM StockUnitsConserved == Spec => []UnitsConserved
<1> DEFINE Inv == TypeOK /\ UnitsConserved
<1> USE DEF stockVars, orderVars, reservationVars, sweepVars, feedVars, inboundVars, pickVars
<1>1. Init => Inv
  <2> SUFFICES ASSUME Init, NEW i \in Items
               PROVE  Total(i) = InitialStock[i] + ReceivedQty(i) + Qty(restocked, i)
    BY InitTypeOK DEF UnitsConserved
  <2>1. ReceivedQty(i) = 0
    <3>1. UnitsOf(Receipts, {}, ReceiptItem, ReceiptQty, i) = {}
      BY DEF UnitsOf
    <3> QED
      BY <3>1, FS_EmptySet DEF Init, ReceivedQty
  <2>2. Qty(restocked, i) = 0
    BY QtyEmpty DEF Init
  <2>3. Total(i) = InitialStock[i] /\ InitialStock[i] \in Int
    BY StockAssumption DEF Init, Total, Buckets
  <2> QED
    BY <2>1, <2>2, <2>3
<1>2. Inv /\ [Next]_vars => Inv'
  <2> SUFFICES ASSUME Inv, [Next]_vars, NEW i \in Items, ~ Fed(i)'
               PROVE  Total(i)' = InitialStock[i] + ReceivedQty(i)' + Qty(restocked, i)'
    BY NextTypeOK DEF UnitsConserved, Fed
  <2>0. TypeOK /\ TypeOK' /\ feedKeys \subseteq feedKeys'
    BY NextTypeOK DEF Next, CommerceNext, Checkout, AcceptPurchaseOrder, Expire, SweepNext,
       SweepRead, SweepRelease, SweepCrash, FeedNext, FeedBegin, FeedCommit, FeedAbort,
       InboundNext, ReceiveAsn, RestockReturn, CreateFulfillment, PickNext, PickCheck,
       PickRead, PickCommit, PickAbort, vars
  <2>1. ~ Fed(i) /\ Total(i) = InitialStock[i] + ReceivedQty(i) + Qty(restocked, i)
    BY <2>0 DEF Fed, UnitsConserved
  <2>2. ASSUME Total(i)' = Total(i), UNCHANGED inboundVars
        PROVE  Total(i)' = InitialStock[i] + ReceivedQty(i)' + Qty(restocked, i)'
    BY <2>1, <2>2 DEF ReceivedQty
  <2>3. ASSUME balance' = balance PROVE Total(i)' = Total(i)
    BY <2>3 DEF Total
  <2>4. ASSUME NEW from \in Buckets, NEW to \in Buckets, from # to, NEW L, Book(from, to, L)
        PROVE  Total(i)' = Total(i)
    BY <2>0, <2>4, MovedTotal DEF Book
  <2>5. ASSUME NEW j \in Items, NEW n \in Int, BookInbound(j, n)
        PROVE  Total(i)' = Total(i) + (IF j = i THEN n ELSE 0) /\ Total(i) \in Int
    BY <2>0, <2>5 DEF Total, BookInbound, TypeOK, Buckets
  <2>6. CASE CommerceNext
    BY <2>2, <2>3, <2>4, <2>6, BucketNames DEF CommerceNext, Checkout, AcceptPurchaseOrder, Expire
  <2>7. ASSUME NEW w \in Sweepers, SweepNext(w)
        PROVE  Total(i)' = InitialStock[i] + ReceivedQty(i)' + Qty(restocked, i)'
    BY <2>2, <2>3, <2>4, <2>7, BucketNames DEF SweepNext, SweepRead, SweepRelease, SweepCrash
  <2>8. ASSUME NEW f \in Feeds, FeedNext(f)
        PROVE  Total(i)' = InitialStock[i] + ReceivedQty(i)' + Qty(restocked, i)'
    <3>1. CASE FeedCommit(f)
      <4>1. FeedItem[f] # i
        BY <3>1 DEF FeedCommit, Fed
      <4>2. \A b \in Buckets : balance'[b][i] = balance[b][i]
        BY <2>0, <3>1, <4>1, StockAssumption, BucketNames DEF FeedCommit, TypeOK
      <4> QED
        BY <2>2, <3>1, <4>2, BucketNames DEF Total, FeedCommit
    <3> QED
      BY <2>2, <2>3, <2>8, <3>1 DEF FeedNext, FeedBegin, FeedAbort
  <2>9. ASSUME NEW r \in Receipts, ReceiveAsn(r)
        PROVE  Total(i)' = InitialStock[i] + ReceivedQty(i)' + Qty(restocked, i)'
    <3>1. /\ ReceivedQty(i) \in Nat
          /\ ReceivedQty(i)' = ReceivedQty(i) + (IF ReceiptItem[r] = i THEN ReceiptQty[r] ELSE 0)
      <4>1. received' = received \cup {r} /\ r \notin received
        BY <2>9 DEF ReceiveAsn
      <4>2. IsFiniteSet(Receipts) /\ ReceiptQty \in [Receipts -> 1..MaxQty]
        BY StockAssumption
      <4>3. Cardinality(UnitsOf(Receipts, received \cup {r}, ReceiptItem, ReceiptQty, i)) =
              Cardinality(UnitsOf(Receipts, received, ReceiptItem, ReceiptQty, i))
              + Cardinality(UnitsOf(Receipts, {r}, ReceiptItem, ReceiptQty, i))
        BY <4>1, <4>2, UnitsAdd
      <4>4. Cardinality(UnitsOf(Receipts, {r}, ReceiptItem, ReceiptQty, i))
              = IF ReceiptItem[r] = i THEN ReceiptQty[r] ELSE 0
        BY <4>2, UnitsSingle
      <4>5. ReceivedQty(i) \in Nat
        BY <4>2, UnitsFinite DEF ReceivedQty
      <4> QED
        BY <4>1, <4>3, <4>4, <4>5 DEF ReceivedQty
    <3>2. /\ ReceiptItem[r] \in Items /\ ReceiptQty[r] \in Int
          /\ InitialStock[i] \in Int /\ Qty(restocked, i) \in Int
      BY StockAssumption, QtyType
    <3>3. Total(i)' = Total(i) + (IF ReceiptItem[r] = i THEN ReceiptQty[r] ELSE 0)
      BY <2>5, <2>9, <3>2 DEF ReceiveAsn
    <3>4. restocked' = restocked
      BY <2>9 DEF ReceiveAsn
    <3> QED
      BY <2>1, <3>1, <3>2, <3>3, <3>4
  <2>10. ASSUME NEW l \in Lines, RestockReturn(l)
         PROVE  Total(i)' = InitialStock[i] + ReceivedQty(i)' + Qty(restocked, i)'
    <3>1. /\ Qty(restocked, i) \in Nat
          /\ Qty(restocked, i)' = Qty(restocked, i) + (IF LineItem[l] = i THEN LineQty[l] ELSE 0)
      <4>1. restocked' = restocked \cup {l} /\ l \notin restocked
        BY <2>10 DEF RestockReturn
      <4>2. IsFiniteSet(Lines) /\ LineQty \in [Lines -> 1..MaxQty]
        BY StockAssumption
      <4>3. Cardinality(UnitsOf(Lines, restocked \cup {l}, LineItem, LineQty, i)) =
              Cardinality(UnitsOf(Lines, restocked, LineItem, LineQty, i))
              + Cardinality(UnitsOf(Lines, {l}, LineItem, LineQty, i))
        BY <4>1, <4>2, UnitsAdd
      <4>4. Cardinality(UnitsOf(Lines, {l}, LineItem, LineQty, i))
              = IF LineItem[l] = i THEN LineQty[l] ELSE 0
        BY <4>2, UnitsSingle
      <4>5. Qty(restocked, i) \in Nat
        BY QtyType
      <4> QED
        BY <4>1, <4>3, <4>4, <4>5 DEF Qty, Units
    <3>2. /\ LineItem[l] \in Items /\ LineQty[l] \in Int /\ InitialStock[i] \in Int
      BY StockAssumption
    <3>3. Total(i)' = Total(i) + (IF LineItem[l] = i THEN LineQty[l] ELSE 0) /\ Total(i) \in Int
      BY <2>5, <2>10, <3>2 DEF RestockReturn
    <3>4. ReceivedQty(i)' = ReceivedQty(i)
      BY <2>10 DEF RestockReturn, ReceivedQty
    <3>5. ReceivedQty(i) \in Nat
      BY StockAssumption, UnitsFinite DEF ReceivedQty
    <3> QED
      BY <2>1, <3>1, <3>2, <3>3, <3>4, <3>5
  <2>11. ASSUME NEW p \in Pickers, PickNext(p)
         PROVE  Total(i)' = InitialStock[i] + ReceivedQty(i)' + Qty(restocked, i)'
    <3>1. CASE PickCommit(p)
      BY <2>0, <2>2, <3>1, MovedTotal, BucketNames DEF PickCommit
    <3> QED
      BY <2>2, <2>3, <2>11, <3>1 DEF PickNext, PickCheck, PickRead, PickAbort
  <2>12. CASE UNCHANGED vars \/ \E s \in Splits : CreateFulfillment(s)
    BY <2>2, <2>3, <2>12 DEF vars, CreateFulfillment
  <2> QED
    BY <2>6, <2>7, <2>8, <2>9, <2>10, <2>11, <2>12 DEF Next, InboundNext
<1>3. Inv => UnitsConserved
  OBVIOUS
<1> HIDE DEF Inv
<1> QED
  BY <1>1, <1>2, <1>3, PTL DEF Spec

-----------------------------------------------------------------------------
(* Where stock can be misstated.                                           *)

\* A pair of conditional updates that takes from or adds to ON_HAND moves the
\* row and its ledger by the same amount, and leaves PICKED alone.
LEMMA BookKeepsRecord ==
  ASSUME TypeOK, NEW from \in Buckets \ {"PICKED"}, NEW to \in Buckets \ {"PICKED"},
         from # to, NEW L, Book(from, to, L), NEW i \in Items
  PROVE  Unrecorded(i)' = Unrecorded(i)
<1>1. /\ balance["ON_HAND"][i] \in Int /\ ledger["ON_HAND"][i] \in Int
      /\ balance["PICKED"][i] \in Int /\ Qty(L, i) \in Nat
  BY QtyType, BucketNames DEF TypeOK
<1>2. balance'["PICKED"] = balance["PICKED"]
  BY BookElsewhere, BucketNames
<1>3. CASE from = "ON_HAND"
  BY <1>1, <1>2, <1>3, BookEffect, BucketNames DEF Unrecorded
<1>4. CASE to = "ON_HAND"
  BY <1>1, <1>2, <1>4, BookEffect, BucketNames DEF Unrecorded
<1>5. CASE from # "ON_HAND" /\ to # "ON_HAND"
  BY <1>2, <1>5, BookElsewhere, BucketNames DEF Unrecorded
<1> QED
  BY <1>3, <1>4, <1>5

\* A feed commits: its row parts from the ledger by what was written after its
\* read, and holds the quantity of the feed.
LEMMA FeedCommitMisstates ==
  ASSUME TypeOK, NEW f \in Feeds, FeedCommit(f)
  PROVE  PartsOnlyByAFeed /\ FallsBelowOnlyByAPick
<1>1. FeedItem[f] \in Items /\ FeedQty[f] \in Nat /\ feedSeen[f] \in Int
  BY StockAssumption DEF TypeOK
<1>2. ASSUME NEW i \in Items
      PROVE  /\ balance["ON_HAND"][i] \in Int /\ ledger["ON_HAND"][i] \in Int
             /\ balance["PICKED"][i] \in Int
             /\ balance'["PICKED"][i] = balance["PICKED"][i]
             /\ i # FeedItem[f] => /\ balance'["ON_HAND"][i] = balance["ON_HAND"][i]
                                   /\ ledger'["ON_HAND"][i] = ledger["ON_HAND"][i]
             /\ i = FeedItem[f] =>
                  /\ balance'["ON_HAND"][i] = FeedQty[f]
                  /\ ledger'["ON_HAND"][i] = ledger["ON_HAND"][i] + (FeedQty[f] - feedSeen[f])
  BY <1>1, BucketNames DEF TypeOK, FeedCommit
<1>3. FallsBelowOnlyByAPick
  BY <1>1, <1>2 DEF FallsBelowOnlyByAPick
<1>4. ASSUME NEW i \in Items, Unrecorded(i)' # Unrecorded(i)
      PROVE  /\ FeedItem[f] = i /\ FeedOvertaken(f)
             /\ Unrecorded(i)' = Unrecorded(i) + feedSeen[f] - balance["ON_HAND"][i]
  <2>1. i = FeedItem[f]
    BY <1>2, <1>4 DEF Unrecorded
  <2>2. Unrecorded(i)' = Unrecorded(i) + feedSeen[f] - balance["ON_HAND"][i]
    BY <1>1, <1>2, <2>1 DEF Unrecorded
  <2>3. Unrecorded(i) \in Int
    BY <1>2 DEF Unrecorded
  <2>4. feedSeen[f] # balance["ON_HAND"][i]
    BY <1>1, <1>2, <1>4, <2>2, <2>3
  <2> QED
    BY <2>1, <2>2, <2>4 DEF FeedOvertaken, FeedCommit
<1>5. PartsOnlyByAFeed
  BY <1>4 DEF PartsOnlyByAFeed
<1> QED
  BY <1>3, <1>5

\* A pick commits: it moves units between ON_HAND and PICKED, and takes more
\* than there is only of a row it read before it changed.
LEMMA PickCommitMisstates ==
  ASSUME TypeOK, NEW p \in Pickers, PickCommit(p)
  PROVE  PartsOnlyByAFeed /\ FallsBelowOnlyByAPick
<1> DEFINE L == LinesOfSplit(pickSplit[p])
<1>1. balance \in [Buckets -> [Items -> Int]] /\ ledger' = ledger
  BY DEF TypeOK, PickCommit
<1>2. ASSUME NEW i \in Items
      PROVE  /\ balance["ON_HAND"][i] \in Int /\ ledger["ON_HAND"][i] \in Int
             /\ balance["PICKED"][i] \in Int /\ Qty(L, i) \in Nat
             /\ balance'["ON_HAND"][i] = balance["ON_HAND"][i] - Qty(L, i)
             /\ balance'["PICKED"][i] = balance["PICKED"][i] + Qty(L, i)
  <2>1. balance' = Moved(balance, "ON_HAND", "PICKED", L)
    BY DEF PickCommit
  <2>2. /\ Moved(balance, "ON_HAND", "PICKED", L)["ON_HAND"][i]
              = balance["ON_HAND"][i] - Qty(L, i)
        /\ Moved(balance, "ON_HAND", "PICKED", L)["PICKED"][i]
              = balance["PICKED"][i] + Qty(L, i)
    BY <1>1, MovedEffect, BucketNames
  <2>3. /\ balance["ON_HAND"][i] \in Int /\ ledger["ON_HAND"][i] \in Int
        /\ balance["PICKED"][i] \in Int
    BY BucketNames DEF TypeOK
  <2> QED
    BY <2>1, <2>2, <2>3, QtyType
<1>3. \A i \in Items : Unrecorded(i)' = Unrecorded(i)
  BY <1>1, <1>2 DEF Unrecorded
<1>4. ASSUME NEW i \in Items, balance'["ON_HAND"][i] < 0,
             balance'["ON_HAND"][i] < balance["ON_HAND"][i]
      PROVE  PickOvertaken(p, i)
  <2>1. i \in ItemsOf(L)
    BY <1>2, <1>4, QtyOtherItem
  <2>2. Qty(L, i) <= pickSeen[p][i] /\ pick[p] = "read"
    BY <2>1 DEF PickCommit
  <2>3. pickSeen[p][i] \in Int
    BY DEF TypeOK
  <2> QED
    BY <1>2, <1>4, <2>2, <2>3 DEF PickOvertaken
<1> QED
  BY <1>3, <1>4 DEF PartsOnlyByAFeed, FallsBelowOnlyByAPick

\* No other step misstates anything.
LEMMA NextMisstates ==
  ASSUME TypeOK, [Next]_vars
  PROVE  PartsOnlyByAFeed /\ FallsBelowOnlyByAPick
<1> USE DEF stockVars, orderVars, reservationVars, sweepVars, feedVars, inboundVars, pickVars
<1> DEFINE Goal == PartsOnlyByAFeed /\ FallsBelowOnlyByAPick
<1>0. ASSUME \A i \in Items : Unrecorded(i)' = Unrecorded(i),
             \A i \in Items : balance'["ON_HAND"][i] < 0 =>
                ~ (balance'["ON_HAND"][i] < balance["ON_HAND"][i])
      PROVE  Goal
  BY <1>0 DEF PartsOnlyByAFeed, FallsBelowOnlyByAPick
<1>1. ASSUME UNCHANGED stockVars PROVE Goal
  <2>1. \A i \in Items : balance["ON_HAND"][i] \in Int
    BY BucketNames DEF TypeOK
  <2>2. \A i \in Items : Unrecorded(i)' = Unrecorded(i)
    BY <1>1 DEF Unrecorded
  <2> QED
    BY <1>0, <1>1, <2>1, <2>2
<1>2. ASSUME NEW i \in Items, NEW n \in Nat, BookInbound(i, n) PROVE Goal
  <2>1. ASSUME NEW j \in Items
        PROVE  /\ balance["ON_HAND"][j] \in Int /\ ledger["ON_HAND"][j] \in Int
               /\ balance["PICKED"][j] \in Int
               /\ balance'["PICKED"][j] = balance["PICKED"][j]
               /\ balance'["ON_HAND"][j] = balance["ON_HAND"][j] + (IF j = i THEN n ELSE 0)
               /\ ledger'["ON_HAND"][j] = ledger["ON_HAND"][j] + (IF j = i THEN n ELSE 0)
    BY <1>2, BucketNames DEF TypeOK, BookInbound
  <2>2. \A j \in Items : Unrecorded(j)' = Unrecorded(j)
    BY <2>1 DEF Unrecorded
  <2>3. \A j \in Items : ~ (balance'["ON_HAND"][j] < balance["ON_HAND"][j])
    BY <2>1
  <2> QED
    BY <1>0, <2>2, <2>3
<1>3. ASSUME NEW o \in Orders, Checkout(o) PROVE Goal
  <2> DEFINE L == LinesOfOrder(o)
  <2>1. Book("ON_HAND", "RESERVED", L)
    BY <1>3 DEF Checkout
  <2>2. \A i \in Items : Unrecorded(i)' = Unrecorded(i)
    BY <2>1, BookKeepsRecord, BucketNames
  <2>3. ASSUME NEW i \in Items, balance'["ON_HAND"][i] < 0,
               balance'["ON_HAND"][i] < balance["ON_HAND"][i]
        PROVE  FALSE
    <3>1. /\ balance["ON_HAND"][i] \in Int /\ Qty(L, i) \in Nat
          /\ balance'["ON_HAND"][i] = balance["ON_HAND"][i] - Qty(L, i)
      BY <2>1, BookEffect, QtyType, BucketNames DEF TypeOK
    <3>2. i \in ItemsOf(L)
      BY <2>3, <3>1, QtyOtherItem
    <3>3. Qty(L, i) <= balance["ON_HAND"][i]
      BY <2>1, <3>2 DEF Book, Covers
    <3> QED
      BY <2>3, <3>1, <3>3
  <2> QED
    BY <1>0, <2>2, <2>3
<1>4. ASSUME NEW s \in Splits, AcceptPurchaseOrder(s) PROVE Goal
  <2>1. Book("RESERVED", "ALLOCATED", LinesOfSplit(s))
    BY <1>4 DEF AcceptPurchaseOrder
  <2>2. \A i \in Items : Unrecorded(i)' = Unrecorded(i)
    BY <2>1, BookKeepsRecord, BucketNames
  <2>3. balance'["ON_HAND"] = balance["ON_HAND"]
    BY <2>1, BookElsewhere, BucketNames
  <2>4. \A i \in Items : balance["ON_HAND"][i] \in Int
    BY BucketNames DEF TypeOK
  <2> QED
    BY <1>0, <2>2, <2>3, <2>4
<1>5. ASSUME NEW w \in Sweepers, SweepNext(w) PROVE Goal
  <2>1. CASE SweepRead(w) \/ SweepCrash(w)
    BY <1>1, <2>1 DEF SweepRead, SweepCrash
  <2>2. ASSUME NEW l \in Lines, SweepRelease(w, l), Book("RESERVED", "ON_HAND", {l})
        PROVE  Goal
    <3>1. \A i \in Items : Unrecorded(i)' = Unrecorded(i)
      BY <2>2, BookKeepsRecord, BucketNames
    <3>2. ASSUME NEW i \in Items
          PROVE  ~ (balance'["ON_HAND"][i] < balance["ON_HAND"][i])
      <4>1. balance'["ON_HAND"][i] = balance["ON_HAND"][i] + Qty({l}, i)
        BY <2>2, BookEffect, BucketNames
      <4>2. balance["ON_HAND"][i] \in Int /\ Qty({l}, i) \in Nat
        BY QtyType, BucketNames DEF TypeOK
      <4> QED
        BY <4>1, <4>2
    <3> QED
      BY <1>0, <3>1, <3>2
  <2> QED
    BY <1>1, <1>5, <2>1, <2>2 DEF SweepNext, SweepRelease
<1>6. ASSUME NEW f \in Feeds, FeedNext(f) PROVE Goal
  BY <1>1, <1>6, FeedCommitMisstates DEF FeedNext, FeedBegin, FeedAbort
<1>7. CASE InboundNext
  <2>1. ASSUME NEW r \in Receipts, ReceiveAsn(r) PROVE Goal
    BY <1>2, <2>1, StockAssumption DEF ReceiveAsn
  <2>2. ASSUME NEW l \in Lines, RestockReturn(l) PROVE Goal
    BY <1>2, <2>2, StockAssumption DEF RestockReturn
  <2> QED
    BY <1>7, <2>1, <2>2 DEF InboundNext
<1>8. ASSUME NEW p \in Pickers, PickNext(p) PROVE Goal
  BY <1>1, <1>8, PickCommitMisstates DEF PickNext, PickCheck, PickRead, PickAbort
<1>9. CASE UNCHANGED vars \/ (\E l \in Lines : Expire(l))
           \/ (\E s \in Splits : CreateFulfillment(s))
  BY <1>1, <1>9 DEF vars, Expire, CreateFulfillment
<1> QED
  BY <1>3, <1>4, <1>5, <1>6, <1>7, <1>8, <1>9 DEF Next, CommerceNext

\* For any number of feeds, pickers, sweepers and orders: ON_HAND parts from its
\* ledger only by a feed that overwrites what it did not read, by exactly that,
\* and falls below zero only by a pick of a row that changed under it.
THEOREM StockMisstatedOnlyInARace == Spec => MisstatedOnlyInARace
<1>1. TypeOK /\ [Next]_vars => PartsOnlyByAFeed /\ FallsBelowOnlyByAPick
  BY NextMisstates
<1> QED
  BY <1>1, StockTypeOK, PTL DEF Spec, MisstatedOnlyInARace

-----------------------------------------------------------------------------
\* What was sold is backed: the conjunction of the facts above.
THEOREM StockSoldIsBacked == Spec => []SoldIsBacked
<1>1. TypeOK /\ ReservedBacked /\ AllocatedBacked /\ ResolvedOnce /\ ConfirmedFullyAllocated
        => SoldIsBacked
  BY DEF SoldIsBacked
<1> QED
  BY <1>1, StockTypeOK, StockReservedBacked, StockAllocatedBacked, StockResolvedOnce,
     StockConfirmedFullyAllocated, PTL

\* Units neither appear nor vanish: the ledger of held stock and the total.
THEOREM StockUnitsKept == Spec => []UnitsKept
<1>1. HeldReconciled /\ UnitsConserved => UnitsKept
  BY DEF UnitsKept
<1> QED
  BY <1>1, StockHeldReconciled, StockUnitsConserved, PTL

\* Where no pick and no feed runs, every balance is the sum of its ledger
\* entries and nothing is sold that is not there.
THEOREM StockLedgerHolds ==
  ASSUME Pickers = {}, Feeds = {}
  PROVE  Spec => []LedgerHolds
<1>1. Reconciled /\ NonNegativeOnHand => LedgerHolds
  BY DEF LedgerHolds
<1>2. Spec => []Reconciled
  BY StockReconciled
<1>3. Spec => []NonNegativeOnHand
  BY StockNonNegative
<1> QED
  BY <1>1, <1>2, <1>3, PTL

-----------------------------------------------------------------------------
(***************************************************************************)
(* Stock implements Reservations.  The refinement needs one fact beyond    *)
(* StockInv: a line is allocated only with its purchase order, so that the *)
(* last purchase order and the last line of an order are reached in the    *)
(* same step.                                                              *)
(***************************************************************************)
AllocatedAccepted ==
    \A l \in allocatedAt : splitStatus[<<LineOrder[l], LineVendor[l]>>] = "ACCEPTED"

RefinementInv == StockInv /\ AllocatedAccepted

Abstract == <<[l \in Lines |-> Fate(l)], Confirmed>>

-----------------------------------------------------------------------------
LEMMA SplitOfLine ==
  ASSUME NEW l \in Lines
  PROVE  /\ <<LineOrder[l], LineVendor[l]>> \in Splits
         /\ l \in LinesOfSplit(<<LineOrder[l], LineVendor[l]>>)
BY DEF Splits, LinesOfSplit

\* Apart from checkouts and acceptances nobody touches the statuses or
\* allocates a line; releases only add to releasedAt.
LEMMA OtherSteps ==
  ASSUME TypeOK, [Next]_vars,
         \A o \in Orders : ~ Checkout(o),
         \A s \in Splits : ~ AcceptPurchaseOrder(s)
  PROVE  /\ UNCHANGED <<orderStatus, splitStatus, allocatedAt>>
         /\ \/ releasedAt' = releasedAt
            \/ \E l \in Live : releasedAt' = releasedAt \cup {l}
<1> USE DEF stockVars, orderVars, reservationVars, sweepVars, feedVars, inboundVars, pickVars
<1>1. ASSUME NEW l \in Lines, Expire(l) PROVE UNCHANGED <<orderVars, reservationVars>>
  BY <1>1 DEF Expire
<1>2. ASSUME NEW w \in Sweepers, SweepRead(w) \/ SweepCrash(w)
      PROVE  UNCHANGED <<orderVars, reservationVars>>
  BY <1>2 DEF SweepRead, SweepCrash
<1>3. ASSUME NEW w \in Sweepers, NEW l \in Lines, SweepRelease(w, l)
      PROVE  /\ UNCHANGED <<orderVars, allocatedAt>>
             /\ releasedAt' = releasedAt \/ (l \in Live /\ releasedAt' = releasedAt \cup {l})
  BY <1>3 DEF SweepRelease
<1>4. ASSUME NEW f \in Feeds, FeedNext(f) PROVE UNCHANGED <<orderVars, reservationVars>>
  BY <1>4 DEF FeedNext, FeedBegin, FeedCommit, FeedAbort
<1>5. ASSUME InboundNext PROVE UNCHANGED <<orderVars, reservationVars>>
  BY <1>5 DEF InboundNext, ReceiveAsn, RestockReturn
<1>6. ASSUME NEW s \in Splits, CreateFulfillment(s) PROVE UNCHANGED <<orderVars, reservationVars>>
  BY <1>6 DEF CreateFulfillment
<1>7. ASSUME NEW p \in Pickers, PickNext(p) PROVE UNCHANGED <<orderVars, reservationVars>>
  BY <1>7 DEF PickNext, PickCheck, PickRead, PickCommit, PickAbort
<1>8. CASE UNCHANGED vars
  BY <1>8 DEF vars
<1> QED
  BY <1>1, <1>2, <1>3, <1>4, <1>5, <1>6, <1>7, <1>8 DEF Next, CommerceNext, SweepNext

\* The strengthened invariant is inductive.
LEMMA NextRefinementInv == RefinementInv /\ [Next]_vars => RefinementInv'
<1> SUFFICES ASSUME RefinementInv, [Next]_vars PROVE RefinementInv'
  OBVIOUS
<1>1. TypeOK /\ StockInv /\ StockInv' /\ TypeOK'
  BY NextStockInv, NextTypeOK DEF RefinementInv, StockInv
<1>2. allocatedAt \subseteq Lines
  BY <1>1 DEF TypeOK
<1>3. ASSUME NEW o \in Orders, Checkout(o) PROVE AllocatedAccepted'
  <2>1. ASSUME NEW l \in allocatedAt PROVE LineOrder[l] # o
    BY <1>1, <1>2, <1>3 DEF StockInv, ResolvedPlaced, Placed, Checkout
  <2>2. allocatedAt' = allocatedAt
    BY <1>3 DEF Checkout, reservationVars
  <2>3. splitStatus' = [s \in Splits |-> IF s[1] = o THEN "PENDING" ELSE splitStatus[s]]
    BY <1>3 DEF Checkout
  <2> QED
    BY <1>2, <2>1, <2>2, <2>3, SplitOfLine DEF AllocatedAccepted, RefinementInv
<1>4. ASSUME NEW s \in Splits, AcceptPurchaseOrder(s) PROVE AllocatedAccepted'
  <2>1. allocatedAt' = allocatedAt \cup LinesOfSplit(s)
        /\ splitStatus' = [splitStatus EXCEPT ![s] = "ACCEPTED"]
    BY <1>4 DEF AcceptPurchaseOrder
  <2>2. splitStatus \in [Splits -> {"NONE", "PENDING", "ACCEPTED"}]
    BY <1>1 DEF TypeOK
  <2> QED
    BY <1>2, <2>1, <2>2, SplitOfLine DEF AllocatedAccepted, RefinementInv, LinesOfSplit
<1>5. CASE /\ \A o \in Orders : ~ Checkout(o)
           /\ \A s \in Splits : ~ AcceptPurchaseOrder(s)
  BY <1>1, <1>5, OtherSteps DEF AllocatedAccepted, RefinementInv
<1> QED
  BY <1>1, <1>3, <1>4, <1>5 DEF RefinementInv

-----------------------------------------------------------------------------
\* checkout is Place.
LEMMA CheckoutRefines ==
  ASSUME RefinementInv, TypeOK', NEW o \in Orders, Checkout(o)
  PROVE  Reservation!Place(o)
<1>1. orderStatus[o] = "NONE" /\ orderStatus' = [orderStatus EXCEPT ![o] = "PENDING"]
      /\ UNCHANGED <<releasedAt, allocatedAt>>
  BY DEF Checkout, reservationVars
<1>2. orderStatus \in [Orders -> {"NONE", "PENDING", "CONFIRMED"}]
  BY DEF RefinementInv, StockInv, TypeOK
<1>3. releasedAt \cup allocatedAt \subseteq Placed
  BY DEF RefinementInv, StockInv, ResolvedPlaced
<1>4. \A l \in LinesOfOrder(o) : l \notin Placed /\ Fate(l) = "none"
  BY <1>1, <1>3 DEF LinesOfOrder, Placed, Live, Fate
<1>5. Placed' = Placed \cup LinesOfOrder(o)
  BY <1>1, <1>2, StockAssumption DEF Placed, LinesOfOrder
<1>6. ASSUME NEW l \in Lines
      PROVE  Fate(l)' = IF l \in LinesOfOrder(o) THEN "held" ELSE Fate(l)
  BY <1>1, <1>4, <1>5, <1>3 DEF Fate, Live
<1>7. Confirmed' = Confirmed
  BY <1>1, <1>2 DEF Confirmed
<1>8. Reservation!LinesOf(o) = LinesOfOrder(o)
  BY DEF Reservation!LinesOf, LinesOfOrder
<1>9. \A l \in LinesOfOrder(o) : l \in Lines
  BY DEF LinesOfOrder
<1> QED
  BY <1>4, <1>6, <1>7, <1>8, <1>9 DEF Reservation!Place, Reservation!Turned

\* acceptPurchaseOrder is Allocate: its order is confirmed with the last of its
\* purchase orders, and that is when the last of its lines is allocated.
LEMMA AcceptRefines ==
  ASSUME RefinementInv, RefinementInv', NEW s \in Splits, AcceptPurchaseOrder(s)
  PROVE  /\ LinesOfSplit(s) # {} /\ LinesOfSplit(s) \subseteq Reservation!LinesOf(s[1])
         /\ Reservation!Allocate(s[1], LinesOfSplit(s))
<1> DEFINE L == LinesOfSplit(s)
           o == s[1]
<1>0. TypeOK /\ TypeOK'
  BY DEF RefinementInv, StockInv
<1>1. /\ splitStatus[s] = "PENDING"
      /\ L \subseteq Live
      /\ allocatedAt' = allocatedAt \cup L
      /\ releasedAt' = releasedAt
      /\ splitStatus' = [splitStatus EXCEPT ![s] = "ACCEPTED"]
      /\ orderStatus' = IF \E t \in Splits : t[1] = o /\ splitStatus'[t] = "PENDING"
                        THEN orderStatus
                        ELSE [orderStatus EXCEPT ![o] = "CONFIRMED"]
  BY DEF AcceptPurchaseOrder
<1>2. o \in Orders /\ orderStatus[o] # "NONE"
  <2>1. o \in Orders
    BY StockAssumption DEF Splits
  <2> QED
    BY <1>1, <2>1 DEF RefinementInv, StockInv, SplitsPlaced
<1>3. Placed' = Placed
  <2>1. \A p \in Orders : orderStatus'[p] = "NONE" <=> orderStatus[p] = "NONE"
    BY <1>0, <1>1, <1>2 DEF TypeOK
  <2> QED
    BY <2>1, StockAssumption DEF Placed
<1>4. L # {} /\ L \subseteq Reservation!LinesOf(o)
  BY DEF Splits, LinesOfSplit, Reservation!LinesOf
<1>5. \A l \in L : l \in Lines /\ Fate(l) = "held"
  BY <1>1 DEF LinesOfSplit, Fate, Live
<1>6. ASSUME NEW l \in Lines PROVE Fate(l)' = IF l \in L THEN "allocated" ELSE Fate(l)
  BY <1>1, <1>3 DEF Fate, Live
<1>7. (\A l \in LinesOfOrder(o) : Fate(l)' = "allocated")
      <=> ~ \E t \in Splits : t[1] = o /\ splitStatus'[t] = "PENDING"
  <2>1. ASSUME NEW l \in Lines PROVE Fate(l)' = "allocated" <=> l \in allocatedAt'
    <3>1. (releasedAt \cap allocatedAt)' = {} /\ (releasedAt \cup allocatedAt \subseteq Placed)'
      BY DEF RefinementInv, StockInv, ResolvedOnce, ResolvedPlaced
    <3> QED
      BY <3>1 DEF Fate, Live
  <2>2. ASSUME NEW t \in Splits, t[1] = o
        PROVE  splitStatus'[t] = "PENDING" <=> splitStatus'[t] # "ACCEPTED"
    <3>1. splitStatus'[t] # "NONE"
      BY <1>0, <1>1, <1>2, <2>2 DEF RefinementInv, StockInv, SplitsPlaced, TypeOK
    <3> QED
      BY <1>0, <3>1 DEF TypeOK
  <2>3. ASSUME NEW l \in LinesOfOrder(o)
        PROVE  l \in allocatedAt' <=> splitStatus'[<<LineOrder[l], LineVendor[l]>>] = "ACCEPTED"
    <3>1. l \in Lines
      BY DEF LinesOfOrder
    <3> QED
      BY <3>1, SplitOfLine DEF RefinementInv, StockInv, AcceptedAllocated, AllocatedAccepted
  <2>4. ASSUME NEW t \in Splits, t[1] = o
        PROVE  \E l \in LinesOfOrder(o) : t = <<LineOrder[l], LineVendor[l]>>
    BY <2>4 DEF Splits, LinesOfOrder
  <2>5. \A l \in LinesOfOrder(o) :
           /\ l \in Lines
           /\ <<LineOrder[l], LineVendor[l]>> \in Splits
           /\ <<LineOrder[l], LineVendor[l]>>[1] = o
    BY DEF LinesOfOrder, Splits
  <2> QED
    BY <2>1, <2>2, <2>3, <2>4, <2>5
<1>8. Confirmed' = IF \A l \in LinesOfOrder(o) : Fate(l)' = "allocated"
                   THEN Confirmed \cup {o} ELSE Confirmed
  BY <1>0, <1>1, <1>2, <1>7 DEF Confirmed, TypeOK
<1>9. Reservation!LinesOf(o) = LinesOfOrder(o)
  BY DEF Reservation!LinesOf, LinesOfOrder
<1>10. \A l \in LinesOfOrder(o) : l \in Lines
  BY DEF LinesOfOrder
<1> QED
  BY <1>4, <1>5, <1>6, <1>8, <1>9, <1>10 DEF Reservation!Allocate, Reservation!Turned

\* releaseBatch is GiveBack, every other step a stutter.
LEMMA OtherStepsRefine ==
  ASSUME RefinementInv, TypeOK', [Next]_vars,
         \A o \in Orders : ~ Checkout(o),
         \A s \in Splits : ~ AcceptPurchaseOrder(s)
  PROVE  UNCHANGED Abstract \/ \E l \in Lines : Reservation!GiveBack(l)
<1>1. /\ UNCHANGED <<orderStatus, splitStatus, allocatedAt>>
      /\ \/ releasedAt' = releasedAt
         \/ \E l \in Live : releasedAt' = releasedAt \cup {l}
  BY OtherSteps DEF RefinementInv, StockInv
<1>2. Placed' = Placed /\ Confirmed' = Confirmed
  BY <1>1 DEF Placed, Confirmed
<1>3. CASE releasedAt' = releasedAt
  BY <1>1, <1>2, <1>3 DEF Abstract, Fate, Live
<1>4. ASSUME NEW k \in Live, releasedAt' = releasedAt \cup {k}
      PROVE  Reservation!GiveBack(k)
  <2>1. k \in Lines /\ k \in Placed /\ Fate(k) = "held"
    BY DEF Live, Placed, Fate
  <2>2. ASSUME NEW l \in Lines PROVE Fate(l)' = IF l \in {k} THEN "released" ELSE Fate(l)
    BY <1>1, <1>2, <1>4, <2>1 DEF Fate, Live
  <2> QED
    BY <1>2, <2>1, <2>2 DEF Reservation!GiveBack, Reservation!Turned
<1>5. Live \subseteq Lines
  BY DEF Live, Placed
<1> QED
  BY <1>1, <1>3, <1>4, <1>5

\* The stock of the commerce service keeps the promises of Reservations: an
\* order's lines are reserved all or none, each is allocated or given back once
\* and for good, and the order is confirmed exactly with its last line.
THEOREM StockImplementsReservations == Spec => ImplementsReservations
<1>1. Init => RefinementInv /\ Reservation!Init
  <2> SUFFICES ASSUME Init PROVE RefinementInv /\ Reservation!Init
    OBVIOUS
  <2>1. Placed = {} /\ Confirmed = {} /\ Live = {} /\ releasedAt = {}
    BY StockAssumption DEF Init, Placed, Confirmed, Live
  <2>2. \A l \in Lines : Fate(l) = "none"
    BY <2>1 DEF Fate
  <2>3. RefinementInv
    BY InitStockInv DEF Init, RefinementInv, AllocatedAccepted
  <2> QED
    BY <2>1, <2>2, <2>3 DEF Reservation!Init
<1>2. RefinementInv /\ [Next]_vars => RefinementInv'
  BY NextRefinementInv
<1>3. RefinementInv /\ RefinementInv' /\ [Next]_vars
      => [Reservation!Next]_<<[l \in Lines |-> Fate(l)], Confirmed>>
  <2> SUFFICES ASSUME RefinementInv, RefinementInv', [Next]_vars
               PROVE  [Reservation!Next]_<<[l \in Lines |-> Fate(l)], Confirmed>>
    OBVIOUS
  <2>0. TypeOK'
    BY DEF RefinementInv, StockInv
  <2>1. ASSUME NEW o \in Orders, Checkout(o) PROVE Reservation!Next
    BY <2>0, <2>1, CheckoutRefines DEF Reservation!Next
  <2>2. ASSUME NEW s \in Splits, AcceptPurchaseOrder(s) PROVE Reservation!Next
    <3>1. s[1] \in Orders
      BY StockAssumption DEF Splits
    <3> QED
      BY <2>2, <3>1, AcceptRefines DEF Reservation!Next
  <2>3. CASE /\ \A o \in Orders : ~ Checkout(o)
             /\ \A s \in Splits : ~ AcceptPurchaseOrder(s)
    BY <2>0, <2>3, OtherStepsRefine DEF Reservation!Next, Abstract
  <2> QED
    BY <2>1, <2>2, <2>3
<1> QED
  BY <1>1, <1>2, <1>3, PTL DEF Spec, ImplementsReservations, Reservation!Spec
=============================================================================
