--------------------------- MODULE CommerceProofs ---------------------------
(***************************************************************************)
(* Proofs about the components between a cart and a settlement, each of    *)
(* its own specification, and of the composition the runs check.           *)
(***************************************************************************)
EXTENDS MCCommerce, FiniteSetTheorems, TLAPS

-----------------------------------------------------------------------------
(***************************************************************************)
(* Receiving.  A line leaves PENDING only with the version of its notice,  *)
(* and what is rejected or put away stays so; therefore a receipt whose    *)
(* version is current, and a putaway with any snapshot, count no blocker   *)
(* too few.                                                                *)
(***************************************************************************)
LineStates == {"PENDING", "ACCEPTED", "REJECTED", "PUTAWAY"}

Snapshots == [status : {"OPEN", "IN_PROGRESS", "COMPLETED"}, version : Nat,
              lines : [AsnLines -> LineStates]]

ReceivingTyped ==
    /\ asn \in {"OPEN", "IN_PROGRESS", "COMPLETED"}
    /\ asnVersion \in Nat
    /\ asnLine \in [AsnLines -> LineStates]
    /\ onHand \in [AsnLines -> Nat]
    /\ receipt \in [Receipts -> {"new", "checked", "done"}]
    /\ receiptSeen \in [Receipts -> Snapshots \cup {None}]
    /\ putaway \in [Putaways -> [line : AsnLines, seen : Snapshots] \cup {None}]

\* What a receipt has seen: lines to receive that were PENDING, and, while the
\* version lasts, every line as it is but for putaways.
ReceiptsSeen ==
    \A r \in Receipts : receipt[r] = "checked" =>
        /\ receiptSeen[r] \in Snapshots
        /\ receiptSeen[r].version <= asnVersion
        /\ \A l \in ReceiptLines[r] : receiptSeen[r].lines[l] = "PENDING"
        /\ receiptSeen[r].version = asnVersion =>
             \A l \in AsnLines :
                \/ asnLine[l] = receiptSeen[r].lines[l]
                \/ receiptSeen[r].lines[l] = "ACCEPTED" /\ asnLine[l] = "PUTAWAY"

\* A line being put away was accepted, and what a putaway has seen finished is.
PutawaysSeen ==
    \A p \in Putaways : putaway[p] # None =>
        /\ putaway[p] \in [line : AsnLines, seen : Snapshots]
        /\ asnLine[putaway[p].line] \in {"ACCEPTED", "PUTAWAY"}
        /\ \A l \in AsnLines : putaway[p].seen.lines[l] \in {"REJECTED", "PUTAWAY"} =>
             asnLine[l] = putaway[p].seen.lines[l]

\* The inductive invariant of a notice.
NoticeInv == ReceivingTyped /\ ReceiptsSeen /\ PutawaysSeen /\ NoticePutAway

\* A receipt that commits inspects lines that are PENDING.
LEMMA ReceiptOfPending ==
    ASSUME NoticeInv, NEW r \in Receipts, receipt[r] = "checked", ReceiptClaims(r)
    PROVE  /\ ReceiptLines[r] \subseteq AsnLines
           /\ \A l \in ReceiptLines[r] : asnLine[l] = "PENDING"
<1>1. ReceiptLines[r] \subseteq AsnLines
  BY ReceivingAssumption
<1>2. \A l \in ReceiptLines[r] : receiptSeen[r].lines[l] = "PENDING"
  BY DEF NoticeInv, ReceiptsSeen
<1>3. \A l \in AsnLines :
        \/ asnLine[l] = receiptSeen[r].lines[l]
        \/ receiptSeen[r].lines[l] = "ACCEPTED" /\ asnLine[l] = "PUTAWAY"
  BY DEF NoticeInv, ReceiptsSeen, ReceiptClaims
<1> QED BY <1>1, <1>2, <1>3

\* A receipt that commits keeps the invariant.
LEMMA ReceiptKeepsNotice ==
    ASSUME NoticeInv, NEW r \in Receipts, ReceiveCommit(r), ReceiptClaims(r)
    PROVE  NoticeInv'
<1> USE DEF NoticeInv
<1> DEFINE Inspected(A, before) ==
             [l \in AsnLines |-> IF l \in A THEN "ACCEPTED"
                                 ELSE IF l \in ReceiptLines[r] THEN "REJECTED" ELSE before[l]]
<1>0. receipt[r] = "checked" /\ receiptSeen[r] \in Snapshots
  BY DEF ReceiveCommit, ReceiptsSeen
<1>1. PICK A \in SUBSET ReceiptLines[r] :
        /\ asnLine' = Inspected(A, asnLine)
        /\ onHand' = [l \in AsnLines |-> IF l \in A THEN onHand[l] + 1 ELSE onHand[l]]
        /\ asn' = IF Blockers(Inspected(A, receiptSeen[r].lines)) = {}
                    THEN "COMPLETED" ELSE "IN_PROGRESS"
        /\ asnVersion' = asnVersion + 1
  BY DEF ReceiveCommit
<1>2. /\ ReceiptLines[r] \subseteq AsnLines
      /\ \A l \in ReceiptLines[r] : asnLine[l] = "PENDING"
  BY <1>0, ReceiptOfPending
<1>3. /\ receipt' = [receipt EXCEPT ![r] = "done"]
      /\ receiptSeen' = [receiptSeen EXCEPT ![r] = None]
      /\ putaway' = putaway
  BY DEF ReceiveCommit
<1>4. \A l \in AsnLines :
        asnLine'[l] = IF l \in A THEN "ACCEPTED"
                      ELSE IF l \in ReceiptLines[r] THEN "REJECTED" ELSE asnLine[l]
  BY <1>1
<1>5. ReceivingTyped'
  <2>1. asnLine' \in [AsnLines -> LineStates] /\ onHand' \in [AsnLines -> Nat]
    BY <1>1 DEF ReceivingTyped, LineStates
  <2>2. asn' \in {"OPEN", "IN_PROGRESS", "COMPLETED"} /\ asnVersion' \in Nat
    BY <1>1 DEF ReceivingTyped
  <2> QED BY <1>3, <2>1, <2>2 DEF ReceivingTyped
<1>6. ReceiptsSeen'
  BY <1>1, <1>3 DEF ReceiptsSeen, ReceivingTyped, Snapshots
<1>7. PutawaysSeen'
  <2>1. \A l \in AsnLines : asnLine[l] # "PENDING" => asnLine'[l] = asnLine[l]
    BY <1>2, <1>4
  <2> QED BY <1>3, <2>1 DEF PutawaysSeen
<1>8. ReceivedOnce'
  BY <1>1, <1>2, <1>4 DEF NoticePutAway, ReceivedOnce, ReceivingTyped
<1>9. CompletedIsPutAway'
  <2> SUFFICES ASSUME asn' = "COMPLETED", NEW l \in AsnLines, asnLine'[l] \in {"PENDING", "ACCEPTED"}
               PROVE  FALSE
    BY DEF CompletedIsPutAway, Blockers
  <2>1. Inspected(A, receiptSeen[r].lines)[l] \notin {"PENDING", "ACCEPTED"}
    BY <1>1 DEF Blockers
  <2>2. l \notin ReceiptLines[r] /\ receiptSeen[r].lines[l] \notin {"PENDING", "ACCEPTED"}
    BY <1>4, <2>1
  <2>3. asnLine[l] = receiptSeen[r].lines[l]
    BY <1>0, <2>2 DEF ReceiptsSeen, ReceiptClaims
  <2> QED BY <1>1, <1>4, <2>2, <2>3
<1> QED BY <1>5, <1>6, <1>7, <1>8, <1>9 DEF NoticePutAway

\* A putaway that commits keeps the invariant.
LEMMA PutawayKeepsNotice ==
    ASSUME NoticeInv, NEW p \in Putaways, PutawayCommit(p)
    PROVE  NoticeInv'
<1> USE DEF NoticeInv
<1> DEFINE k == putaway[p].line
<1>0. /\ putaway[p] \in [line : AsnLines, seen : Snapshots] /\ k \in AsnLines
      /\ asnLine[k] \in {"ACCEPTED", "PUTAWAY"}
  BY DEF PutawayCommit, PutawaysSeen
<1>1. /\ asnLine' = [asnLine EXCEPT ![k] = "PUTAWAY"]
      /\ putaway' = [putaway EXCEPT ![p] = None]
      /\ UNCHANGED <<onHand, receipt, receiptSeen>>
  BY DEF PutawayCommit
<1>2. \/ UNCHANGED <<asn, asnVersion>>
      \/ Remaining(p) = {} /\ asn' = "COMPLETED" /\ asnVersion' = asnVersion + 1
  BY DEF PutawayCommit
<1>3. \A l \in AsnLines : asnLine'[l] = IF l = k THEN "PUTAWAY" ELSE asnLine[l]
  BY <1>1 DEF ReceivingTyped
<1>4. ReceivingTyped'
  <2>1. asnLine' \in [AsnLines -> LineStates]
    BY <1>1 DEF ReceivingTyped, LineStates
  <2>2. asn' \in {"OPEN", "IN_PROGRESS", "COMPLETED"} /\ asnVersion' \in Nat
    BY <1>2 DEF ReceivingTyped
  <2> QED BY <1>1, <2>1, <2>2 DEF ReceivingTyped
<1>5. ReceiptsSeen'
  <2> SUFFICES ASSUME NEW r \in Receipts, receipt[r] = "checked"
               PROVE  /\ receiptSeen[r].version <= asnVersion'
                      /\ receiptSeen[r].version = asnVersion' =>
                           \A l \in AsnLines :
                              \/ asnLine'[l] = receiptSeen[r].lines[l]
                              \/ receiptSeen[r].lines[l] = "ACCEPTED" /\ asnLine'[l] = "PUTAWAY"
    BY <1>1 DEF ReceiptsSeen
  <2>1. receiptSeen[r].version \in Nat /\ receiptSeen[r].version <= asnVersion
    BY DEF ReceiptsSeen, Snapshots
  <2>2. CASE asnVersion' = asnVersion
    BY <1>0, <1>3, <2>1, <2>2 DEF ReceiptsSeen
  <2>3. CASE asnVersion' = asnVersion + 1
    BY <2>1, <2>3 DEF ReceivingTyped
  <2> QED BY <1>2, <2>2, <2>3
<1>6. PutawaysSeen'
  BY <1>0, <1>1, <1>3 DEF PutawaysSeen, ReceivingTyped
<1>7. ReceivedOnce'
  BY <1>0, <1>1, <1>3 DEF NoticePutAway, ReceivedOnce
<1>8. CompletedIsPutAway'
  <2> SUFFICES ASSUME asn' = "COMPLETED", NEW l \in AsnLines, asnLine'[l] \in {"PENDING", "ACCEPTED"}
               PROVE  FALSE
    BY DEF CompletedIsPutAway, Blockers
  <2>1. l # k /\ asnLine[l] \in {"PENDING", "ACCEPTED"}
    BY <1>3
  <2>2. Remaining(p) = {}
    BY <1>2, <2>1 DEF NoticePutAway, CompletedIsPutAway, Blockers
  <2>3. putaway[p].seen.lines[l] \in {"REJECTED", "PUTAWAY"}
    BY <1>0, <2>1, <2>2 DEF Remaining, Blockers, Snapshots, LineStates
  <2> QED BY <1>0, <2>1, <2>3 DEF PutawaysSeen, PutawayCommit
<1> QED BY <1>4, <1>5, <1>6, <1>7, <1>8 DEF NoticePutAway

\* What a notice announces goes on hand once, and the notice is COMPLETED over
\* nothing that is left to do, although receipts and putaways count from
\* snapshots (receiveAsn, putaway).
THEOREM NoticesPutAway == ReceivingSpec => []NoticePutAway
<1>1. ReceivingInit => NoticeInv
  BY ReceivingAssumption
     DEF ReceivingInit, NoticeInv, ReceivingTyped, LineStates, ReceiptsSeen, PutawaysSeen,
         NoticePutAway, ReceivedOnce, CompletedIsPutAway
<1>2. NoticeInv /\ [ReceivingNext]_receivingVars => NoticeInv'
  <2> SUFFICES ASSUME NoticeInv, [ReceivingNext]_receivingVars PROVE NoticeInv'
    OBVIOUS
  <2> USE DEF NoticeInv
  <2>0. [status |-> asn, version |-> asnVersion, lines |-> asnLine] \in Snapshots
    BY DEF ReceivingTyped, Snapshots
  <2>1. ASSUME NEW r \in Receipts, ReceiveRead(r) PROVE NoticeInv'
    <3>1. UNCHANGED <<asn, asnVersion, asnLine, onHand, putaway>>
      BY <2>1 DEF ReceiveRead
    <3>2. CASE receipt'[r] = "checked"
      <4>1. /\ receipt' = [receipt EXCEPT ![r] = "checked"]
            /\ receiptSeen' = [receiptSeen EXCEPT ![r] = Snapshot]
            /\ \A l \in ReceiptLines[r] : asnLine[l] = "PENDING"
        BY <2>1, <3>2 DEF ReceiveRead, ReceivingTyped
      <4>2. ReceivingTyped'
        BY <2>0, <3>1, <4>1 DEF ReceivingTyped, Snapshot
      <4>3. ReceiptsSeen'
        BY <2>0, <3>1, <4>1 DEF ReceiptsSeen, ReceivingTyped, Snapshot
      <4> QED BY <3>1, <4>2, <4>3 DEF PutawaysSeen, NoticePutAway, ReceivedOnce, CompletedIsPutAway
    <3>3. CASE receipt'[r] # "checked"
      <4>1. receipt' = [receipt EXCEPT ![r] = "done"] /\ receiptSeen' = receiptSeen
        BY <2>1, <3>3 DEF ReceiveRead, ReceivingTyped
      <4> QED BY <3>1, <4>1 DEF ReceivingTyped, ReceiptsSeen, PutawaysSeen, NoticePutAway,
                              ReceivedOnce, CompletedIsPutAway
    <3> QED BY <3>2, <3>3
  <2>2. ASSUME NEW r \in Receipts, ReceiveCommit(r) PROVE NoticeInv'
    <3>1. CASE ReceiptClaims(r)
      BY <2>2, <3>1, ReceiptKeepsNotice
    <3>2. CASE ~ReceiptClaims(r)
      BY <2>2, <3>2 DEF ReceiveCommit, ReceivingTyped, ReceiptsSeen, PutawaysSeen, NoticePutAway,
                        ReceivedOnce, CompletedIsPutAway
    <3> QED BY <3>1, <3>2
  <2>3. ASSUME NEW p \in Putaways, NEW l \in AsnLines, PutawayRead(p, l) PROVE NoticeInv'
    <3>1. /\ putaway' = [putaway EXCEPT ![p] = [line |-> l, seen |-> Snapshot]]
          /\ UNCHANGED <<asn, asnVersion, asnLine, onHand, receipt, receiptSeen>>
          /\ asnLine[l] \in {"ACCEPTED", "PUTAWAY"}
      BY <2>3 DEF PutawayRead
    <3>2. [line |-> l, seen |-> Snapshot] \in [line : AsnLines, seen : Snapshots]
      BY <2>0 DEF Snapshot
    <3>3. ReceivingTyped'
      BY <3>1, <3>2 DEF ReceivingTyped
    <3>4. PutawaysSeen'
      BY <3>1, <3>2 DEF PutawaysSeen, ReceivingTyped, Snapshot
    <3> QED BY <3>1, <3>3, <3>4 DEF ReceiptsSeen, NoticePutAway, ReceivedOnce, CompletedIsPutAway
  <2>4. ASSUME NEW p \in Putaways, PutawayCommit(p) PROVE NoticeInv'
    BY <2>4, PutawayKeepsNotice
  <2>5. CASE UNCHANGED receivingVars
    BY <2>5 DEF receivingVars, ReceivingTyped, ReceiptsSeen, PutawaysSeen, NoticePutAway,
                ReceivedOnce, CompletedIsPutAway
  <2> QED BY <2>1, <2>2, <2>3, <2>4, <2>5 DEF ReceivingNext
<1>3. NoticeInv => NoticePutAway
  BY DEF NoticeInv
<1> QED BY <1>1, <1>2, <1>3, PTL DEF ReceivingSpec

-----------------------------------------------------------------------------
(***************************************************************************)
(* Ledger.                                                                 *)
(***************************************************************************)
LedgerTyped ==
    /\ settlement \in [Settlements -> {"NONE", "CALCULATED", "APPROVED", "PAID"}]
    /\ lines \in [Settlements -> SUBSET Entries]
    /\ journal \subseteq Entries
    /\ accountant \in [Accountants ->
         [op : {"idle", "calculate", "approve", "pay"}, about : Settlements \cup {None},
          entries : SUBSET Entries]]

\* A settlement in work has a row, and one that has none has no lines.
SettlementsKnown ==
    /\ \A s \in Settlements : settlement[s] = "NONE" => lines[s] = {}
    /\ \A c \in Accountants : accountant[c].op \in {"approve", "pay"} =>
         settlement[accountant[c].about] # "NONE"

\* The inductive invariant of settlements.
SettlementInv == LedgerTyped /\ SettlementsKnown /\ SettledOnce

\* A step of an accountant keeps the invariant.
LEMMA AccountantKeepsSettlements ==
    ASSUME SettlementInv, NEW c \in Accountants, NEW s \in Settlements,
           \/ CalculateRead(c, s) \/ Calculate(c, s)
           \/ ApproveSettlementRead(c, s) \/ ApproveSettlement(c, s)
           \/ PaySettlementRead(c, s) \/ PaySettlement(c, s)
    PROVE  SettlementInv'
<1> USE DEF SettlementInv
<1>1. CASE CalculateRead(c, s)
  BY <1>1 DEF CalculateRead, LedgerRead, LedgerTyped, SettlementsKnown, SettledOnce
<1>2. CASE ApproveSettlementRead(c, s) \/ PaySettlementRead(c, s)
  BY <1>2 DEF ApproveSettlementRead, PaySettlementRead, LedgerRead, LedgerTyped,
              SettlementsKnown, SettledOnce
<1>3. CASE ApproveSettlement(c, s) \/ PaySettlement(c, s)
  <2>1. PICK status \in {"APPROVED", "PAID"} :
          /\ settlement' = [settlement EXCEPT ![s] = status]
          /\ accountant' = [accountant EXCEPT ![c] = AccountantIdle]
          /\ UNCHANGED <<journal, lines>>
    BY <1>3 DEF ApproveSettlement, PaySettlement, LedgerWrite
  <2>2. settlement[s] # "NONE"
    BY <1>3 DEF ApproveSettlement, PaySettlement, LedgerWrite, SettlementsKnown
  <2>3. LedgerTyped'
    BY <2>1 DEF LedgerTyped, AccountantIdle
  <2>4. SettlementsKnown'
    BY <2>1, <2>2 DEF LedgerTyped, SettlementsKnown, AccountantIdle
  <2> QED BY <2>1, <2>3, <2>4 DEF SettledOnce
<1>4. CASE Calculate(c, s)
  <2>1. /\ accountant' = [accountant EXCEPT ![c] = AccountantIdle]
        /\ journal' = journal
        /\ accountant[c].entries \subseteq Entries
    BY <1>4 DEF Calculate, LedgerWrite, LedgerTyped
  <2>2. CASE settlement[s] = "NONE" /\ \A e \in accountant[c].entries : LineFree(e)
    <3>1. /\ settlement' = [settlement EXCEPT ![s] = "CALCULATED"]
          /\ lines' = [lines EXCEPT ![s] = accountant[c].entries]
      BY <1>4, <2>2 DEF Calculate
    <3>2. \A t \in Settlements : accountant[c].entries \cap lines[t] = {}
      BY <2>2 DEF LineFree, Settled
    <3>3. SettledOnce'
      BY <3>1, <3>2 DEF SettledOnce, LedgerTyped
    <3> QED BY <2>1, <3>1, <3>3 DEF LedgerTyped, SettlementsKnown, AccountantIdle
  <2>3. CASE ~(settlement[s] = "NONE" /\ \A e \in accountant[c].entries : LineFree(e))
    BY <1>4, <2>1, <2>3
       DEF Calculate, LedgerTyped, SettlementsKnown, SettledOnce, AccountantIdle
  <2> QED BY <2>2, <2>3
<1> QED BY <1>1, <1>2, <1>3, <1>4

\* The invariant of settlements holds in every state.
LEMMA SettlementsSound == LedgerSpec => []SettlementInv
<1>1. LedgerInit => SettlementInv
  BY DEF LedgerInit, SettlementInv, LedgerTyped, SettlementsKnown, SettledOnce, AccountantIdle
<1>2. SettlementInv /\ [LedgerNext]_ledgerVars => SettlementInv'
  <2> SUFFICES ASSUME SettlementInv, [LedgerNext]_ledgerVars PROVE SettlementInv'
    OBVIOUS
  <2>1. ASSUME NEW e \in Entries, PostJournal(e) \/ ReverseJournal(e) PROVE SettlementInv'
    BY <2>1 DEF PostJournal, ReverseJournal, SettlementInv, LedgerTyped, SettlementsKnown,
                SettledOnce
  <2>2. CASE UNCHANGED ledgerVars
    BY <2>2 DEF ledgerVars, SettlementInv, LedgerTyped, SettlementsKnown, SettledOnce
  <2> QED BY <2>1, <2>2, AccountantKeepsSettlements DEF LedgerNext
<1> QED BY <1>1, <1>2, PTL DEF LedgerSpec

\* However calculations overlap, an entry is paid out by one settlement
\* (calculateSettlement and the unique SettlementLine.journalEntryId).
THEOREM EntriesSettledOnce == LedgerSpec => []SettledOnce
<1>1. SettlementInv => SettledOnce
  BY DEF SettlementInv
<1> QED BY <1>1, SettlementsSound, PTL

\* The entries of a settlement are fixed when it is calculated: no later
\* calculation, approval or payment changes what is paid (calculateSettlement).
SettlementFrozen ==
    [][\A s \in Settlements : settlement[s] # "NONE" =>
          lines'[s] = lines[s] /\ settlement'[s] # "NONE"]_ledgerVars

\* What a settlement pays never changes (calculateSettlement, approveSettlement,
\* paySettlement).
THEOREM SettlementsFrozen == LedgerSpec => SettlementFrozen
<1>1. SettlementInv /\ [LedgerNext]_ledgerVars =>
        [\A s \in Settlements : settlement[s] # "NONE" =>
            lines'[s] = lines[s] /\ settlement'[s] # "NONE"]_ledgerVars
  BY DEF LedgerNext, PostJournal, ReverseJournal, CalculateRead, Calculate,
         ApproveSettlementRead, ApproveSettlement, PaySettlementRead, PaySettlement,
         LedgerRead, LedgerWrite, SettlementInv, LedgerTyped, ledgerVars
<1> QED BY <1>1, SettlementsSound, PTL DEF LedgerSpec, SettlementFrozen

-----------------------------------------------------------------------------
(***************************************************************************)
(* Fulfillment.  A request that ships or tracks found a shipment, which    *)
(* never goes away, and an exception once resolved is never reopened.      *)
(***************************************************************************)
FloorOps == {"idle", "pick", "pack", "buy label", "label", "MANIFESTED", "DISPATCHED", "track",
             "recommend", "approve", "execute"}

FulfillmentTyped ==
    /\ tower \in [TowerExceptions -> {"NONE", "OPEN", "RESOLVED"}]
    /\ route \in [Routes -> {"NONE", "PROPOSED", "APPROVED", "REJECTED", "EXECUTED"}]
    /\ floor \in [Floor -> [op : FloorOps,
                            about : PackageCodes \cup TrackingKeys \cup Routes \cup {None}]]

\* The states of an order that has a label.
Labeled == {"LABELED", "MANIFESTED", "DISPATCHED", "DELIVERED"}

\* What ships or tracks a shipment has found one.
FloorFoundShipment ==
    \A c \in Floor : floor[c].op \in {"MANIFESTED", "DISPATCHED", "track"} => shipment # "NONE"

\* The inductive invariant of a fulfillment order.
GoodsInv == FulfillmentTyped /\ FloorFoundShipment /\ GoodsLeaveInOrder

\* A check keeps the invariant, if it finds the shipment it needs.
LEMMA CheckKeepsGoods ==
    ASSUME GoodsInv, NEW c \in Floor, NEW op \in FloorOps,
           NEW x \in PackageCodes \cup TrackingKeys \cup Routes \cup {None}, Reads(c, op, x),
           op \in {"MANIFESTED", "DISPATCHED", "track"} => shipment # "NONE"
    PROVE  GoodsInv'
BY DEF Reads, GoodsInv, FulfillmentTyped, FloorFoundShipment, GoodsLeaveInOrder,
       ShippedIsLabeled, ExecutedIsResolved

\* The commit of a request keeps the invariant, if it takes no shipment away,
\* ships what has one and leaves resolved what is executed.
LEMMA CommitKeepsGoods ==
    ASSUME GoodsInv, NEW c \in Floor,
           floor' = [floor EXCEPT ![c] = FloorIdle],
           shipment # "NONE" => shipment' # "NONE",
           order' \in Labeled => order' = order \/ shipment' # "NONE",
           \/ UNCHANGED <<tower, route>>
           \/ /\ tower' \in [TowerExceptions -> {"NONE", "OPEN", "RESOLVED"}]
              /\ route' \in [Routes -> {"NONE", "PROPOSED", "APPROVED", "REJECTED", "EXECUTED"}]
              /\ ExecutedIsResolved'
    PROVE  GoodsInv'
<1>1. FulfillmentTyped'
  BY DEF GoodsInv, FulfillmentTyped, FloorIdle, FloorOps
<1>2. FloorFoundShipment'
  BY DEF GoodsInv, FulfillmentTyped, FloorFoundShipment, FloorIdle
<1>3. ShippedIsLabeled'
  BY DEF GoodsInv, GoodsLeaveInOrder, ShippedIsLabeled, Labeled
<1>4. ExecutedIsResolved'
  BY DEF GoodsInv, GoodsLeaveInOrder, ExecutedIsResolved
<1> QED BY <1>1, <1>2, <1>3, <1>4 DEF GoodsInv, GoodsLeaveInOrder

\* Every request on the floor keeps the invariant.
LEMMA FloorKeepsGoods ==
    ASSUME GoodsInv, NEW c \in Floor, FloorStep(c)
    PROVE  GoodsInv'
<1> USE DEF GoodsInv, GoodsLeaveInOrder, FloorOps
<1>1. CASE PickCheck(c) \/ LabelCheck(c) \/ \E k \in PackageCodes : PackCheck(c, k)
  <2>1. CASE PickCheck(c)
    BY <2>1, CheckKeepsGoods DEF PickCheck
  <2>2. CASE LabelCheck(c)
    BY <2>2, CheckKeepsGoods DEF LabelCheck
  <2>3. ASSUME NEW k \in PackageCodes, PackCheck(c, k) PROVE GoodsInv'
    BY <2>3, CheckKeepsGoods DEF PackCheck
  <2> QED BY <1>1, <2>1, <2>2, <2>3
<1>2. ASSUME NEW from \in {"LABELED", "MANIFESTED"}, NEW next \in {"MANIFESTED", "DISPATCHED"},
             TransitionCheck(c, from, next)
      PROVE  GoodsInv'
  <2>1. Reads(c, next, None) /\ shipment # "NONE"
    BY <1>2 DEF TransitionCheck, Expected, ShippedIsLabeled
  <2> QED BY <2>1, CheckKeepsGoods
<1>3. ASSUME NEW k \in TrackingKeys, TrackingCheck(c, k) PROVE GoodsInv'
  BY <1>3, CheckKeepsGoods DEF TrackingCheck
<1>4. ASSUME NEW m \in Routes, RecommendCheck(c, m) \/ ApproveCheck(c, m) \/ ExecuteCheck(c, m)
      PROVE  GoodsInv'
  BY <1>4, CheckKeepsGoods DEF RecommendCheck, ApproveCheck, ExecuteCheck
<1>5. CASE Pick(c) \/ Label(c) \/ \E k \in PackageCodes : Pack(c, k)
  <2>1. /\ floor' = [floor EXCEPT ![c] = FloorIdle] /\ UNCHANGED <<tower, route>>
        /\ shipment # "NONE" => shipment' # "NONE"
        /\ order' \in Labeled => order' = order \/ shipment' # "NONE"
    BY <1>5 DEF Pick, Label, Pack, Commits, Labeled
  <2> QED BY <2>1, CommitKeepsGoods
<1>6. CASE BuyLabel(c)
  BY <1>6 DEF BuyLabel, FulfillmentTyped, FloorFoundShipment, ShippedIsLabeled, ExecutedIsResolved
<1>7. CASE LabelLost(c)
  BY <1>7, CommitKeepsGoods DEF LabelLost
<1>8. ASSUME NEW next \in {"MANIFESTED", "DISPATCHED"}, Transition(c, next) PROVE GoodsInv'
  <2>1. shipment # "NONE" /\ shipment' = next
    BY <1>8 DEF Transition, Commits, FloorFoundShipment
  <2> QED BY <1>8, <2>1, CommitKeepsGoods DEF Transition, Commits
<1>9. ASSUME NEW k \in TrackingKeys, Tracking(c, k) PROVE GoodsInv'
  <2>1. shipment # "NONE" /\ shipment' # "NONE"
    BY <1>9 DEF Tracking, Commits, FloorFoundShipment
  <2> QED BY <1>9, <2>1, CommitKeepsGoods DEF Tracking, Commits
<1>10. ASSUME NEW m \in Routes, Recommend(c, m) \/ ApproveRoute(c, m) \/ ExecuteRoute(c, m)
       PROVE  GoodsInv'
  <2>1. RouteException \in [Routes -> TowerExceptions]
    BY FulfillmentAssumption
  <2>2. ExecutedIsResolved'
    BY <1>10, <2>1 DEF Recommend, ApproveRoute, ExecuteRoute, ExecutedIsResolved, FulfillmentTyped
  <2>3. /\ tower' \in [TowerExceptions -> {"NONE", "OPEN", "RESOLVED"}]
        /\ route' \in [Routes -> {"NONE", "PROPOSED", "APPROVED", "REJECTED", "EXECUTED"}]
    BY <1>10 DEF Recommend, ApproveRoute, ExecuteRoute, FulfillmentTyped
  <2> QED
    BY <1>10, <2>2, <2>3, CommitKeepsGoods
       DEF Recommend, ApproveRoute, ExecuteRoute, Commits, Labeled
<1> QED BY <1>1, <1>2, <1>3, <1>4, <1>5, <1>6, <1>7, <1>8, <1>9, <1>10 DEF FloorStep

\* What left the warehouse has a shipment, and a rerouting that was executed
\* has closed its exception, however requests and rerouting overlap (label,
\* transition, tracking, approve, execute).
THEOREM GoodsInOrder == FulfillmentSpec => []GoodsLeaveInOrder
<1>1. FulfillmentInit => GoodsInv
  BY DEF FulfillmentInit, GoodsInv, FulfillmentTyped, FloorFoundShipment, GoodsLeaveInOrder,
         ShippedIsLabeled, ExecutedIsResolved, FloorIdle, FloorOps
<1>2. GoodsInv /\ [FulfillmentNext]_fulfillmentVars => GoodsInv'
  <2> SUFFICES ASSUME GoodsInv, [FulfillmentNext]_fulfillmentVars PROVE GoodsInv'
    OBVIOUS
  <2>1. ASSUME NEW x \in TowerExceptions, OpenException(x) PROVE GoodsInv'
    BY <2>1, FulfillmentAssumption
       DEF OpenException, GoodsInv, FulfillmentTyped, FloorFoundShipment, GoodsLeaveInOrder,
           ShippedIsLabeled, ExecutedIsResolved
  <2>2. CASE UNCHANGED fulfillmentVars
    BY <2>2 DEF fulfillmentVars, GoodsInv, FulfillmentTyped, FloorFoundShipment,
                GoodsLeaveInOrder, ShippedIsLabeled, ExecutedIsResolved
  <2> QED BY <2>1, <2>2, FloorKeepsGoods DEF FulfillmentNext
<1>3. GoodsInv => GoodsLeaveInOrder
  BY DEF GoodsInv
<1> QED BY <1>1, <1>2, <1>3, PTL DEF FulfillmentSpec

-----------------------------------------------------------------------------
(***************************************************************************)
(* Checkout.  Money that is held without an order is somebody's who has    *)
(* still to place the order or to void the authorization.                  *)
(***************************************************************************)
CheckoutTyped ==
    /\ checkout \in [CheckoutRequests -> {"new", "quoted", "authorized", "failed", "done"}]
    /\ authorized \in [PaymentKeys -> {"NONE", "HELD", "VOIDED"}]

\* Held money has an order, or a request that answers for it.
HeldIsOwned ==
    forsaken \/ \A k \in PaymentKeys : authorized[k] = "HELD" =>
        \/ OrderOf(k) # {}
        \/ \E r \in CheckoutRequests :
              PaymentKey[r] = k /\ checkout[r] \in {"authorized", "failed"}

\* The inductive invariant of authorizations.
HeldInv == CheckoutTyped /\ HeldIsOwned

\* A request keeps the invariant.
LEMMA RequestKeepsHeld ==
    ASSUME HeldInv, NEW r \in CheckoutRequests,
           \/ Quote(r) \/ Authorize(r) \/ PlaceOrder(r) \/ PlaceOrderFails(r)
           \/ Void(r) \/ Forsake(r)
    PROVE  HeldInv'
<1> USE DEF HeldInv
<1>0. PaymentKey[r] \in PaymentKeys
  BY DEF PaymentKeys
<1>1. CheckoutTyped'
  BY <1>0 DEF Quote, Authorize, PlaceOrder, PlaceOrderFails, Void, Forsake, Advance, CheckoutTyped
<1>2. CASE Quote(r) \/ PlaceOrderFails(r) \/ Forsake(r)
  BY <1>1, <1>2 DEF Quote, PlaceOrderFails, Forsake, Advance, CheckoutTyped, HeldIsOwned, OrderOf
<1>3. CASE Authorize(r) \/ Void(r)
  BY <1>0, <1>1, <1>3 DEF Authorize, Void, Advance, CheckoutTyped, HeldIsOwned, OrderOf
<1>4. CASE PlaceOrder(r)
  <2>1. checkout'[r] = "failed" \/ OrderOf(PaymentKey[r])' # {}
    <3>1. CASE OrderOf(PaymentKey[r]) # {}
      BY <1>4, <3>1 DEF PlaceOrder, OrderOf
    <3>2. CASE OrderOf(PaymentKey[r]) = {} /\ CartClaimable(r)
      <4> DEFINE o == [key |-> PaymentKey[r], quoted |-> quoted[r].lines, lines |-> cartLines]
      <4>1. o \in orderRows' /\ o.key = PaymentKey[r]
        BY <1>4, <3>2 DEF PlaceOrder, MakeOrder
      <4> HIDE DEF o
      <4> QED BY <4>1 DEF OrderOf
    <3>3. CASE OrderOf(PaymentKey[r]) = {} /\ ~CartClaimable(r)
      BY <1>4, <3>3 DEF PlaceOrder, Advance, CheckoutTyped
    <3> QED BY <3>1, <3>2, <3>3
  <2>2. \A k : OrderOf(k) # {} => OrderOf(k)' # {}
    BY <1>4 DEF PlaceOrder, MakeOrder, OrderOf
  <2>3. /\ \A q \in CheckoutRequests : q # r => checkout'[q] = checkout[q]
        /\ UNCHANGED <<authorized, forsaken>>
    BY <1>4 DEF PlaceOrder, Advance, CheckoutTyped
  <2> QED BY <1>1, <2>1, <2>2, <2>3 DEF HeldIsOwned
<1> QED BY <1>2, <1>3, <1>4

\* When every request has ended, and none was cut off, money is held for an
\* order and for nothing else: each failure after the authorization voids it
\* (CommerceService.checkout).
THEOREM MoneyHeldForOrders == CheckoutSpec => []HeldForAnOrder
<1>1. CheckoutInit => HeldInv
  BY DEF CheckoutInit, HeldInv, CheckoutTyped, HeldIsOwned
<1>2. HeldInv /\ [CheckoutNext]_checkoutVars => HeldInv'
  <2> SUFFICES ASSUME HeldInv, [CheckoutNext]_checkoutVars PROVE HeldInv'
    OBVIOUS
  <2>1. ASSUME UNCHANGED orderSide PROVE HeldInv'
    BY <2>1 DEF orderSide, HeldInv, CheckoutTyped, HeldIsOwned, OrderOf
  <2>2. ASSUME NEW e \in Editors,
               \/ \E op \in {"add", "update", "remove"}, o \in CartOffers, n \in CartQuantities :
                     EditRead(e, op, o, n)
               \/ WriteLine(e) \/ DeleteLine(e) \/ BumpVersion(e)
        PROVE  UNCHANGED orderSide
    BY <2>2 DEF EditRead, WriteLine, DeleteLine, BumpVersion
  <2>3. CASE UNCHANGED checkoutVars
    BY <2>1, <2>3 DEF checkoutVars, orderSide
  <2> QED BY <2>1, <2>2, <2>3, RequestKeepsHeld DEF CheckoutNext
<1>3. HeldInv => HeldForAnOrder
  BY DEF HeldInv, HeldIsOwned, HeldForAnOrder
<1> QED BY <1>1, <1>2, <1>3, PTL DEF CheckoutSpec


\* A request that holds a quote holds the lines of the cart as long as the version
\* is the one it was quoted at and no removal has its version still to write.
RemovalPending == \E e \in Editors : editor[e].op = "removed"

QuoteIsOfCart ==
    \A r \in CheckoutRequests : checkout[r] \in {"quoted", "authorized"} =>
        /\ quoted[r].version \in Nat /\ quoted[r].version <= cartVersion
        /\ quoted[r].version = cartVersion /\ ~RemovalPending => quoted[r].lines = cartLines

CartTyped ==
    /\ DOMAIN checkout = CheckoutRequests /\ DOMAIN quoted = CheckoutRequests
    /\ cartVersion \in Nat
    /\ cartLines \in [CartOffers -> Nat]
    /\ editor \in [Editors -> [op : {"idle", "add", "update", "remove", "removed"},
                               on : CartOffers \cup {None}, quantity : Nat]]
    /\ \A e \in Editors : editor[e].op # "idle" => editor[e].on \in CartOffers

\* The inductive invariant of the cart and the quotes of it.
CartInv == CartTyped /\ QuoteIsOfCart

\* An edit of the cart keeps the invariant.
LEMMA EditKeepsCart ==
    ASSUME CartInv, NEW e \in Editors,
           \/ \E op \in {"add", "update", "remove"}, o \in CartOffers, n \in CartQuantities :
                 EditRead(e, op, o, n)
           \/ WriteLine(e) \/ DeleteLine(e) \/ BumpVersion(e)
    PROVE  CartInv'
<1> USE CheckoutAssumption DEF CartInv
<1>1. ASSUME NEW op \in {"add", "update", "remove"}, NEW o \in CartOffers,
             NEW n \in CartQuantities, EditRead(e, op, o, n)
      PROVE  CartInv'
  <2>1. /\ editor[e].op = "idle" /\ UNCHANGED <<cartVersion, cartLines, checkout, quoted>>
        /\ editor' = [editor EXCEPT ![e] = [op |-> op, on |-> o, quantity |-> n]]
        /\ n \in Nat
    BY <1>1 DEF EditRead, EditorIdle, cartRows, orderSide
  <2>2. CartTyped'
    BY <2>1 DEF CartTyped
  <2>3. RemovalPending' <=> RemovalPending
    BY <2>1 DEF RemovalPending, CartTyped
  <2> QED BY <2>1, <2>2, <2>3 DEF QuoteIsOfCart
<1>2. ASSUME cartVersion' = cartVersion + 1, UNCHANGED <<checkout, quoted>>, CartTyped'
      PROVE  CartInv'
  BY <1>2 DEF QuoteIsOfCart, CartTyped
<1>3. CASE WriteLine(e)
  <2>1. CASE editor[e].op = "update" /\ cartLines[editor[e].on] = 0
    <3>1. /\ UNCHANGED <<cartVersion, cartLines, checkout, quoted>>
          /\ editor' = [editor EXCEPT ![e] = EditorIdle]
      BY <1>3, <2>1 DEF WriteLine, cartRows, orderSide
    <3>2. RemovalPending' <=> RemovalPending
      BY <2>1, <3>1 DEF RemovalPending, CartTyped, EditorIdle
    <3>3. CartTyped'
      BY <3>1 DEF CartTyped, EditorIdle
    <3> QED BY <3>1, <3>2, <3>3 DEF QuoteIsOfCart
  <2>2. CASE ~(editor[e].op = "update" /\ cartLines[editor[e].on] = 0)
    BY <1>2, <1>3, <2>2 DEF WriteLine, CartTyped, EditorIdle, orderSide
  <2> QED BY <2>1, <2>2
<1>4. CASE DeleteLine(e)
  <2>1. /\ editor[e].op = "remove" /\ editor[e].on \in CartOffers
        /\ UNCHANGED <<cartVersion, checkout, quoted>>
        /\ cartLines' = [cartLines EXCEPT ![editor[e].on] = 0]
    BY <1>4 DEF DeleteLine, orderSide, CartTyped
  <2>2. CASE cartLines[editor[e].on] > 0
    <3>1. editor' = [editor EXCEPT ![e] = [editor[e] EXCEPT !.op = "removed"]]
      BY <1>4, <2>2 DEF DeleteLine
    <3>2. CartTyped'
      BY <2>1, <3>1 DEF CartTyped
    <3>3. RemovalPending'
      BY <3>1 DEF RemovalPending, CartTyped
    <3> QED BY <2>1, <3>2, <3>3 DEF QuoteIsOfCart
  <2>3. CASE ~(cartLines[editor[e].on] > 0)
    <3>1. editor' = [editor EXCEPT ![e] = EditorIdle]
      BY <1>4, <2>3 DEF DeleteLine
    <3>2. cartLines' = cartLines
      BY <2>1, <2>3 DEF CartTyped
    <3>3. RemovalPending' <=> RemovalPending
      BY <2>1, <3>1 DEF RemovalPending, CartTyped, EditorIdle
    <3> QED BY <2>1, <3>1, <3>2, <3>3 DEF QuoteIsOfCart, CartTyped, EditorIdle
  <2> QED BY <2>2, <2>3
<1>5. CASE BumpVersion(e)
  BY <1>2, <1>5 DEF BumpVersion, CartTyped, EditorIdle, orderSide
<1> QED BY <1>1, <1>3, <1>4, <1>5

\* A checkout request keeps the invariant, and places the order that was quoted.
LEMMA RequestKeepsCart ==
    ASSUME CartInv, NEW r \in CheckoutRequests,
           \/ Quote(r) \/ Authorize(r) \/ PlaceOrder(r) \/ PlaceOrderFails(r)
           \/ Void(r) \/ Forsake(r)
    PROVE  /\ CartInv'
           /\ \A o \in orderRows' \ orderRows : o.lines # o.quoted => RemovalPending
<1> USE DEF CartInv
<1>1. CASE Quote(r)
  <2>1. /\ UNCHANGED <<cartVersion, cartLines, editor, orderRows>>
        /\ \/ Advance(r, "done") /\ UNCHANGED quoted
           \/ /\ Advance(r, "quoted")
              /\ quoted' = [quoted EXCEPT ![r] = [version |-> cartVersion, lines |-> cartLines]]
    BY <1>1 DEF Quote, cartRows
  <2> QED BY <2>1 DEF CartTyped, QuoteIsOfCart, RemovalPending, Advance
<1>2. CASE Authorize(r) \/ PlaceOrderFails(r) \/ Void(r) \/ Forsake(r)
  <2>1. /\ UNCHANGED <<cartVersion, cartLines, editor, orderRows, quoted>>
        /\ \/ checkout[r] = "quoted" /\ Advance(r, "authorized")
           \/ Advance(r, "done") \/ Advance(r, "failed")
    BY <1>2 DEF Authorize, PlaceOrderFails, Void, Forsake, cartRows
  <2> QED BY <2>1 DEF CartTyped, QuoteIsOfCart, RemovalPending, Advance
<1>3. CASE PlaceOrder(r)
  <2>1. CASE OrderOf(PaymentKey[r]) = {} /\ CartClaimable(r)
    <3>1. /\ MakeOrder(r) /\ CloseCart /\ Advance(r, "done") /\ UNCHANGED <<editor, quoted>>
          /\ checkout[r] = "authorized" /\ quoted[r].version = cartVersion
      BY <1>3, <2>1 DEF PlaceOrder, CartClaimable
    <3>2. CartInv'
      BY <3>1 DEF CloseCart, Advance, CartTyped, QuoteIsOfCart
    <3>3. ~RemovalPending => quoted[r].lines = cartLines
      BY <3>1 DEF QuoteIsOfCart
    <3>4. \A o \in orderRows' \ orderRows : o.lines = cartLines /\ o.quoted = quoted[r].lines
      BY <3>1 DEF MakeOrder
    <3> QED BY <3>2, <3>3, <3>4
  <2>2. CASE ~(OrderOf(PaymentKey[r]) = {} /\ CartClaimable(r))
    <3>1. /\ UNCHANGED <<cartVersion, cartLines, editor, orderRows, quoted>>
          /\ Advance(r, "done") \/ Advance(r, "failed")
      BY <1>3, <2>2 DEF PlaceOrder, cartRows
    <3> QED BY <3>1 DEF CartTyped, QuoteIsOfCart, RemovalPending, Advance
  <2> QED BY <2>1, <2>2
<1> QED BY <1>1, <1>2, <1>3

\* What is ordered is what was quoted and authorized, unless a line is being removed
\* whose version is still to be written (checkout, removeCartLine).
THEOREM OrdersAsQuoted == CheckoutSpec => OrderedAsQuoted
<1> DEFINE Kept == \A o \in orderRows' \ orderRows :
                      o.lines # o.quoted => \E e \in Editors : editor[e].op = "removed"
<1>1. CheckoutInit => CartInv
  BY DEF CheckoutInit, CartInv, CartTyped, QuoteIsOfCart, NoCartLines, EditorIdle
<1>2. CartInv /\ [CheckoutNext]_checkoutVars => CartInv' /\ [Kept]_checkoutVars
  <2> SUFFICES ASSUME CartInv, [CheckoutNext]_checkoutVars PROVE CartInv' /\ [Kept]_checkoutVars
    OBVIOUS
  <2>1. ASSUME NEW e \in Editors,
               \/ \E op \in {"add", "update", "remove"}, o \in CartOffers, n \in CartQuantities :
                     EditRead(e, op, o, n)
               \/ WriteLine(e) \/ DeleteLine(e) \/ BumpVersion(e)
        PROVE  CartInv' /\ Kept
    <3>1. orderRows' = orderRows
      BY <2>1 DEF EditRead, WriteLine, DeleteLine, BumpVersion, orderSide
    <3> QED BY <2>1, <3>1, EditKeepsCart
  <2>2. ASSUME NEW r \in CheckoutRequests,
               \/ Quote(r) \/ Authorize(r) \/ PlaceOrder(r) \/ PlaceOrderFails(r)
               \/ Void(r) \/ Forsake(r)
        PROVE  CartInv' /\ Kept
    BY <2>2, RequestKeepsCart DEF RemovalPending
  <2>3. CASE UNCHANGED checkoutVars
    BY <2>3 DEF checkoutVars, CartInv, CartTyped, QuoteIsOfCart, RemovalPending
  <2> QED BY <2>1, <2>2, <2>3 DEF CheckoutNext
<1> QED BY <1>1, <1>2, PTL DEF CheckoutSpec, OrderedAsQuoted
-----------------------------------------------------------------------------
(***************************************************************************)
(* Returns.  The version of a return counts its passes: a refund that was  *)
(* entered was written with the fourth version at the earliest, and a late *)
(* approval, receipt and inspection bring another four.                    *)
(***************************************************************************)
ReturnsTyped ==
    /\ orderVersion \in Nat
    /\ authorization \in
         [ReturnRequests -> {"NONE", "REQUESTED", "LABEL_ISSUED", "RECEIVED", "RESOLVED"}]
    /\ rmaVersion \in [ReturnRequests -> Nat]
    /\ refundOfLine \in [ReturnRequests -> Refunds]
    /\ refundEntry \in [ReturnRequests -> Refunds]
    /\ restocked \in [ReturnRequests -> Nat]
    /\ restockEntries \subseteq ReturnRequests
    /\ returnClerk \in [ReturnClerks ->
         [op : {"idle", "create", "approve", "receive", "inspect"},
          on : ReturnRequests \cup {None}, version : Nat]]

\* What a clerk works on, but for a return to create, has a row.
ClerksKnow ==
    \A c \in ReturnClerks : returnClerk[c].op \in {"approve", "receive", "inspect"} =>
        returnClerk[c].on \in Created

\* Units were put back once, with the entry of the stock ledger, or not at all.
RestockedByEntry ==
    \A r \in ReturnRequests :
        restocked[r] = IF r \in restockEntries THEN ReturnQuantity[r] ELSE 0

\* How far the version is at least, before and after a refund was entered.
Passed(r) ==
    /\ authorization[r] = "RECEIVED" => rmaVersion[r] >= 2
    /\ refundEntry[r] = 0 => refundOfLine[r] = 0
    /\ refundEntry[r] # 0 =>
         /\ authorization[r] \in {"LABEL_ISSUED", "RECEIVED", "RESOLVED"}
         /\ authorization[r] = "RESOLVED" => rmaVersion[r] >= 4
         /\ authorization[r] = "LABEL_ISSUED" => rmaVersion[r] >= 5
         /\ authorization[r] = "RECEIVED" => rmaVersion[r] >= 6
         /\ refundOfLine[r] # refundEntry[r] => rmaVersion[r] >= 8
    /\ authorization[r] = "LABEL_ISSUED" => rmaVersion[r] >= 1

PassesCounted == \A r \in ReturnRequests : Passed(r)

UnitsCounted == IsFiniteSet(UnitsOn(Created)) /\ ReturnedWithinOrder

\* The inductive invariant of returns.
ReturnsInv == ReturnsTyped /\ ClerksKnow /\ UnitsCounted /\ RestockedByEntry /\ PassesCounted

\* One more return adds its units.
LEMMA UnitsMore ==
    ASSUME NEW R \in SUBSET ReturnRequests, NEW r \in ReturnRequests, r \notin R,
           IsFiniteSet(UnitsOn(R))
    PROVE  /\ IsFiniteSet(UnitsOn(R \cup {r}))
           /\ Cardinality(UnitsOn(R \cup {r})) = Cardinality(UnitsOn(R)) + ReturnQuantity[r]
<1> DEFINE U == {r} \X (1..ReturnQuantity[r])
<1>1. ReturnQuantity[r] \in Nat
  BY ReturnsAssumption
<1>2. IsFiniteSet(1..ReturnQuantity[r]) /\ Cardinality(1..ReturnQuantity[r]) = ReturnQuantity[r]
  BY <1>1, FS_Interval
<1>3. IsFiniteSet({r}) /\ Cardinality({r}) = 1
  BY FS_Singleton
<1>4. IsFiniteSet(U) /\ Cardinality(U) = ReturnQuantity[r]
  <2>1. Cardinality(U) = Cardinality({r}) * Cardinality(1..ReturnQuantity[r]) /\ IsFiniteSet(U)
    BY <1>2, <1>3, FS_Product, Zenon
  <2>2. Cardinality(U) = 1 * ReturnQuantity[r]
    BY <1>2, <1>3, <2>1
  <2> QED BY <1>1, <2>1, <2>2
<1>5. UnitsOn(R \cup {r}) = UnitsOn(R) \cup U
  BY DEF UnitsOn
<1>6. UnitsOn(R) \cap U = {}
  BY DEF UnitsOn
<1> HIDE DEF U
<1>7. Cardinality(UnitsOn(R)) \in Nat
  BY FS_CardinalityType
<1>8. Cardinality(UnitsOn(R) \cap U) = 0
  BY <1>6, FS_EmptySet
<1>9. /\ IsFiniteSet(UnitsOn(R) \cup U)
      /\ Cardinality(UnitsOn(R) \cup U) =
           Cardinality(UnitsOn(R)) + Cardinality(U) - Cardinality(UnitsOn(R) \cap U)
  BY <1>4, FS_Union, Zenon
<1>10. Cardinality(UnitsOn(R) \cup U) = Cardinality(UnitsOn(R)) + ReturnQuantity[r]
  BY <1>1, <1>4, <1>7, <1>8, <1>9
<1> QED BY <1>5, <1>9, <1>10, Zenon

\* A step that creates nothing keeps the units counted, and the clerks' rows.
LEMMA UnitsKept ==
    ASSUME ReturnsInv, Created' = Created PROVE UnitsCounted'
BY DEF ReturnsInv, UnitsCounted, ReturnedWithinOrder, UnitsOn

\* A read keeps the invariant.
LEMMA ReadKeepsReturns ==
    ASSUME ReturnsInv, NEW c \in ReturnClerks, NEW r \in ReturnRequests,
           NEW op \in {"create", "approve", "receive", "inspect"}, NEW version \in Nat,
           ReturnRead(c, op, r, version),
           op # "create" => r \in Created
    PROVE  ReturnsInv'
<1> USE DEF ReturnsInv, ReturnRead
<1>1. Created' = Created
  BY DEF Created
<1>2. ReturnsTyped'
  BY DEF ReturnsTyped
<1>3. ClerksKnow'
  BY <1>1 DEF ClerksKnow, ReturnsTyped
<1> QED BY <1>1, <1>2, <1>3, UnitsKept DEF RestockedByEntry, PassesCounted, Passed

\* The clerk of a write is idle again, and a return it does not create has a row.
LEMMA WriteEnds ==
    ASSUME ReturnsInv, NEW c \in ReturnClerks, NEW r \in ReturnRequests, NEW op,
           ReturnWrite(c, op, r), Created \subseteq Created'
    PROVE  /\ returnClerk' \in [ReturnClerks ->
                 [op : {"idle", "create", "approve", "receive", "inspect"},
                  on : ReturnRequests \cup {None}, version : Nat]]
           /\ ClerksKnow'
           /\ op \in {"approve", "receive", "inspect"} => r \in Created
BY DEF ReturnsInv, ReturnWrite, ReturnsTyped, ClerksKnow, ClerkIdle

\* The creation of a return keeps the invariant.
LEMMA CreateKeepsReturns ==
    ASSUME ReturnsInv, NEW c \in ReturnClerks, NEW r \in ReturnRequests, CreateReturn(c, r)
    PROVE  ReturnsInv'
<1> USE DEF ReturnsInv
<1>1. CASE /\ orderVersion = returnClerk[c].version /\ Unreturned(r)
           /\ \A q \in Created : ReturnKey[q] # ReturnKey[r]
  <2>1. /\ orderVersion' = orderVersion + 1
        /\ authorization' = [authorization EXCEPT ![r] = "REQUESTED"]
        /\ UNCHANGED <<rmaVersion, refundOfLine, restocked, restockEntries, refundEntry>>
    BY <1>1 DEF CreateReturn
  <2>2. r \notin Created /\ Created \subseteq ReturnRequests
    BY <1>1 DEF Created
  <2>3. Created' = Created \cup {r}
    BY <2>1 DEF Created, ReturnsTyped
  <2>4. ReturnsTyped' /\ ClerksKnow'
    BY <2>1, <2>3, WriteEnds DEF CreateReturn, ReturnsTyped
  <2>5. UnitsCounted'
    <3>1. UnitsOn(Created)' = UnitsOn(Created \cup {r})
      BY <2>3 DEF UnitsOn
    <3>2. /\ IsFiniteSet(UnitsOn(Created \cup {r}))
          /\ Cardinality(UnitsOn(Created \cup {r})) =
               Cardinality(UnitsOn(Created)) + ReturnQuantity[r]
      BY <2>2, UnitsMore DEF UnitsCounted
    <3> QED BY <1>1, <3>1, <3>2 DEF Unreturned, UnitsCounted, ReturnedWithinOrder
  <2>6. PassesCounted'
    BY <2>1, <2>2 DEF PassesCounted, Passed, Created, ReturnsTyped
  <2> QED BY <2>1, <2>4, <2>5, <2>6 DEF RestockedByEntry
<1>2. CASE UNCHANGED <<orderVersion, authorization>>
  <2>1. /\ Created' = Created
        /\ UNCHANGED <<rmaVersion, refundOfLine, restocked, restockEntries, refundEntry>>
    BY <1>2 DEF Created, CreateReturn
  <2>2. ReturnsTyped' /\ ClerksKnow'
    BY <1>2, <2>1, WriteEnds DEF CreateReturn, ReturnsTyped
  <2> QED BY <1>2, <2>1, <2>2, UnitsKept DEF RestockedByEntry, PassesCounted, Passed
<1> QED BY <1>1, <1>2 DEF CreateReturn

\* Approval and receipt keep the invariant.
LEMMA MoveKeepsReturns ==
    ASSUME ReturnsInv, NEW c \in ReturnClerks, NEW r \in ReturnRequests,
           ApproveReturn(c, r) \/ ReceiveReturn(c, r)
    PROVE  ReturnsInv'
<1> USE DEF ReturnsInv
<1>1. /\ UNCHANGED <<orderVersion, refundOfLine, restocked, restockEntries, refundEntry>>
      /\ \/ /\ authorization' = [authorization EXCEPT ![r] = "LABEL_ISSUED"]
            /\ rmaVersion' = [rmaVersion EXCEPT ![r] = @ + 1]
         \/ /\ authorization[r] = "LABEL_ISSUED"
            /\ authorization' = [authorization EXCEPT ![r] = "RECEIVED"]
            /\ rmaVersion' = [rmaVersion EXCEPT ![r] = @ + 1]
         \/ UNCHANGED <<authorization, rmaVersion>>
  BY DEF ApproveReturn, ReceiveReturn, ReturnClaimed
<1>2. r \in Created
  BY DEF ApproveReturn, ReceiveReturn, ReturnWrite, ClerksKnow
<1>3. Created' = Created
  BY <1>1, <1>2 DEF Created, ReturnsTyped
<1>4. ReturnsTyped' /\ ClerksKnow'
  <2>1. \E op : ReturnWrite(c, op, r)
    BY DEF ApproveReturn, ReceiveReturn
  <2>2. returnClerk' \in [ReturnClerks ->
           [op : {"idle", "create", "approve", "receive", "inspect"},
            on : ReturnRequests \cup {None}, version : Nat]] /\ ClerksKnow'
    BY <1>3, <2>1, WriteEnds
  <2> QED BY <1>1, <2>2 DEF ReturnsTyped
<1>5. PassesCounted'
  <2> SUFFICES ASSUME NEW q \in ReturnRequests PROVE Passed(q)'
    BY DEF PassesCounted
  <2>1. Passed(q) /\ Passed(r)
    BY DEF PassesCounted
  <2>2. rmaVersion[r] \in Nat /\ rmaVersion[q] \in Nat
    BY DEF ReturnsTyped
  <2> QED BY <1>1, <2>1, <2>2 DEF Passed, ReturnsTyped
<1> QED BY <1>1, <1>3, <1>4, <1>5, UnitsKept DEF RestockedByEntry

\* The inspection keeps the invariant.
LEMMA InspectKeepsReturns ==
    ASSUME ReturnsInv, NEW c \in ReturnClerks, NEW r \in ReturnRequests,
           NEW restock \in BOOLEAN, NEW refund \in Refunds, InspectReturn(c, r, restock, refund)
    PROVE  ReturnsInv'
<1> USE DEF ReturnsInv
<1>1. CASE ReturnClaimed(c, r, "RECEIVED") /\ (restock => RestockKeyFree(r))
  <2>1. /\ authorization' = [authorization EXCEPT ![r] = "RESOLVED"]
        /\ rmaVersion' = [rmaVersion EXCEPT ![r] = @ + 2]
        /\ refundOfLine' = [refundOfLine EXCEPT ![r] = refund]
        /\ refundEntry' = [refundEntry EXCEPT ![r] = IF @ = 0 THEN refund ELSE @]
        /\ restocked' = [restocked EXCEPT ![r] = @ + (IF restock THEN ReturnQuantity[r] ELSE 0)]
        /\ restockEntries' = restockEntries \cup (IF restock THEN {r} ELSE {})
        /\ orderVersion' = orderVersion
        /\ authorization[r] = "RECEIVED"
        /\ restock => r \notin restockEntries
    BY <1>1 DEF InspectReturn, PostRefund, ReturnClaimed, RestockKeyFree
  <2>2. Created' = Created
    BY <2>1 DEF Created, ReturnsTyped
  <2>3. ReturnQuantity \in [ReturnRequests -> Nat]
    BY ReturnsAssumption
  <2>4. ReturnsTyped' /\ ClerksKnow'
    <3>1. restocked' \in [ReturnRequests -> Nat]
      <4>1. restocked[r] \in Nat /\ ReturnQuantity[r] \in Nat
        BY <2>3 DEF ReturnsTyped
      <4>2. restocked[r] + (IF restock THEN ReturnQuantity[r] ELSE 0) \in Nat
        BY <4>1
      <4> QED BY <2>1, <4>2 DEF ReturnsTyped
    <3>2. refundEntry' \in [ReturnRequests -> Refunds]
      BY <2>1 DEF ReturnsTyped
    <3>3. restockEntries' \subseteq ReturnRequests
      BY <2>1 DEF ReturnsTyped
    <3>4. returnClerk' \in [ReturnClerks ->
             [op : {"idle", "create", "approve", "receive", "inspect"},
              on : ReturnRequests \cup {None}, version : Nat]] /\ ClerksKnow'
      BY <2>2, WriteEnds DEF InspectReturn
    <3>5. /\ orderVersion' \in Nat
          /\ authorization' \in
               [ReturnRequests -> {"NONE", "REQUESTED", "LABEL_ISSUED", "RECEIVED", "RESOLVED"}]
          /\ rmaVersion' \in [ReturnRequests -> Nat]
          /\ refundOfLine' \in [ReturnRequests -> Refunds]
      BY <2>1 DEF ReturnsTyped
    <3> QED BY <3>1, <3>2, <3>3, <3>4, <3>5 DEF ReturnsTyped
  <2>5. RestockedByEntry'
    <3>1. \A q \in ReturnRequests : q # r =>
            restocked'[q] = restocked[q] /\ (q \in restockEntries' <=> q \in restockEntries)
      BY <2>1 DEF ReturnsTyped
    <3>2. restocked[r] \in Nat /\ ReturnQuantity[r] \in Nat
      BY <2>3 DEF ReturnsTyped
    <3>3. CASE restock
      <4>1. restocked'[r] = restocked[r] + ReturnQuantity[r] /\ r \in restockEntries'
        BY <2>1, <3>3 DEF ReturnsTyped
      <4>2. restocked[r] = 0
        BY <2>1, <3>3 DEF RestockedByEntry
      <4> QED BY <3>1, <3>2, <4>1, <4>2 DEF RestockedByEntry
    <3>4. CASE ~restock
      <4>1. restocked'[r] = restocked[r] + 0 /\ restockEntries' = restockEntries
        BY <2>1, <3>4 DEF ReturnsTyped
      <4> QED BY <3>1, <3>2, <4>1 DEF RestockedByEntry
    <3> QED BY <3>3, <3>4
  <2>6. PassesCounted'
    <3> SUFFICES ASSUME NEW q \in ReturnRequests PROVE Passed(q)'
      BY DEF PassesCounted
    <3>1. Passed(q) /\ Passed(r)
      BY DEF PassesCounted
    <3>2. rmaVersion[r] \in Nat /\ refundEntry[r] \in Nat /\ refund \in Nat
      BY DEF ReturnsTyped, Refunds
    <3>3. CASE q # r
      BY <2>1, <3>1, <3>3 DEF Passed, ReturnsTyped
    <3>4. CASE q = r
      <4>1. /\ authorization'[r] = "RESOLVED" /\ rmaVersion'[r] = rmaVersion[r] + 2
            /\ refundOfLine'[r] = refund
            /\ refundEntry'[r] = IF refundEntry[r] = 0 THEN refund ELSE refundEntry[r]
        BY <2>1 DEF ReturnsTyped
      <4> QED BY <2>1, <3>1, <3>2, <3>4, <4>1 DEF Passed
    <3> QED BY <3>3, <3>4
  <2> QED BY <2>2, <2>4, <2>5, <2>6, UnitsKept
<1>2. CASE UNCHANGED <<authorization, rmaVersion, refundOfLine, refundEntry, restocked,
                       restockEntries>>
  <2>1. Created' = Created /\ orderVersion' = orderVersion
    BY <1>2 DEF Created, InspectReturn
  <2>2. ReturnsTyped' /\ ClerksKnow'
    BY <1>2, <2>1, WriteEnds DEF InspectReturn, ReturnsTyped
  <2> QED BY <1>2, <2>1, <2>2, UnitsKept DEF RestockedByEntry, PassesCounted, Passed
<1> QED BY <1>1, <1>2 DEF InspectReturn

\* The units ordered, the stock and the ledger agree about the returns of a
\* line, through races, retries and late approvals (createReturn, approveReturn,
\* receiveReturn, inspectReturn, postJournalInTransaction).
THEOREM ReturnsAgreed == ReturnsSpec => []ReturnsAgree
<1>1. ReturnsInit => ReturnsInv
  <2> SUFFICES ASSUME ReturnsInit PROVE ReturnsInv
    OBVIOUS
  <2>1. UnitsOn(Created) = {}
    BY DEF ReturnsInit, Created, UnitsOn
  <2>2. UnitsCounted
    BY <2>1, FS_EmptySet, ReturnsAssumption DEF UnitsCounted, ReturnedWithinOrder
  <2>3. ReturnsTyped /\ ClerksKnow
    BY DEF ReturnsInit, ReturnsTyped, ClerksKnow, ClerkIdle, Refunds
  <2>4. RestockedByEntry /\ PassesCounted
    BY DEF ReturnsInit, RestockedByEntry, PassesCounted, Passed
  <2> QED BY <2>2, <2>3, <2>4 DEF ReturnsInv
<1>2. ReturnsInv /\ [ReturnsNext]_returnsVars => ReturnsInv'
  <2> SUFFICES ASSUME ReturnsInv, [ReturnsNext]_returnsVars PROVE ReturnsInv'
    OBVIOUS
  <2>1. ASSUME NEW c \in ReturnClerks, NEW r \in ReturnRequests,
               \/ CreateReturnRead(c, r) \/ ApproveReturnRead(c, r)
               \/ ReceiveReturnRead(c, r) \/ InspectReturnRead(c, r)
        PROVE  ReturnsInv'
    <3>1. orderVersion \in Nat /\ rmaVersion[r] \in Nat
      BY DEF ReturnsInv, ReturnsTyped
    <3>2. CASE CreateReturnRead(c, r)
      BY <3>1, <3>2, ReadKeepsReturns DEF CreateReturnRead
    <3>3. CASE ApproveReturnRead(c, r)
      BY <3>1, <3>3, ReadKeepsReturns DEF ApproveReturnRead, Created
    <3>4. CASE ReceiveReturnRead(c, r)
      BY <3>1, <3>4, ReadKeepsReturns DEF ReceiveReturnRead, Created
    <3>5. CASE InspectReturnRead(c, r)
      BY <3>1, <3>5, ReadKeepsReturns DEF InspectReturnRead, Created
    <3> QED BY <2>1, <3>2, <3>3, <3>4, <3>5
  <2>2. CASE UNCHANGED returnsVars
    BY <2>2 DEF returnsVars, ReturnsInv, ReturnsTyped, ClerksKnow, UnitsCounted,
                ReturnedWithinOrder, UnitsOn, Created, RestockedByEntry, PassesCounted, Passed
  <2> QED BY <2>1, <2>2, CreateKeepsReturns, MoveKeepsReturns, InspectKeepsReturns
          DEF ReturnsNext
<1>3. ReturnsInv => ReturnsAgree
  <2> SUFFICES ASSUME ReturnsInv PROVE ReturnsAgree
    OBVIOUS
  <2>1. ReturnedWithinOrder /\ RefundedAtMostOnce
    BY DEF ReturnsInv, UnitsCounted, ReturnsTyped, RefundedAtMostOnce
  <2>2. RestockedAtMostOnce
    BY ReturnsAssumption DEF ReturnsInv, RestockedByEntry, RestockedAtMostOnce
  <2>3. LedgerAgreesUnlessReopened
    BY DEF ReturnsInv, PassesCounted, Passed, LedgerAgreesUnlessReopened
  <2> QED BY <2>1, <2>2, <2>3 DEF ReturnsAgree
<1> QED BY <1>1, <1>2, <1>3, PTL DEF ReturnsSpec

-----------------------------------------------------------------------------
(***************************************************************************)
(* Numbering.  The lock of the row lets one transaction hold a number, and *)
(* that number is the next one.                                            *)
(***************************************************************************)
NumberingTyped ==
    /\ nextValue \in [Kinds -> Nat]
    /\ numbers \in [Kinds -> Seq(Nat)]
    /\ drawer \in [Drawers -> [kind : Kinds \cup {None}, found : BOOLEAN, number : Nat]]

\* The row and every number that is drawn continue the stored documents.
NextContinues ==
    /\ \A k \in Kinds :
         nextValue[k] = IF numbers[k] = <<>> THEN 0 ELSE Len(numbers[k]) + 1
    /\ \A c \in Drawers :
         /\ drawer[c].number # 0 => /\ drawer[c].kind \in Kinds
                                    /\ drawer[c].number = Len(numbers[drawer[c].kind]) + 1
         /\ drawer[c].found => drawer[c].kind \in Kinds /\ nextValue[drawer[c].kind] # 0

\* The row is held by one transaction.
OneHolder ==
    \A c, d \in Drawers :
        drawer[c].number # 0 /\ drawer[d].number # 0 /\ drawer[c].kind = drawer[d].kind => c = d

\* The inductive invariant of numbers.
NumbersInv == NumberingTyped /\ NextContinues /\ OneHolder /\ NumberedWithoutGaps

\* A transaction that draws a number keeps the invariant.
LEMMA DrawKeepsNumbers ==
    ASSUME NumbersInv, NEW c \in Drawers, NEW k \in Kinds, Draw(c, k) \/ DrawFirst(c, k)
    PROVE  NumbersInv'
<1> USE DEF NumbersInv, NumberingTyped
<1>1. /\ drawer[c].kind = k /\ drawer[c].number = 0 /\ Unlocked(k)
      /\ UNCHANGED <<nextValue, numbers>>
  BY DEF Draw, DrawFirst
<1>2. PICK n \in Nat :
        /\ drawer' = [drawer EXCEPT ![c].number = n]
        /\ n = Len(numbers[k]) + 1
  BY DEF Draw, DrawFirst, NextContinues
<1>3. NumberingTyped'
  BY <1>1, <1>2
<1>4. /\ drawer'[c].number = Len(numbers[k]) + 1 /\ drawer'[c].kind = k
      /\ drawer'[c].found = drawer[c].found
      /\ \A d \in Drawers : d # c => drawer'[d] = drawer[d]
  BY <1>1, <1>2
<1>5. NextContinues'
  <2>1. \A j \in Kinds :
          nextValue'[j] = IF numbers'[j] = <<>> THEN 0 ELSE Len(numbers'[j]) + 1
    BY <1>1 DEF NextContinues
  <2>2. ASSUME NEW d \in Drawers
        PROVE  /\ drawer'[d].number # 0 =>
                    /\ drawer'[d].kind \in Kinds
                    /\ drawer'[d].number = Len(numbers'[drawer'[d].kind]) + 1
               /\ drawer'[d].found =>
                    drawer'[d].kind \in Kinds /\ nextValue'[drawer'[d].kind] # 0
    <3>1. CASE d = c
      <4>1. drawer[c].found => nextValue[k] # 0
        BY <1>1 DEF NextContinues
      <4> QED BY <1>1, <1>4, <3>1, <4>1
    <3>2. CASE d # c
      BY <1>1, <1>4, <3>2 DEF NextContinues
    <3> QED BY <3>1, <3>2
  <2> QED BY <2>1, <2>2 DEF NextContinues
<1>6. OneHolder'
  <2>1. \A d \in Drawers : d # c => ~(drawer'[d].number # 0 /\ drawer'[d].kind = k)
    BY <1>1, <1>4 DEF Unlocked
  <2> QED BY <1>4, <2>1 DEF OneHolder
<1> QED BY <1>1, <1>3, <1>5, <1>6 DEF NumberedWithoutGaps

\* A transaction that ends keeps the invariant.
LEMMA EndKeepsNumbers ==
    ASSUME NumbersInv, NEW c \in Drawers, drawer' = [drawer EXCEPT ![c] = DrawerIdle],
           \/ UNCHANGED <<nextValue, numbers>>
           \/ \E k \in Kinds : CommitNumber(c, k)
    PROVE  NumbersInv'
<1> USE DEF NumbersInv, NumberingTyped
<1>1. \A d \in Drawers : drawer'[d] = IF d = c THEN DrawerIdle ELSE drawer[d]
  OBVIOUS
<1>2. OneHolder'
  BY <1>1 DEF OneHolder, DrawerIdle
<1>3. CASE UNCHANGED <<nextValue, numbers>>
  <2>1. NumberingTyped'
    BY <1>3 DEF DrawerIdle
  <2>2. NextContinues'
    BY <1>1, <1>3 DEF NextContinues, DrawerIdle
  <2> QED BY <1>2, <1>3, <2>1, <2>2 DEF NumberedWithoutGaps
<1>4. ASSUME NEW k \in Kinds, CommitNumber(c, k) PROVE NumbersInv'
  <2> DEFINE n == drawer[c].number
  <2>1. /\ drawer[c].kind = k /\ n # 0 /\ n = Len(numbers[k]) + 1 /\ n \in Nat
        /\ nextValue' = [nextValue EXCEPT ![k] = n + 1]
        /\ numbers' = [numbers EXCEPT ![k] = Append(numbers[k], n)]
    BY <1>4 DEF CommitNumber, NextContinues
  <2>2. Append(numbers[k], n) \in Seq(Nat) /\ Len(Append(numbers[k], n)) = n
    BY <2>1
  <2>3. NumberingTyped'
    BY <2>1, <2>2 DEF DrawerIdle
  <2>4. /\ numbers'[k] # <<>> /\ Len(numbers'[k]) = n /\ nextValue'[k] = n + 1
        /\ \A j \in Kinds : j # k => numbers'[j] = numbers[j] /\ nextValue'[j] = nextValue[j]
    BY <2>1, <2>2
  <2>5. \A d \in Drawers : d # c /\ drawer[d].number # 0 => drawer[d].kind # k
    BY <2>1 DEF OneHolder
  <2>6. NextContinues'
    BY <1>1, <2>1, <2>4, <2>5 DEF NextContinues, DrawerIdle
  <2>7. NumberedWithoutGaps'
    <3>1. \A m \in DOMAIN Append(numbers[k], n) : Append(numbers[k], n)[m] = m
      BY <2>1 DEF NumberedWithoutGaps
    <3> QED BY <2>1, <3>1 DEF NumberedWithoutGaps
  <2> QED BY <1>2, <2>3, <2>6, <2>7
<1> QED BY <1>3, <1>4

\* The numbers of invoices, bookings and other documents run on without a gap
\* or a repetition, whatever is rolled back (nextInvoiceNumber, nextNumber).
THEOREM NumbersWithoutGaps == NumberingSpec => []NumberedWithoutGaps
<1>1. NumberingInit => NumbersInv
  BY DEF NumberingInit, NumbersInv, NumberingTyped, NextContinues, OneHolder,
         NumberedWithoutGaps, DrawerIdle
<1>2. NumbersInv /\ [NumberingNext]_numberingVars => NumbersInv'
  <2> SUFFICES ASSUME NumbersInv, [NumberingNext]_numberingVars PROVE NumbersInv'
    OBVIOUS
  <2>1. ASSUME NEW c \in Drawers, NEW k \in Kinds, LookUp(c, k) PROVE NumbersInv'
    BY <2>1 DEF LookUp, NumbersInv, NumberingTyped, NextContinues, OneHolder,
                NumberedWithoutGaps, DrawerIdle
  <2>2. ASSUME NEW c \in Drawers, NEW k \in Kinds, Draw(c, k) \/ DrawFirst(c, k)
        PROVE  NumbersInv'
    BY <2>2, DrawKeepsNumbers
  <2>3. ASSUME NEW c \in Drawers,
               \/ \E k \in Kinds : DrawRefused(c, k) \/ CommitNumber(c, k)
               \/ RollbackNumber(c)
        PROVE  NumbersInv'
    BY <2>3, EndKeepsNumbers DEF DrawRefused, RollbackNumber, CommitNumber
  <2>4. CASE UNCHANGED numberingVars
    BY <2>4 DEF numberingVars, NumbersInv, NumberingTyped, NextContinues, OneHolder,
                NumberedWithoutGaps
  <2> QED BY <2>1, <2>2, <2>3, <2>4 DEF NumberingNext
<1>3. NumbersInv => NumberedWithoutGaps
  BY DEF NumbersInv
<1> QED BY <1>1, <1>2, <1>3, PTL DEF NumberingSpec

-----------------------------------------------------------------------------
(***************************************************************************)
(* Procurement.  Deliveries only add up, so that what a transaction has    *)
(* seen of a line is never more than there is.                             *)
(***************************************************************************)
ProcurementTyped ==
    /\ orders \in [Proposals -> Nat]
    /\ fulfilled \in [Proposals -> [ItemLines -> Nat]]
    /\ invoices \in [Proposals -> Nat]
    /\ seller \in [Sellers -> [order : Proposals \cup {None}, seen : [ItemLines -> Nat],
                               parcel : [first : [ItemLines -> Nat], again : [ItemLines -> Nat]]]]

\* What a delivery has seen has been delivered.
SeenIsDelivered ==
    \A s \in Sellers : seller[s].order \in Proposals =>
        \A l \in ItemLines : seller[s].seen[l] <= fulfilled[seller[s].order][l]

\* The inductive invariant of purchases.
PurchaseInv == ProcurementTyped /\ SeenIsDelivered /\ OneOrderPerQuote /\ InvoiceCoversDelivery

\* A delivery keeps the invariant.
LEMMA FulfillKeepsPurchases ==
    ASSUME PurchaseInv, NEW s \in Sellers, NEW q \in Proposals, Fulfill(s, q)
    PROVE  PurchaseInv'
<1> USE DEF PurchaseInv, ProcurementTyped
<1>0. /\ seller[s].order = q /\ orders' = orders
      /\ seller' = [seller EXCEPT ![s] = SellerIdle]
      /\ SellerIdle \in [order : Proposals \cup {None}, seen : [ItemLines -> Nat],
                         parcel : [first : [ItemLines -> Nat], again : [ItemLines -> Nat]]]
      /\ SellerIdle.order \notin Proposals
  BY ProcurementAssumption DEF Fulfill, SellerIdle, NoLines, NoParcel
<1>1. CASE Fits(s) /\ ~(Complete(s, q) /\ invoices[q] > 0)
  <2>1. \A l \in ItemLines : Given(s, l) \in Nat
    BY DEF Given
  <2>2. fulfilled' = [fulfilled EXCEPT ![q] = [l \in ItemLines |-> fulfilled[q][l] + Given(s, l)]]
    BY <1>1 DEF Fulfill
  <2>3. /\ fulfilled' \in [Proposals -> [ItemLines -> Nat]]
        /\ \A p \in Proposals, l \in ItemLines : fulfilled[p][l] <= fulfilled'[p][l]
        /\ \A l \in ItemLines : fulfilled'[q][l] = fulfilled[q][l] + Given(s, l)
    BY <2>1, <2>2
  <2>4. /\ invoices' \in [Proposals -> Nat]
        /\ \A p \in Proposals : invoices'[p] = invoices[p] \/ (p = q /\ Complete(s, q))
    <3>1. CASE Complete(s, q)
      <4>1. invoices' = [invoices EXCEPT ![q] = invoices[q] + 1]
        BY <1>1, <3>1 DEF Fulfill
      <4> QED BY <3>1, <4>1
    <3>2. CASE ~Complete(s, q)
      BY <1>1, <3>2 DEF Fulfill
    <3> QED BY <3>1, <3>2
  <2>5. SeenIsDelivered'
    BY <1>0, <2>3 DEF SeenIsDelivered
  <2>6. InvoiceCoversDelivery'
    <3> SUFFICES ASSUME NEW p \in Proposals, invoices'[p] > 0, NEW l \in ItemLines
                 PROVE  fulfilled'[p][l] >= Quantity[l]
      BY DEF InvoiceCoversDelivery
    <3>1. /\ Quantity[l] \in Nat /\ fulfilled[p][l] \in Nat /\ fulfilled'[p][l] \in Nat
          /\ fulfilled[p][l] <= fulfilled'[p][l] /\ Given(s, l) \in Nat
          /\ seller[s].seen[l] \in Nat
      BY <2>1, <2>3, ProcurementAssumption
    <3>2. CASE invoices'[p] = invoices[p]
      BY <3>1, <3>2 DEF InvoiceCoversDelivery
    <3>3. CASE p = q /\ Complete(s, q)
      <4>1. Quantity[l] = IF Given(s, l) > 0 THEN fulfilled[q][l] + Given(s, l)
                                            ELSE seller[s].seen[l]
        BY <3>3 DEF Complete
      <4>2. seller[s].seen[l] <= fulfilled[q][l]
        BY <1>0 DEF SeenIsDelivered
      <4> QED BY <2>3, <3>1, <3>3, <4>1, <4>2
    <3> QED BY <2>4, <3>2, <3>3
  <2> QED BY <1>0, <2>3, <2>4, <2>5, <2>6 DEF OneOrderPerQuote
<1>2. CASE UNCHANGED <<fulfilled, invoices>>
  BY <1>0, <1>2 DEF SeenIsDelivered, OneOrderPerQuote, InvoiceCoversDelivery
<1> QED BY <1>1, <1>2 DEF Fulfill

\* The invariant of purchases holds in every state.
LEMMA PurchasesSound == ProcurementSpec => []PurchaseInv
<1>1. ProcurementInit => PurchaseInv
  BY ProcurementAssumption
     DEF ProcurementInit, PurchaseInv, ProcurementTyped, SeenIsDelivered, OneOrderPerQuote,
         InvoiceCoversDelivery, SellerIdle, NoLines, NoParcel
<1>2. PurchaseInv /\ [ProcurementNext]_procurementVars => PurchaseInv'
  <2> SUFFICES ASSUME PurchaseInv, [ProcurementNext]_procurementVars PROVE PurchaseInv'
    OBVIOUS
  <2> USE DEF PurchaseInv, ProcurementTyped
  <2>1. ASSUME UNCHANGED <<orders, fulfilled, invoices, seller>> PROVE PurchaseInv'
    BY <2>1 DEF SeenIsDelivered, OneOrderPerQuote, InvoiceCoversDelivery
  <2>2. ASSUME NEW b \in Buyers, NEW q \in Proposals, Accept(b, q) PROVE PurchaseInv'
    <3>1. UNCHANGED <<fulfilled, invoices, seller>>
      BY <2>2 DEF Accept
    <3>2. orders' = orders \/ (orders[q] = 0 /\ orders' = [orders EXCEPT ![q] = orders[q] + 1])
      BY <2>2 DEF Accept, QuoteFree
    <3>3. orders' \in [Proposals -> Nat] /\ OneOrderPerQuote'
      <4>1. CASE orders' = orders
        BY <4>1 DEF OneOrderPerQuote
      <4>2. CASE orders[q] = 0 /\ orders' = [orders EXCEPT ![q] = orders[q] + 1]
        <5>1. \A p \in Proposals : orders'[p] = IF p = q THEN 1 ELSE orders[p]
          BY <4>2
        <5>2. orders' \in [Proposals -> Nat]
          BY <4>2
        <5> QED BY <5>1, <5>2 DEF OneOrderPerQuote
      <4> QED BY <3>2, <4>1, <4>2
    <3> QED BY <3>1, <3>3 DEF SeenIsDelivered, InvoiceCoversDelivery
  <2>3. ASSUME NEW s \in Sellers, NEW q \in Proposals, NEW parcel \in Parcels,
               FulfillBegin(s, q, parcel)
        PROVE  PurchaseInv'
    <3>1. parcel \in [first : [ItemLines -> Nat], again : [ItemLines -> Nat]]
      BY ProcurementAssumption
    <3>2. /\ seller' = [seller EXCEPT ![s] =
                          [order |-> q, seen |-> fulfilled[q], parcel |-> parcel]]
          /\ UNCHANGED <<orders, fulfilled, invoices>>
      BY <2>3 DEF FulfillBegin
    <3>3. ProcurementTyped'
      BY <3>1, <3>2
    <3>4. SeenIsDelivered'
      BY <3>2 DEF SeenIsDelivered
    <3> QED BY <3>2, <3>3, <3>4 DEF OneOrderPerQuote, InvoiceCoversDelivery
  <2> QED
    BY <2>1, <2>2, <2>3, FulfillKeepsPurchases
       DEF ProcurementNext, procurementVars, TimePasses, SendQuoteRead, SendQuote, AcceptRead,
           ApproveOrderRead, ApproveOrder
<1> QED BY <1>1, <1>2, PTL DEF ProcurementSpec


\* More than was ordered is delivered only by a request that names the line twice,
\* or by one whose transaction began before another delivery of the line had
\* committed: what it compares is its snapshot (fulfill).
THEOREM OverdeliveriesExplained == ProcurementSpec => OverdeliveryExplained
<1> DEFINE Explained(q, l) ==
      (fulfilled[q][l] <= Quantity[l] /\ fulfilled'[q][l] > Quantity[l]) =>
         \E s \in Sellers :
            /\ seller[s].order = q
            /\ \/ seller[s].seen[l] < fulfilled[q][l]
               \/ seller[s].parcel.again[l] > 0
<1>1. ASSUME PurchaseInv, ProcurementNext, NEW q \in Proposals, NEW l \in ItemLines
      PROVE  Explained(q, l)
  <2> USE <1>1 DEF PurchaseInv, ProcurementTyped
  <2> SUFFICES ASSUME fulfilled[q][l] <= Quantity[l], fulfilled'[q][l] > Quantity[l]
               PROVE  \E s \in Sellers :
                        /\ seller[s].order = q
                        /\ \/ seller[s].seen[l] < fulfilled[q][l]
                           \/ seller[s].parcel.again[l] > 0
    OBVIOUS
  <2>0. Quantity[l] \in Nat /\ fulfilled[q][l] \in Nat
    BY ProcurementAssumption
  <2>1. fulfilled' # fulfilled
    BY <2>0
  <2>2. PICK s \in Sellers, p \in Proposals : Fulfill(s, p)
    BY <2>1 DEF ProcurementNext, TimePasses, SendQuoteRead, SendQuote, AcceptRead, Accept,
                ApproveOrderRead, ApproveOrder, FulfillBegin
  <2>3. /\ seller[s].order = p /\ Fits(s)
        /\ fulfilled' = [fulfilled EXCEPT ![p] = [k \in ItemLines |-> fulfilled[p][k] + Given(s, k)]]
    BY <2>1, <2>2 DEF Fulfill
  <2>4. p = q /\ fulfilled'[q][l] = fulfilled[q][l] + Given(s, l)
    <3>1. p # q => fulfilled'[q] = fulfilled[q]
      BY <2>3
    <3>2. p = q
      BY <2>0, <3>1
    <3> QED BY <2>3, <3>2
  <2>5. /\ seller[s].parcel.first[l] \in Nat /\ seller[s].parcel.again[l] \in Nat
        /\ seller[s].seen[l] \in Nat
    OBVIOUS
  <2>6. CASE seller[s].parcel.again[l] > 0
    BY <2>3, <2>4, <2>6
  <2>7. CASE seller[s].parcel.again[l] = 0
    <3>1. fulfilled'[q][l] = fulfilled[q][l] + seller[s].parcel.first[l]
      BY <2>0, <2>4, <2>5, <2>7 DEF Given
    <3>2. seller[s].parcel.first[l] > 0
      BY <2>0, <2>5, <3>1
    <3>3. seller[s].seen[l] + seller[s].parcel.first[l] <= Quantity[l]
      BY <2>3, <3>2 DEF Fits
    <3>4. seller[s].seen[l] < fulfilled[q][l]
      BY <2>0, <2>5, <3>1, <3>3
    <3> QED BY <2>3, <2>4, <3>4
  <2> QED BY <2>5, <2>6, <2>7
<1>2. PurchaseInv /\ [ProcurementNext]_procurementVars =>
        [\A q \in Proposals, l \in ItemLines : Explained(q, l)]_procurementVars
  BY <1>1
<1> QED BY <1>2, PurchasesSound, PTL DEF ProcurementSpec, OverdeliveryExplained
-----------------------------------------------------------------------------
(***************************************************************************)
(* Freight.  The number a new quote gets was free when it was read, and    *)
(* the stored numbers are 1..n: if it still is free it is n + 1.           *)
(***************************************************************************)
QuoteStates == {"NONE", "DRAFT", "PUBLISHED", "SUPERSEDED", "DECLINED", "ACCEPTED"}

FreightTyped ==
    /\ quote \in [Quotes -> QuoteStates]
    /\ revision \in [Quotes -> Nat]
    /\ booked \in [FreightRequests -> Quotes \cup {None}]
    /\ DOMAIN freightCaller = FreightCallers

\* What a caller does about a quote, the quote has come so far.
QuoteOps == {"publish", "decline", "accept"}

CallersKnowQuotes ==
    \A c \in FreightCallers : \A q \in Quotes :
        /\ \A op \in QuoteOps : Doing(c, op, q) => quote[q] # "NONE"
        /\ Doing(c, "quote", q) =>
             /\ quote[q] = "NONE"
             /\ freightCaller[c].seen \in 1..(Cardinality(Stored(QuoteRequest[q])) + 1)
             /\ \A d \in FreightCallers : Doing(d, "quote", q) => d = c

StoredFinite == \A f \in FreightRequests : IsFiniteSet(Stored(f))

\* The inductive invariant of quotes.
QuotesInv ==
    FreightTyped /\ CallersKnowQuotes /\ StoredFinite /\ RevisionsCount /\ AcceptedIsBooked

\* A step that stores no quote keeps the stored quotes as they are.
LEMMA StoredKept ==
    ASSUME NEW f \in FreightRequests, revision' = revision,
           \A q \in Quotes : quote'[q] = "NONE" <=> quote[q] = "NONE"
    PROVE  Stored(f)' = Stored(f) /\ {revision[q] : q \in Stored(f)}' = {revision[q] : q \in Stored(f)}
<1>1. Stored(f)' = Stored(f)
  BY DEF Stored, QuotesOf
<1> QED BY <1>1

\* The largest revision of a request is the number of its quotes.
LEMMA MaxRevisionCounts ==
    ASSUME QuotesInv, NEW f \in FreightRequests
    PROVE  MaxRevision(f) = Cardinality(Stored(f)) /\ Cardinality(Stored(f)) \in Nat
<1> DEFINE n == Cardinality(Stored(f))
           R == {0} \cup {revision[q] : q \in Stored(f)}
<1>1. n \in Nat
  BY FS_CardinalityType DEF QuotesInv, StoredFinite
<1>2. {revision[q] : q \in Stored(f)} = 1..n
  BY DEF QuotesInv, RevisionsCount
<1> HIDE DEF n
<1>3. R = 0..n
  BY <1>1, <1>2
<1>4. \A m \in R : (\A q \in Stored(f) : revision[q] <= m) <=> m = n
  <2> SUFFICES ASSUME NEW m \in R PROVE (\A q \in Stored(f) : revision[q] <= m) <=> m = n
    OBVIOUS
  <2>1. \A q \in Stored(f) : revision[q] \in 1..n
    BY <1>2
  <2>2. n # 0 => \E q \in Stored(f) : revision[q] = n
    <3>1. n # 0 => n \in 1..n
      BY <1>1
    <3> QED BY <1>2, <3>1
  <2> QED BY <1>1, <1>3, <2>1, <2>2
<1>5. n \in R
  BY <1>1, <1>3
<1>6. MaxRevision(f) = n
  BY <1>4, <1>5 DEF MaxRevision
<1> QED BY <1>1, <1>6 DEF n

\* A step that stores no quote, ends no more than one caller's work and books
\* what is accepted keeps the invariant.
LEMMA QuotesKept ==
    ASSUME QuotesInv, NEW c \in FreightCallers,
           freightCaller' = freightCaller \/ Finished(c), revision' = revision,
           quote' \in [Quotes -> QuoteStates], booked' \in [FreightRequests -> Quotes \cup {None}],
           \A q \in Quotes : quote'[q] = "NONE" <=> quote[q] = "NONE",
           AcceptedIsBooked'
    PROVE  QuotesInv'
<1> USE FreightAssumption DEF QuotesInv
<1>1. FreightTyped'
  BY DEF FreightTyped, Finished
<1>2. \A f \in FreightRequests : Stored(f)' = Stored(f)
  BY StoredKept
<1>3. \A op \in QuoteOps \cup {"quote"} : \A q \in Quotes, d \in FreightCallers :
        Doing(d, op, q)' => Doing(d, op, q) /\ freightCaller'[d] = freightCaller[d]
  BY DEF Doing, Finished, FreightIdle, FreightTyped, QuoteOps
<1>4. CallersKnowQuotes'
  BY <1>2, <1>3 DEF CallersKnowQuotes, QuoteOps
<1>5. StoredFinite' /\ RevisionsCount'
  BY <1>2 DEF StoredFinite, RevisionsCount
<1> QED BY <1>1, <1>4, <1>5

\* A check keeps the invariant.
LEMMA CheckKeepsQuotes ==
    ASSUME QuotesInv, NEW c \in FreightCallers, NEW op, NEW x, NEW n, Checked(c, op, x, n),
           \/ op \in {"edit", "submit", "cancel", "estimate"}
           \/ x \in Quotes /\ op \in QuoteOps /\ quote[x] # "NONE"
           \/ /\ x \in Quotes /\ op = "quote" /\ quote[x] = "NONE"
              /\ n \in 1..(Cardinality(Stored(QuoteRequest[x])) + 1)
              /\ \A d \in FreightCallers : ~Doing(d, "quote", x)
    PROVE  QuotesInv'
<1> USE DEF QuotesInv
<1>1. /\ freightCaller' = [freightCaller EXCEPT ![c] = [op |-> op, about |-> x, seen |-> n]]
      /\ UNCHANGED <<quote, revision, booked>>
  BY DEF Checked
<1>2. FreightTyped'
  BY <1>1 DEF FreightTyped
<1>3. \A f \in FreightRequests : Stored(f)' = Stored(f)
  BY <1>1 DEF Stored, QuotesOf
<1>4. /\ freightCaller'[c] = [op |-> op, about |-> x, seen |-> n]
      /\ \A d \in FreightCallers : d # c => freightCaller'[d] = freightCaller[d]
  BY <1>1 DEF FreightTyped
<1>5. \A o, q : Doing(c, o, q)' <=> o = op /\ q = x
  BY <1>4 DEF Doing
<1>6. \A o, q : \A d \in FreightCallers : d # c => (Doing(d, o, q)' <=> Doing(d, o, q))
  BY <1>4 DEF Doing
<1>7. CallersKnowQuotes'
  <2> SUFFICES ASSUME NEW d \in FreightCallers, NEW q \in Quotes
               PROVE  /\ \A o \in QuoteOps : Doing(d, o, q)' => quote'[q] # "NONE"
                      /\ Doing(d, "quote", q)' =>
                           /\ quote'[q] = "NONE"
                           /\ freightCaller'[d].seen
                                \in 1..(Cardinality(Stored(QuoteRequest[q])') + 1)
                           /\ \A e \in FreightCallers : Doing(e, "quote", q)' => e = d
    BY DEF CallersKnowQuotes
  <2>1. Stored(QuoteRequest[q])' = Stored(QuoteRequest[q])
    BY <1>3, FreightAssumption
  <2>2. CASE d = c
    BY <1>1, <1>4, <1>5, <1>6, <2>1, <2>2 DEF QuoteOps, CallersKnowQuotes
  <2>3. CASE d # c
    BY <1>1, <1>4, <1>5, <1>6, <2>1, <2>3 DEF QuoteOps, CallersKnowQuotes
  <2> QED BY <2>2, <2>3
<1>8. StoredFinite' /\ RevisionsCount' /\ AcceptedIsBooked'
  BY <1>1, <1>3 DEF StoredFinite, RevisionsCount, AcceptedIsBooked
<1> QED BY <1>2, <1>7, <1>8

\* A new quote takes the next number, and the invariant holds.
LEMMA NewQuoteCounts ==
    ASSUME QuotesInv, NEW c \in FreightCallers, NEW q \in Quotes, CreateQuote(c, q)
    PROVE  QuotesInv'
<1> USE DEF QuotesInv
<1> DEFINE f == QuoteRequest[q]
           n == freightCaller[c].seen
           m == Cardinality(Stored(f))
<1>0. /\ f \in FreightRequests /\ Doing(c, "quote", q) /\ quote[q] = "NONE" /\ n \in 1..(m + 1)
      /\ Finished(c) /\ booked' = booked
  BY FreightAssumption DEF CreateQuote, CallersKnowQuotes
<1>1. IsFiniteSet(Stored(f)) /\ m \in Nat /\ {revision[p] : p \in Stored(f)} = 1..m
  BY <1>0, FS_CardinalityType DEF StoredFinite, RevisionsCount
<1>2. CASE ~RevisionFree(f, n)
  <2>1. UNCHANGED <<quote, revision>>
    BY <1>2 DEF CreateQuote
  <2> QED BY <1>0, <2>1, QuotesKept DEF FreightTyped, AcceptedIsBooked
<1>3. CASE RevisionFree(f, n)
  <2>1. /\ quote' = [p \in Quotes |->
               IF p = q THEN "DRAFT"
               ELSE IF p \in QuotesOf(f) /\ quote[p] \in {"DRAFT", "PUBLISHED"}
                 THEN "SUPERSEDED" ELSE quote[p]]
        /\ revision' = [revision EXCEPT ![q] = n]
    BY <1>3 DEF CreateQuote
  <2>2. n \notin 1..m
    BY <1>1, <1>3 DEF RevisionFree
  <2>3. n = m + 1
    BY <1>0, <1>1, <2>2
  <2>4. /\ \A p \in Quotes : p # q => (quote'[p] = "NONE" <=> quote[p] = "NONE")
        /\ quote'[q] = "DRAFT"
        /\ \A p \in Quotes : p # q => revision'[p] = revision[p]
        /\ revision'[q] = n
    BY <2>1 DEF FreightTyped
  <2>5. q \notin Stored(f) /\ Stored(f)' = Stored(f) \cup {q}
    BY <1>0, <2>4 DEF Stored, QuotesOf
  <2>6. \A g \in FreightRequests : g # f => Stored(g)' = Stored(g) /\ q \notin Stored(g)
    BY <2>4 DEF Stored, QuotesOf
  <2>7. IsFiniteSet(Stored(f) \cup {q}) /\ Cardinality(Stored(f) \cup {q}) = m + 1
    BY <1>1, <2>5, FS_AddElement
  <2>8. FreightTyped'
    <3>1. quote' \in [Quotes -> QuoteStates]
      BY <2>1 DEF FreightTyped, QuoteStates
    <3>2. revision' \in [Quotes -> Nat]
      BY <1>1, <2>1, <2>3 DEF FreightTyped
    <3> QED BY <1>0, <3>1, <3>2 DEF FreightTyped, Finished
  <2>9. StoredFinite'
    BY <2>5, <2>6, <2>7 DEF StoredFinite
  <2>10. RevisionsCount'
    <3>1. \A p \in Stored(f) : revision'[p] = revision[p]
      BY <2>4, <2>5 DEF Stored, QuotesOf
    <3>2. {revision'[p] : p \in Stored(f) \cup {q}} = {revision[p] : p \in Stored(f)} \cup {n}
      BY <2>4, <3>1
    <3>3. {revision'[p] : p \in Stored(f) \cup {q}} = 1..(m + 1)
      BY <1>1, <2>3, <3>2
    <3>4. ASSUME NEW g \in FreightRequests, g # f
          PROVE  {revision'[p] : p \in Stored(g)'} = 1..Cardinality(Stored(g)')
      <4>1. Stored(g)' = Stored(g) /\ \A p \in Stored(g) : revision'[p] = revision[p]
        BY <2>4, <2>6, <3>4 DEF Stored, QuotesOf
      <4>2. {revision[p] : p \in Stored(g)} = 1..Cardinality(Stored(g))
        BY DEF RevisionsCount
      <4> QED BY <4>1, <4>2
    <3>5. {revision'[p] : p \in Stored(f)'} = 1..Cardinality(Stored(f)')
      BY <2>5, <2>7, <3>3
    <3> QED BY <3>4, <3>5 DEF RevisionsCount
  <2>11. AcceptedIsBooked'
    BY <1>0, <2>1 DEF AcceptedIsBooked
  <2>12. CallersKnowQuotes'
    <3>1. \A op \in QuoteOps \cup {"quote"} : \A p \in Quotes, d \in FreightCallers :
            Doing(d, op, p)' => d # c /\ Doing(d, op, p) /\ freightCaller'[d] = freightCaller[d]
      BY <1>0 DEF Doing, Finished, FreightIdle, FreightTyped, QuoteOps
    <3>2. \A p \in Quotes, d \in FreightCallers :
            d # c /\ Doing(d, "quote", p) => p # q
      BY <1>0 DEF CallersKnowQuotes
    <3>3. ASSUME NEW g \in FreightRequests
          PROVE  1..(Cardinality(Stored(g)) + 1) \subseteq 1..(Cardinality(Stored(g)') + 1)
      <4>1. CASE g = f
        BY <1>1, <2>5, <2>7, <4>1
      <4>2. CASE g # f
        BY <2>6, <4>2
      <4> QED BY <4>1, <4>2
    <3> SUFFICES ASSUME NEW d \in FreightCallers, NEW p \in Quotes
                 PROVE  /\ \A o \in QuoteOps : Doing(d, o, p)' => quote'[p] # "NONE"
                        /\ Doing(d, "quote", p)' =>
                             /\ quote'[p] = "NONE"
                             /\ freightCaller'[d].seen
                                  \in 1..(Cardinality(Stored(QuoteRequest[p])') + 1)
                             /\ \A e \in FreightCallers : Doing(e, "quote", p)' => e = d
      BY DEF CallersKnowQuotes
    <3>4. \A o \in QuoteOps : Doing(d, o, p)' => quote'[p] # "NONE"
      BY <2>4, <3>1 DEF CallersKnowQuotes
    <3>5. ASSUME Doing(d, "quote", p)'
          PROVE  /\ quote'[p] = "NONE"
                 /\ freightCaller'[d].seen \in 1..(Cardinality(Stored(QuoteRequest[p])') + 1)
                 /\ \A e \in FreightCallers : Doing(e, "quote", p)' => e = d
      <4>1. d # c /\ Doing(d, "quote", p) /\ freightCaller'[d] = freightCaller[d] /\ p # q
        BY <3>1, <3>2, <3>5
      <4>2. /\ quote[p] = "NONE"
            /\ freightCaller[d].seen \in 1..(Cardinality(Stored(QuoteRequest[p])) + 1)
            /\ \A e \in FreightCallers : Doing(e, "quote", p) => e = d
        BY <4>1 DEF CallersKnowQuotes
      <4>3. QuoteRequest[p] \in FreightRequests
        BY FreightAssumption
      <4> QED BY <2>4, <3>1, <3>3, <4>1, <4>2, <4>3
    <3> QED BY <3>4, <3>5
  <2> QED BY <2>8, <2>9, <2>10, <2>11, <2>12
<1> QED BY <1>2, <1>3

\* The acceptance of a quote books it, or does nothing.
LEMMA AcceptanceBooks ==
    ASSUME QuotesInv, NEW c \in FreightCallers, NEW q \in Quotes, AcceptQuote(c, q)
    PROVE  QuotesInv'
<1> USE FreightAssumption DEF QuotesInv
<1> DEFINE f == QuoteRequest[q]
<1>1. Finished(c) /\ revision' = revision /\ quote[q] # "NONE" /\ f \in FreightRequests
  BY DEF AcceptQuote, CallersKnowQuotes, QuoteOps
<1>2. CASE Bookable(f)
  <2>1. /\ booked[f] = None /\ booked' = [booked EXCEPT ![f] = q]
        /\ quote' = [quote EXCEPT ![q] = "ACCEPTED"]
    BY <1>2 DEF AcceptQuote, Bookable
  <2>2. /\ quote' \in [Quotes -> QuoteStates]
        /\ booked' \in [FreightRequests -> Quotes \cup {None}]
        /\ \A p \in Quotes : quote'[p] = "NONE" <=> quote[p] = "NONE"
    BY <1>1, <2>1 DEF FreightTyped, QuoteStates
  <2>3. AcceptedIsBooked'
    BY <1>1, <2>1 DEF FreightTyped, AcceptedIsBooked
  <2> QED BY <1>1, <2>2, <2>3, QuotesKept
<1>3. CASE ~Bookable(f)
  BY <1>1, <1>3, QuotesKept DEF AcceptQuote, FreightTyped, AcceptedIsBooked
<1> QED BY <1>2, <1>3

\* The invariant of quotes holds in every state.
LEMMA QuotesSound == FreightSpec => []QuotesInv
<1>1. FreightInit => QuotesInv
  <2> SUFFICES ASSUME FreightInit PROVE QuotesInv
    OBVIOUS
  <2> USE FreightAssumption DEF FreightInit
  <2>1. FreightTyped /\ AcceptedIsBooked
    BY DEF FreightTyped, QuoteStates, AcceptedIsBooked
  <2>2. CallersKnowQuotes
    BY DEF CallersKnowQuotes, Doing, FreightIdle, QuoteOps
  <2>3. ASSUME NEW f \in FreightRequests
        PROVE  /\ IsFiniteSet(Stored(f))
               /\ {revision[q] : q \in Stored(f)} = 1..Cardinality(Stored(f))
    <3>1. CASE Stored(f) = {}
      <4>1. IsFiniteSet({}) /\ Cardinality({}) = 0 /\ 1..0 = {}
        BY FS_EmptySet
      <4> QED BY <3>1, <4>1
    <3>2. ASSUME NEW q \in Stored(f)
          PROVE  /\ IsFiniteSet(Stored(f))
                 /\ {revision[p] : p \in Stored(f)} = 1..Cardinality(Stored(f))
      <4>1. Stored(f) = {q} /\ revision[q] = 1
        BY <3>2 DEF Stored, QuotesOf
      <4>2. IsFiniteSet({q}) /\ Cardinality({q}) = 1
        BY FS_Singleton
      <4>3. 1..1 = {1}
        OBVIOUS
      <4>4. {revision[p] : p \in {q}} = {1}
        BY <4>1
      <4> QED BY <4>1, <4>2, <4>3, <4>4
    <3> QED BY <3>1, <3>2
  <2> QED BY <2>1, <2>2, <2>3 DEF QuotesInv, StoredFinite, RevisionsCount
<1>2. QuotesInv /\ [FreightNext]_freightVars => QuotesInv'
  <2> SUFFICES ASSUME QuotesInv, [FreightNext]_freightVars PROVE QuotesInv'
    OBVIOUS
  <2>1. ASSUME UNCHANGED <<quote, revision, booked, freightCaller>> PROVE QuotesInv'
    <3>1. FreightTyped' /\ AcceptedIsBooked'
      BY <2>1 DEF QuotesInv, FreightTyped, AcceptedIsBooked
    <3>2. \A f : Stored(f)' = Stored(f)
      BY <2>1 DEF Stored, QuotesOf
    <3>3. StoredFinite' /\ RevisionsCount'
      BY <2>1, <3>2 DEF QuotesInv, StoredFinite, RevisionsCount
    <3>4. CallersKnowQuotes'
      BY <2>1, <3>2 DEF QuotesInv, CallersKnowQuotes, Doing
    <3> QED BY <3>1, <3>3, <3>4 DEF QuotesInv
  <2>2. ASSUME NEW c \in FreightCallers, Finished(c), UNCHANGED <<quote, revision, booked>>
        PROVE  QuotesInv'
    BY <2>2, QuotesKept DEF QuotesInv, FreightTyped, AcceptedIsBooked
  <2>3. ASSUME NEW f \in FreightRequests, RequestStep(f) PROVE QuotesInv'
    <3>1. CASE CreateRequest(f)
      BY <2>1, <3>1 DEF CreateRequest
    <3>2. ASSUME NEW c \in FreightCallers,
                 UpdateRequest(c, f) \/ Submit(c, f) \/ Cancel(c, f) \/ Estimate(c, f)
          PROVE  QuotesInv'
      BY <2>2, <3>2 DEF UpdateRequest, Submit, Cancel, Estimate
    <3>3. ASSUME NEW c \in FreightCallers,
                 UpdateCheck(c, f) \/ SubmitCheck(c, f) \/ CancelCheck(c, f) \/ EstimateCheck(c, f)
          PROVE  QuotesInv'
      <4>1. \E op \in {"edit", "submit", "cancel", "estimate"} : \E n : Checked(c, op, f, n)
        BY <3>3 DEF UpdateCheck, SubmitCheck, CancelCheck, EstimateCheck
      <4> QED BY <4>1, CheckKeepsQuotes
    <3> QED BY <2>3, <3>1, <3>2, <3>3 DEF RequestStep
  <2>4. ASSUME NEW q \in Quotes, QuoteLapses(q) \/ InvoicePaid(q) PROVE QuotesInv'
    BY <2>1, <2>4 DEF QuoteLapses, InvoicePaid
  <2>5. ASSUME NEW q \in Quotes, NEW c \in FreightCallers, CreateQuoteCheck(c, q)
        PROVE  QuotesInv'
    <3>1. QuoteRequest[q] \in FreightRequests
      BY FreightAssumption
    <3>2. MaxRevision(QuoteRequest[q]) + 1 \in 1..(Cardinality(Stored(QuoteRequest[q])) + 1)
      BY <3>1, MaxRevisionCounts
    <3> QED BY <2>5, <3>2, CheckKeepsQuotes DEF CreateQuoteCheck
  <2>6. ASSUME NEW q \in Quotes, NEW c \in FreightCallers,
               PublishQuoteCheck(c, q) \/ DeclineQuoteCheck(c, q) \/ AcceptQuoteCheck(c, q)
        PROVE  QuotesInv'
    <3>1. \E op \in QuoteOps : \E n : Checked(c, op, q, n)
      BY <2>6 DEF PublishQuoteCheck, DeclineQuoteCheck, AcceptQuoteCheck, QuoteOps
    <3>2. quote[q] # "NONE"
      BY <2>6 DEF PublishQuoteCheck, DeclineQuoteCheck, AcceptQuoteCheck
    <3> QED BY <3>1, <3>2, CheckKeepsQuotes
  <2>7. ASSUME NEW q \in Quotes, NEW c \in FreightCallers,
               PublishQuote(c, q) \/ DeclineQuote(c, q)
        PROVE  QuotesInv'
    <3>1. quote[q] # "NONE"
      BY <2>7 DEF PublishQuote, DeclineQuote, QuotesInv, CallersKnowQuotes, QuoteOps
    <3>2. /\ \E s \in {"PUBLISHED", "DECLINED"} : quote' = [quote EXCEPT ![q] = s]
          /\ UNCHANGED <<revision, booked>> /\ Finished(c)
      BY <2>7 DEF PublishQuote, DeclineQuote
    <3>3. /\ quote' \in [Quotes -> QuoteStates]
          /\ \A p \in Quotes : quote'[p] = "NONE" <=> quote[p] = "NONE"
          /\ AcceptedIsBooked'
      BY <3>1, <3>2 DEF QuotesInv, FreightTyped, QuoteStates, AcceptedIsBooked
    <3> QED BY <3>2, <3>3, QuotesKept DEF QuotesInv, FreightTyped
  <2>8. CASE UNCHANGED freightVars
    BY <2>1, <2>8 DEF freightVars
  <2> QED
    BY <2>3, <2>4, <2>5, <2>6, <2>7, <2>8, NewQuoteCounts, AcceptanceBooks
       DEF FreightNext, QuoteStep
<1> QED BY <1>1, <1>2, PTL DEF FreightSpec


\* An edit that is not outdated is of a draft.
EditsOfDrafts ==
    \A c \in FreightCallers, f \in FreightRequests :
        Doing(c, "edit", f) => c \in outdated \/ freight[f] = "DRAFT"

\* An acceptance on net terms that was let through had read that it fits the
\* credit limit.
AcceptancesFit ==
    \A c \in FreightCallers, q \in NetTerms :
        Doing(c, "accept", q) /\ CreditLimit > 0 =>
            freightCaller[c].seen \in Nat /\ freightCaller[c].seen + 1 <= CreditLimit

\* The inductive invariant of what callers go on to write.
WorkInv ==
    /\ DOMAIN freight = FreightRequests /\ DOMAIN content = FreightRequests
    /\ DOMAIN freightCaller = FreightCallers
    /\ EditsOfDrafts /\ AcceptancesFit /\ IsFiniteSet(openInvoices)

\* Ending a caller's work starts none.
LEMMA FinishedStartsNothing ==
    ASSUME DOMAIN freightCaller = FreightCallers, NEW c \in FreightCallers,
           freightCaller' = freightCaller \/ Finished(c),
           NEW d \in FreightCallers, NEW op \in {"edit", "accept"}, NEW x, Doing(d, op, x)'
    PROVE  Doing(d, op, x) /\ freightCaller'[d] = freightCaller[d]
BY DEF Finished, Doing, FreightIdle

\* A change of a request's status outdates every edit of it.
LEMMA StatusOutdatesEdits ==
    ASSUME WorkInv, NEW c \in FreightCallers, Finished(c),
           NEW f \in FreightRequests, NEW s, SetFreight(f, s), content' = content,
           IsFiniteSet(openInvoices')
    PROVE  WorkInv'
<1> USE DEF WorkInv
<1>1. DOMAIN freight' = FreightRequests /\ DOMAIN freightCaller' = FreightCallers
  BY DEF SetFreight, Finished
<1>2. EditsOfDrafts'
  <2> SUFFICES ASSUME NEW d \in FreightCallers, NEW g \in FreightRequests, Doing(d, "edit", g)'
               PROVE  d \in outdated' \/ freight'[g] = "DRAFT"
    BY DEF EditsOfDrafts
  <2>1. Doing(d, "edit", g)
    BY FinishedStartsNothing
  <2>2. CASE g = f
    BY <2>1, <2>2 DEF SetFreight, Doing
  <2>3. CASE g # f
    BY <2>1, <2>3 DEF SetFreight, EditsOfDrafts
  <2> QED BY <2>2, <2>3
<1>3. AcceptancesFit'
  BY FinishedStartsNothing DEF AcceptancesFit
<1> QED BY <1>1, <1>2, <1>3

\* A step that leaves requests alone, or gives up, starts and outdates nothing.
LEMMA WorkKept ==
    ASSUME WorkInv, NEW c \in FreightCallers, freightCaller' = freightCaller \/ Finished(c),
           UNCHANGED <<freight, content, outdated>>, IsFiniteSet(openInvoices')
    PROVE  WorkInv'
<1> USE DEF WorkInv
<1>1. DOMAIN freightCaller' = FreightCallers
  BY DEF Finished
<1>2. EditsOfDrafts'
  BY FinishedStartsNothing DEF EditsOfDrafts
<1>3. AcceptancesFit'
  BY FinishedStartsNothing DEF AcceptancesFit
<1> QED BY <1>1, <1>2, <1>3

\* A check starts an edit of a draft or an acceptance that fits.
LEMMA CheckKeepsWork ==
    ASSUME WorkInv, NEW c \in FreightCallers, NEW op, NEW x, NEW n, Checked(c, op, x, n),
           op = "edit" /\ x \in FreightRequests => freight[x] = "DRAFT",
           op = "accept" /\ x \in NetTerms /\ CreditLimit > 0 => n \in Nat /\ n + 1 <= CreditLimit
    PROVE  WorkInv'
<1> USE DEF WorkInv
<1>1. /\ freightCaller'[c] = [op |-> op, about |-> x, seen |-> n]
      /\ \A d \in FreightCallers : d # c => freightCaller'[d] = freightCaller[d]
      /\ DOMAIN freightCaller' = FreightCallers
      /\ UNCHANGED <<freight, content, outdated, openInvoices>>
  BY DEF Checked
<1>2. EditsOfDrafts'
  BY <1>1 DEF EditsOfDrafts, Doing
<1>3. AcceptancesFit'
  BY <1>1 DEF AcceptancesFit, Doing
<1> QED BY <1>1, <1>2, <1>3

\* The invariant of what callers go on to write holds in every state.
LEMMA WorkSound == FreightSpec => []WorkInv
<1>1. FreightInit => WorkInv
  <2> SUFFICES ASSUME FreightInit PROVE WorkInv
    OBVIOUS
  <2>1. IsFiniteSet(openInvoices)
    BY FS_EmptySet DEF FreightInit
  <2> QED BY <2>1 DEF FreightInit, WorkInv, EditsOfDrafts, AcceptancesFit, Doing, FreightIdle
<1>2. WorkInv /\ [FreightNext]_freightVars => WorkInv'
  <2> SUFFICES ASSUME WorkInv, [FreightNext]_freightVars PROVE WorkInv'
    OBVIOUS
  <2> USE FreightAssumption
  <2>0. IsFiniteSet(openInvoices)
    BY DEF WorkInv
  <2>1. ASSUME UNCHANGED <<freight, content, outdated, freightCaller>>, IsFiniteSet(openInvoices')
        PROVE  WorkInv'
    BY <2>1 DEF WorkInv, EditsOfDrafts, AcceptancesFit, Doing
  <2>2. ASSUME NEW f \in FreightRequests, RequestStep(f) PROVE WorkInv'
    <3>1. CASE CreateRequest(f)
      BY <2>0, <3>1 DEF CreateRequest, WorkInv, EditsOfDrafts, AcceptancesFit, Doing
    <3>2. ASSUME NEW c \in FreightCallers, UpdateCheck(c, f) PROVE WorkInv'
      BY <3>2, CheckKeepsWork DEF UpdateCheck
    <3>3. ASSUME NEW c \in FreightCallers, UpdateRequest(c, f) PROVE WorkInv'
      <4>1. /\ Finished(c) /\ freight' = freight /\ UNCHANGED openInvoices
            /\ DOMAIN content' = FreightRequests
        BY <3>3 DEF UpdateRequest, WorkInv
      <4>2. \A d \in FreightCallers : d # c /\ d \in outdated => d \in outdated'
        BY <3>3 DEF UpdateRequest
      <4>3. DOMAIN freightCaller' = FreightCallers /\ freightCaller'[c].op = "idle"
        BY <4>1 DEF Finished, WorkInv, FreightIdle
      <4>4. EditsOfDrafts'
        BY <4>1, <4>2, <4>3, FinishedStartsNothing DEF EditsOfDrafts, WorkInv, Doing
      <4>5. AcceptancesFit'
        BY <4>1, FinishedStartsNothing DEF AcceptancesFit, WorkInv
      <4> QED BY <4>1, <4>3, <4>4, <4>5 DEF WorkInv
    <3>4. ASSUME NEW c \in FreightCallers,
                 SubmitCheck(c, f) \/ CancelCheck(c, f) \/ EstimateCheck(c, f)
          PROVE  WorkInv'
      <4>1. \E op \in {"submit", "cancel", "estimate"} : \E n : Checked(c, op, f, n)
        BY <3>4 DEF SubmitCheck, CancelCheck, EstimateCheck
      <4> QED BY <4>1, CheckKeepsWork
    <3>5. ASSUME NEW c \in FreightCallers, Submit(c, f) \/ Cancel(c, f) \/ Estimate(c, f)
          PROVE  WorkInv'
      <4>1. /\ Finished(c) /\ content' = content /\ openInvoices' = openInvoices
            /\ (\E s : SetFreight(f, s)) \/ UNCHANGED <<freight, outdated>>
        BY <3>5 DEF Submit, Cancel, Estimate
      <4> QED BY <2>0, <4>1, StatusOutdatesEdits, WorkKept
    <3> QED BY <2>2, <3>1, <3>2, <3>3, <3>4, <3>5 DEF RequestStep
  <2>3. ASSUME NEW q \in Quotes, QuoteStep(q) PROVE WorkInv'
    <3>0. QuoteRequest[q] \in FreightRequests
      OBVIOUS
    <3>1. CASE QuoteLapses(q)
      BY <2>0, <2>1, <3>1 DEF QuoteLapses
    <3>2. CASE InvoicePaid(q)
      <4>1. IsFiniteSet(openInvoices \ {q})
        BY <2>0, FS_RemoveElement
      <4> QED BY <2>1, <3>2, <4>1 DEF InvoicePaid
    <3>3. ASSUME NEW c \in FreightCallers,
                 CreateQuoteCheck(c, q) \/ PublishQuoteCheck(c, q) \/ DeclineQuoteCheck(c, q)
          PROVE  WorkInv'
      <4>1. \E op \in {"quote", "publish", "decline"} : \E n : Checked(c, op, q, n)
        BY <3>3 DEF CreateQuoteCheck, PublishQuoteCheck, DeclineQuoteCheck
      <4> QED BY <4>1, CheckKeepsWork
    <3>4. ASSUME NEW c \in FreightCallers, AcceptQuoteCheck(c, q) PROVE WorkInv'
      <4>1. Cardinality(openInvoices) \in Nat
        BY <2>0, FS_CardinalityType
      <4>2. q \in NetTerms /\ CreditLimit > 0 => Cardinality(openInvoices) + 1 <= CreditLimit
        BY <3>4 DEF AcceptQuoteCheck, CreditAllows
      <4>3. Checked(c, "accept", q, Cardinality(openInvoices))
        BY <3>4 DEF AcceptQuoteCheck
      <4> QED BY <4>1, <4>2, <4>3, CheckKeepsWork
    <3>5. ASSUME NEW c \in FreightCallers, CreateQuote(c, q) \/ DeclineQuote(c, q)
          PROVE  WorkInv'
      BY <2>0, <3>5, WorkKept DEF CreateQuote, DeclineQuote
    <3>6. ASSUME NEW c \in FreightCallers, PublishQuote(c, q) PROVE WorkInv'
      BY <2>0, <3>0, <3>6, StatusOutdatesEdits DEF PublishQuote
    <3>7. ASSUME NEW c \in FreightCallers, AcceptQuote(c, q) PROVE WorkInv'
      <4>1. IsFiniteSet(openInvoices \cup {q})
        BY <2>0, FS_AddElement
      <4>2. CASE Bookable(QuoteRequest[q])
        BY <3>0, <3>7, <4>1, <4>2, StatusOutdatesEdits DEF AcceptQuote
      <4>3. CASE ~Bookable(QuoteRequest[q])
        BY <2>0, <3>7, <4>3, WorkKept DEF AcceptQuote
      <4> QED BY <4>2, <4>3
    <3> QED BY <2>3, <3>1, <3>2, <3>3, <3>4, <3>5, <3>6, <3>7 DEF QuoteStep
  <2>4. CASE UNCHANGED freightVars
    BY <2>0, <2>1, <2>4 DEF freightVars
  <2> QED BY <2>2, <2>3, <2>4 DEF FreightNext
<1> QED BY <1>1, <1>2, PTL DEF FreightSpec

\* Of a request, only an edit that is not outdated changes the content, and only an
\* acceptance adds to the open invoices.
LEMMA FreightStepsWrite ==
    ASSUME WorkInv, FreightNext
    PROVE  /\ \A f \in FreightRequests :
                freight[f] \notin {"NONE", "DRAFT"} => content'[f] = content[f]
           /\ \A q \in openInvoices' \ openInvoices :
                \E c \in FreightCallers :
                   q \in Quotes /\ Doing(c, "accept", q) /\ openInvoices' = openInvoices \cup {q}
<1> USE FreightAssumption DEF WorkInv
<1>1. ASSUME NEW f \in FreightRequests, RequestStep(f)
      PROVE  /\ openInvoices' = openInvoices
             /\ \A g \in FreightRequests :
                  freight[g] \notin {"NONE", "DRAFT"} => content'[g] = content[g]
  <2>1. ASSUME NEW c \in FreightCallers, UpdateRequest(c, f)
        PROVE  /\ openInvoices' = openInvoices
               /\ \A g \in FreightRequests :
                    freight[g] \notin {"NONE", "DRAFT"} => content'[g] = content[g]
    <3>1. CASE c \in outdated
      BY <2>1, <3>1 DEF UpdateRequest
    <3>2. CASE c \notin outdated
      <4>1. freight[f] = "DRAFT" /\ \A g \in FreightRequests : g # f => content'[g] = content[g]
        BY <2>1, <3>2 DEF UpdateRequest, EditsOfDrafts
      <4> QED BY <2>1, <4>1 DEF UpdateRequest
    <3> QED BY <3>1, <3>2
  <2>2. CASE UNCHANGED <<content, openInvoices>>
    BY <2>2
  <2>3. \/ \E c \in FreightCallers : UpdateRequest(c, f)
        \/ UNCHANGED <<content, openInvoices>>
    BY <1>1 DEF RequestStep, CreateRequest, UpdateCheck, SubmitCheck, Submit, CancelCheck, Cancel,
                EstimateCheck, Estimate, Checked
  <2> QED BY <2>1, <2>2, <2>3
<1>2. ASSUME NEW q \in Quotes, QuoteStep(q)
      PROVE  /\ content' = content
             /\ \A p \in openInvoices' \ openInvoices : \E c \in FreightCallers :
                   p = q /\ Doing(c, "accept", q) /\ openInvoices' = openInvoices \cup {q}
  BY <1>2 DEF QuoteStep, QuoteLapses, InvoicePaid, CreateQuoteCheck, CreateQuote, PublishQuoteCheck,
              PublishQuote, DeclineQuoteCheck, DeclineQuote, AcceptQuoteCheck, AcceptQuote, Checked
<1> QED BY <1>1, <1>2 DEF FreightNext

\* What is submitted is not edited any more: an edit that was checked before is
\* refused by the version (updateRequest, submitRequest).
THEOREM SubmittedStaysFrozen == FreightSpec => SubmittedIsFrozen
<1>1. ASSUME WorkInv, [FreightNext]_freightVars
      PROVE  [\A f \in FreightRequests :
                 freight[f] \notin {"NONE", "DRAFT"} => content'[f] = content[f]]_freightVars
  BY <1>1, FreightStepsWrite
<1> QED BY <1>1, WorkSound, PTL DEF FreightSpec, SubmittedIsFrozen

\* An acceptance exceeds the credit limit only if other invoices were issued
\* after it had read how many are open (acceptQuote).
THEOREM CreditRacesOnly == FreightSpec => CreditExceededOnlyInARace
<1> DEFINE Raced(q) ==
      (/\ CreditLimit > 0 /\ q \in openInvoices'
       /\ Cardinality(openInvoices') > CreditLimit)
        => \E c \in FreightCallers :
             Doing(c, "accept", q) /\ Cardinality(openInvoices) > freightCaller[c].seen
<1>1. ASSUME WorkInv, FreightNext, NEW q \in NetTerms \ openInvoices PROVE Raced(q)
  <2> SUFFICES ASSUME CreditLimit > 0, q \in openInvoices', Cardinality(openInvoices') > CreditLimit
               PROVE  \E c \in FreightCallers :
                        Doing(c, "accept", q) /\ Cardinality(openInvoices) > freightCaller[c].seen
    OBVIOUS
  <2>1. PICK c \in FreightCallers : Doing(c, "accept", q) /\ openInvoices' = openInvoices \cup {q}
    BY <1>1, FreightStepsWrite
  <2>2. /\ Cardinality(openInvoices') = Cardinality(openInvoices) + 1
        /\ Cardinality(openInvoices) \in Nat
    BY <1>1, <2>1, FS_AddElement, FS_CardinalityType DEF WorkInv
  <2>3. freightCaller[c].seen \in Nat /\ freightCaller[c].seen + 1 <= CreditLimit
    BY <1>1, <2>1 DEF WorkInv, AcceptancesFit
  <2> QED BY <2>1, <2>2, <2>3, FreightAssumption
<1>2. WorkInv /\ [FreightNext]_freightVars => [\A q \in NetTerms \ openInvoices : Raced(q)]_freightVars
  BY <1>1
<1> QED BY <1>2, WorkSound, PTL DEF FreightSpec, CreditExceededOnlyInARace
-----------------------------------------------------------------------------
(***************************************************************************)
(* Catalog.  An offer is announced by those that read it before it was     *)
(* ACTIVE: each of them counts once, as a reader or as an announcement.    *)
(***************************************************************************)
CatalogTyped ==
    /\ DOMAIN submission = Submissions
    /\ offer \in [Offers -> {"NONE", "DRAFT", "ACTIVE"}]
    /\ published \in [Offers -> Nat]
    /\ DOMAIN reviewer = Reviewers

UnannouncedUntilActive ==
    \A o \in Offers :
        /\ offer[o] # "ACTIVE" => published[o] = 0
        /\ offer[o] = "NONE" => InHand("publish", o) = {}

\* The inductive invariant of announcements.
AnnouncedInv == CatalogTyped /\ UnannouncedUntilActive /\ AnnouncedOncePerReader

\* Whatever has the readers and the announcements of every offer as they were, or
\* has new readers of one that is not announced, keeps the invariant.
LEMMA ReadersKeepAnnounced ==
    ASSUME AnnouncedInv, CatalogTyped', published' = published,
           \A o \in Offers : offer'[o] = "ACTIVE" <=> offer[o] = "ACTIVE",
           \A o \in Offers : offer'[o] = "NONE" => offer[o] = "NONE",
           \A o \in Offers : \/ InHand("publish", o)' \subseteq InHand("publish", o)
                             \/ offer[o] = "DRAFT" /\ offer'[o] = "DRAFT"
    PROVE  AnnouncedInv'
<1> USE CatalogAssumption DEF AnnouncedInv
<1>1. UnannouncedUntilActive'
  BY DEF UnannouncedUntilActive
<1>2. ASSUME NEW o \in Offers
      PROVE  published'[o] + Cardinality(InHand("publish", o)') <= Cardinality(Reviewers)
  <2>0. /\ InHand("publish", o) \subseteq Reviewers /\ InHand("publish", o)' \subseteq Reviewers
        /\ published[o] \in Nat
    BY DEF InHand, CatalogTyped
  <2>1. /\ IsFiniteSet(InHand("publish", o)) /\ IsFiniteSet(InHand("publish", o)')
        /\ Cardinality(InHand("publish", o)') <= Cardinality(Reviewers)
        /\ Cardinality(InHand("publish", o)) \in Nat /\ Cardinality(InHand("publish", o)') \in Nat
        /\ Cardinality(Reviewers) \in Nat
    BY <2>0, FS_Subset, FS_CardinalityType
  <2>2. CASE InHand("publish", o)' \subseteq InHand("publish", o)
    <3>1. Cardinality(InHand("publish", o)') <= Cardinality(InHand("publish", o))
      BY <2>1, <2>2, FS_Subset
    <3>2. published[o] + Cardinality(InHand("publish", o)) <= Cardinality(Reviewers)
      BY DEF AnnouncedOncePerReader
    <3> QED BY <2>0, <2>1, <3>1, <3>2
  <2>3. CASE offer[o] = "DRAFT" /\ offer'[o] = "DRAFT"
    <3>1. published[o] = 0
      BY <2>3 DEF UnannouncedUntilActive
    <3> QED BY <2>0, <2>1, <3>1
  <2> QED BY <2>2, <2>3
<1> QED BY <1>1, <1>2 DEF AnnouncedOncePerReader

\* The announcement of an offer takes its reader out of hand.
LEMMA PublishCounts ==
    ASSUME AnnouncedInv, NEW c \in Reviewers, NEW o \in Offers, PublishOffer(c, o)
    PROVE  AnnouncedInv'
<1> USE CatalogAssumption DEF AnnouncedInv
<1>1. /\ c \in InHand("publish", o) /\ UNCHANGED submission
      /\ reviewer' = [reviewer EXCEPT ![c] = ReviewerIdle]
      /\ offer' = [offer EXCEPT ![o] = "ACTIVE"]
      /\ published' = [published EXCEPT ![o] = published[o] + 1]
  BY DEF PublishOffer, ReviewerWrites, InHand
<1>2. CatalogTyped'
  BY <1>1 DEF CatalogTyped
<1>3. /\ \A p \in Offers : p # o => offer'[p] = offer[p] /\ published'[p] = published[p]
      /\ offer'[o] = "ACTIVE" /\ published'[o] = published[o] + 1 /\ published[o] \in Nat
  BY <1>1 DEF CatalogTyped
<1>4. \A p \in Offers : InHand("publish", p)' \subseteq InHand("publish", p)
  BY <1>1 DEF InHand, ReviewerIdle, CatalogTyped
<1>5. c \notin InHand("publish", o)'
  BY <1>1 DEF InHand, ReviewerIdle, CatalogTyped
<1>6. UnannouncedUntilActive'
  BY <1>3, <1>4 DEF UnannouncedUntilActive
<1>7. ASSUME NEW p \in Offers
      PROVE  published'[p] + Cardinality(InHand("publish", p)') <= Cardinality(Reviewers)
  <2>0. InHand("publish", p) \subseteq Reviewers /\ published[p] \in Nat
    BY DEF InHand, CatalogTyped
  <2>1. IsFiniteSet(InHand("publish", p))
    BY <2>0, FS_Subset
  <2>2. /\ IsFiniteSet(InHand("publish", p)')
        /\ Cardinality(InHand("publish", p)') <= Cardinality(InHand("publish", p))
        /\ InHand("publish", p)' # InHand("publish", p) =>
              Cardinality(InHand("publish", p)') < Cardinality(InHand("publish", p))
    <3>1. /\ IsFiniteSet(InHand("publish", p)')
          /\ Cardinality(InHand("publish", p)') <= Cardinality(InHand("publish", p))
          /\ Cardinality(InHand("publish", p)) = Cardinality(InHand("publish", p)') =>
                InHand("publish", p) = InHand("publish", p)'
      BY <1>4, <2>1, FS_Subset
    <3>2. Cardinality(InHand("publish", p)) \in Nat /\ Cardinality(InHand("publish", p)') \in Nat
      BY <2>1, <3>1, FS_CardinalityType
    <3> QED BY <3>1, <3>2
  <2>3. /\ Cardinality(InHand("publish", p)) \in Nat /\ Cardinality(InHand("publish", p)') \in Nat
        /\ Cardinality(Reviewers) \in Nat
    BY <2>1, <2>2, FS_CardinalityType
  <2>4. published[p] + Cardinality(InHand("publish", p)) <= Cardinality(Reviewers)
    BY DEF AnnouncedOncePerReader
  <2>5. CASE p = o
    <3>1. Cardinality(InHand("publish", p)') < Cardinality(InHand("publish", p))
      BY <1>1, <1>5, <2>2, <2>5
    <3> QED BY <1>3, <2>0, <2>3, <2>4, <2>5, <3>1
  <2>6. CASE p # o
    BY <1>3, <2>0, <2>2, <2>3, <2>4, <2>6
  <2> QED BY <2>5, <2>6
<1> QED BY <1>2, <1>6, <1>7 DEF AnnouncedOncePerReader

\* The invariant of announcements holds in every state.
LEMMA AnnouncementsSound == CatalogSpec => []AnnouncedInv
<1>1. CatalogInit => AnnouncedInv
  <2> SUFFICES ASSUME CatalogInit PROVE AnnouncedInv
    OBVIOUS
  <2> USE CatalogAssumption DEF CatalogInit
  <2>1. CatalogTyped
    BY DEF CatalogTyped
  <2>2. \A o \in Offers : InHand("publish", o) = {} /\ published[o] = 0
    BY DEF InHand, ReviewerIdle
  <2>3. Cardinality({}) = 0 /\ Cardinality(Reviewers) \in Nat
    BY FS_EmptySet, FS_CardinalityType
  <2>4. AnnouncedOncePerReader
    <3> SUFFICES ASSUME NEW o \in Offers
                 PROVE  published[o] + Cardinality(InHand("publish", o)) <= Cardinality(Reviewers)
      BY DEF AnnouncedOncePerReader
    <3>1. Cardinality(InHand("publish", o)) = 0
      BY <2>2, <2>3
    <3> QED BY <2>2, <2>3, <3>1
  <2> QED BY <2>1, <2>2, <2>4 DEF AnnouncedInv, UnannouncedUntilActive
<1>2. AnnouncedInv /\ [CatalogNext]_catalogVars => AnnouncedInv'
  <2> SUFFICES ASSUME AnnouncedInv, [CatalogNext]_catalogVars PROVE AnnouncedInv'
    OBVIOUS
  <2> USE DEF AnnouncedInv
  <2>1. ASSUME DOMAIN submission' = Submissions, UNCHANGED <<offer, published, reviewer>>
        PROVE  AnnouncedInv'
    <3>1. CatalogTyped' /\ \A o \in Offers : InHand("publish", o)' = InHand("publish", o)
      BY <2>1 DEF CatalogTyped, InHand
    <3> QED BY <2>1, <3>1, ReadersKeepAnnounced
  <2>2. ASSUME NEW a \in Attributes, NEW isRequired \in BOOLEAN, CreateAttribute(a, isRequired)
        PROVE  AnnouncedInv'
    BY <2>1, <2>2 DEF CreateAttribute, CatalogTyped
  <2>3. ASSUME NEW s \in Submissions, CreateSubmission(s) \/ SubmitProduct(s) \/ Reject(s)
        PROVE  AnnouncedInv'
    BY <2>1, <2>3 DEF CreateSubmission, SubmitProduct, Reject, MoveSubmission, CatalogTyped
  <2>4. ASSUME NEW c \in Reviewers, NEW s \in Submissions, ApproveRead(c, s) \/ Approve(c, s)
        PROVE  AnnouncedInv'
    <3>1. UNCHANGED <<offer, published>> /\ DOMAIN submission' = Submissions
      BY <2>4 DEF ApproveRead, ReviewerReads, Approve, CatalogTyped
    <3>2. DOMAIN reviewer' = Reviewers
      BY <2>4 DEF ApproveRead, ReviewerReads, Approve, ReviewerWrites, CatalogTyped
    <3>3. \A o \in Offers : InHand("publish", o)' \subseteq InHand("publish", o)
      BY <2>4 DEF ApproveRead, ReviewerReads, Approve, ReviewerWrites, InHand, ReviewerIdle,
                  CatalogTyped
    <3>4. CatalogTyped'
      BY <3>1, <3>2 DEF CatalogTyped
    <3> QED BY <3>1, <3>3, <3>4, ReadersKeepAnnounced
  <2>5. ASSUME NEW o \in Offers, CreateOffer(o) PROVE AnnouncedInv'
    <3>1. /\ offer[o] = "NONE" /\ offer' = [offer EXCEPT ![o] = "DRAFT"]
          /\ UNCHANGED <<submission, published, reviewer>>
      BY <2>5 DEF CreateOffer
    <3>2. CatalogTyped' /\ \A p \in Offers : InHand("publish", p)' = InHand("publish", p)
      BY <3>1 DEF CatalogTyped, InHand
    <3>3. \A p \in Offers : /\ offer'[p] = "ACTIVE" <=> offer[p] = "ACTIVE"
                            /\ offer'[p] = "NONE" => offer[p] = "NONE"
      BY <3>1 DEF CatalogTyped
    <3> QED BY <3>1, <3>2, <3>3, ReadersKeepAnnounced
  <2>6. ASSUME NEW c \in Reviewers, NEW o \in Offers, PublishOfferRead(c, o) PROVE AnnouncedInv'
    <3>1. /\ offer[o] = "DRAFT" /\ UNCHANGED <<submission, offer, published>>
          /\ reviewer' = [reviewer EXCEPT ![c] =
                            [op |-> "publish", on |-> o, required |-> required]]
      BY <2>6 DEF PublishOfferRead, Publishable, ReviewerReads
    <3>2. CatalogTyped'
      BY <3>1 DEF CatalogTyped
    <3>3. \A p \in Offers : p # o => InHand("publish", p)' \subseteq InHand("publish", p)
      BY <3>1 DEF CatalogTyped, InHand
    <3> QED BY <3>1, <3>2, <3>3, ReadersKeepAnnounced
  <2>7. CASE UNCHANGED catalogVars
    BY <2>1, <2>7 DEF catalogVars, CatalogTyped
  <2> QED BY <2>2, <2>3, <2>4, <2>5, <2>6, <2>7, PublishCounts DEF CatalogNext
<1> QED BY <1>1, <1>2, PTL DEF CatalogSpec

\* However many requests publish an offer at once, each announces it at most once,
\* and none that comes after it is ACTIVE does (publishOffer).
THEOREM AnnouncedOnce == CatalogSpec => []AnnouncedOncePerReader
<1>1. AnnouncedInv => AnnouncedOncePerReader
  BY DEF AnnouncedInv
<1> QED BY <1>1, AnnouncementsSound, PTL

\* A rejection is taken back only by an approval that had read the submission before
\* it (approve writes by id).
THEOREM RejectionsStand == CatalogSpec => RejectedUnlessOvertaken
<1> DEFINE Stands(s) ==
      submission[s] = "REJECTED" =>
          /\ InHand("approve", s)' \subseteq InHand("approve", s)
          /\ InHand("approve", s) = {} => submission'[s] = "REJECTED"
<1>1. ASSUME AnnouncedInv, CatalogNext, NEW s \in Submissions, submission[s] = "REJECTED"
      PROVE  /\ InHand("approve", s)' \subseteq InHand("approve", s)
             /\ InHand("approve", s) = {} => submission'[s] = "REJECTED"
  <2> USE <1>1 DEF AnnouncedInv, CatalogTyped
  <2>1. ASSUME NEW a \in Attributes, NEW isRequired \in BOOLEAN, CreateAttribute(a, isRequired)
        PROVE  UNCHANGED <<submission, reviewer>>
    BY <2>1 DEF CreateAttribute
  <2>2. ASSUME NEW t \in Submissions, CreateSubmission(t) \/ SubmitProduct(t) \/ Reject(t)
        PROVE  submission'[s] = "REJECTED" /\ reviewer' = reviewer
    BY <2>2 DEF CreateSubmission, SubmitProduct, Reject, MoveSubmission
  <2>3. ASSUME NEW c \in Reviewers, NEW t \in Submissions, ApproveRead(c, t)
        PROVE  InHand("approve", s)' \subseteq InHand("approve", s) /\ submission' = submission
    BY <2>3 DEF ApproveRead, Approvable, ReviewerReads, InHand
  <2>4. ASSUME NEW c \in Reviewers, NEW t \in Submissions, Approve(c, t)
        PROVE  /\ InHand("approve", s)' \subseteq InHand("approve", s)
               /\ InHand("approve", s) = {} => submission'[s] = "REJECTED"
    <3>1. /\ InHand("approve", s)' \subseteq InHand("approve", s) /\ c \in InHand("approve", t)
      BY <2>4 DEF Approve, ReviewerWrites, ReviewerIdle, InHand
    <3>2. t # s => submission'[s] = "REJECTED"
      BY <2>4 DEF Approve
    <3> QED BY <3>1, <3>2
  <2>5. ASSUME NEW o \in Offers, CreateOffer(o)
        PROVE  UNCHANGED <<submission, reviewer>>
    BY <2>5 DEF CreateOffer
  <2>6. ASSUME NEW c \in Reviewers, NEW o \in Offers, PublishOfferRead(c, o) \/ PublishOffer(c, o)
        PROVE  InHand("approve", s)' \subseteq InHand("approve", s) /\ submission' = submission
    BY <2>6 DEF PublishOfferRead, PublishOffer, ReviewerReads, ReviewerWrites, ReviewerIdle, InHand
  <2>7. reviewer' = reviewer => InHand("approve", s)' = InHand("approve", s)
    BY DEF InHand
  <2> QED BY <2>1, <2>2, <2>3, <2>4, <2>5, <2>6, <2>7 DEF CatalogNext
<1>2. AnnouncedInv /\ [CatalogNext]_catalogVars => [\A s \in Submissions : Stands(s)]_catalogVars
  BY <1>1
<1> QED BY <1>2, AnnouncementsSound, PTL DEF CatalogSpec, RejectedUnlessOvertaken
-----------------------------------------------------------------------------
(***************************************************************************)
(* Marketplace.  A prohibited listing goes from draft to rejected, and     *)
(* nobody holds a decision to put it up.                                   *)
(***************************************************************************)
ListingTyped ==
    DOMAIN moderator = Moderators /\ DOMAIN listed = Listings /\ DOMAIN deal = Listings

\* The inductive invariant of prohibited listings.
ProhibitedInv ==
    /\ ListingTyped
    /\ \A l \in Prohibited :
          /\ listed[l] \in {"NONE", "DRAFT", "REJECTED"} /\ l \notin offered
          /\ \A c \in Moderators : moderator[c].on = l => moderator[c].op # "ACTIVE"
          /\ deal[l] = "NONE"

\* However requests overlap, a listing the policy prohibits is never offered to
\* buyers (submit, moderate).
THEOREM ProhibitedStaysOut == MarketplaceSpec => []ProhibitedNeverOffered
<1>1. MarketplaceInit => ProhibitedInv
  BY MarketplaceAssumption DEF MarketplaceInit, ProhibitedInv, ListingTyped, ModeratorIdle
<1>2. ProhibitedInv /\ [MarketplaceNext]_marketplaceVars => ProhibitedInv'
  <2> SUFFICES ASSUME ProhibitedInv, [MarketplaceNext]_marketplaceVars PROVE ProhibitedInv'
    OBVIOUS
  <2> USE MarketplaceAssumption DEF ProhibitedInv, ListingTyped
  <2>1. ASSUME NEW c \in Moderators, NEW op, NEW x, ModeratorReads(c, op, x),
               x \in Prohibited => op # "ACTIVE"
        PROVE  ProhibitedInv'
    BY <2>1 DEF ModeratorReads
  <2>2. ASSUME NEW c \in Moderators, NEW op, NEW x, ModeratorWrites(c, op, x),
               UNCHANGED <<listed, offered, deal>>
        PROVE  ProhibitedInv'
    BY <2>2 DEF ModeratorWrites, ModeratorIdle
  <2>3. ASSUME NEW c \in Moderators, NEW op, NEW l \in Listings, NEW s, ListingWritten(c, op, l, s),
               l \in Prohibited => s \in {"NONE", "DRAFT", "REJECTED"}
        PROVE  ProhibitedInv'
    BY <2>3 DEF ListingWritten, ModeratorWrites, ModeratorIdle
  <2>4. ASSUME NEW c \in Moderators, NEW answer \in {"VERIFIED", "REJECTED"},
               Verify(c, answer) \/ VerifySeller(c, answer)
        PROVE  ProhibitedInv'
    BY <2>1, <2>2, <2>4 DEF Verify, VerifySeller
  <2>5. ASSUME NEW c \in Moderators, NEW l \in Listings,
               CreateListingRead(c, l) \/ SubmitListingRead(c, l)
        PROVE  ProhibitedInv'
    BY <2>1, <2>5 DEF CreateListingRead, SubmitListingRead
  <2>6. ASSUME NEW c \in Moderators, NEW l \in Listings, CreateListing(c, l) \/ SubmitListing(c, l)
        PROVE  ProhibitedInv'
    BY <2>3, <2>6 DEF CreateListing, SubmitListing, Submitted
  <2>7. ASSUME NEW c \in Moderators, NEW l \in Listings, NEW decision \in {"ACTIVE", "REJECTED"},
               ModerateRead(c, l, decision) \/ Moderate(c, l, decision)
        PROVE  ProhibitedInv'
    <3>1. CASE ModerateRead(c, l, decision)
      BY <2>1, <3>1 DEF ModerateRead
    <3>2. CASE Moderate(c, l, decision)
      <4>1. ListingWritten(c, decision, l, decision) /\ moderator[c] = [op |-> decision, on |-> l]
        BY <3>2 DEF Moderate, ListingWritten, ModeratorWrites
      <4>2. l \in Prohibited => decision = "REJECTED"
        BY <4>1
      <4> QED BY <2>3, <4>1, <4>2
    <3> QED BY <2>7, <3>1, <3>2
  <2>8. ASSUME NEW c \in Moderators, NEW l \in Listings, NEW p \in Parties,
               ReviewRead(c, l, p) \/ Review(c, l, p)
        PROVE  ProhibitedInv'
    BY <2>1, <2>2, <2>8 DEF ReviewRead, Review
  <2>9. ASSUME NEW l \in Listings, MakeOffer(l) \/ AcceptOffer(l) \/ DealMoves(l)
        PROVE  ProhibitedInv'
    BY <2>9 DEF MakeOffer, AcceptOffer, DealMoves
  <2>10. CASE UNCHANGED marketplaceVars
    BY <2>10 DEF marketplaceVars
  <2> QED
    BY <2>4, <2>5, <2>6, <2>7, <2>8, <2>9, <2>10 DEF MarketplaceNext
<1>3. ProhibitedInv => ProhibitedNeverOffered
  BY DEF ProhibitedInv, ProhibitedNeverOffered
<1> QED BY <1>1, <1>2, <1>3, PTL DEF MarketplaceSpec

\* A sold listing comes back for sale, or is rejected, only by a request that had
\* read it before the sale (submit and moderate write by id).
THEOREM SalesStand == MarketplaceSpec => SoldUnlessOvertaken
<1> DEFINE Stands(l) ==
      /\ listed[l] = "SOLD" /\ WritesListing(l) = {} => listed'[l] = "SOLD"
      /\ listed[l] = "SOLD" => WritesListing(l)' \subseteq WritesListing(l)
<1>1. MarketplaceInit => ListingTyped
  BY DEF MarketplaceInit, ListingTyped
<1>2. ListingTyped /\ [MarketplaceNext]_marketplaceVars =>
        ListingTyped' /\ [\A l \in Listings : Stands(l)]_marketplaceVars
  <2> SUFFICES ASSUME ListingTyped, [MarketplaceNext]_marketplaceVars
               PROVE  ListingTyped' /\ [\A l \in Listings : Stands(l)]_marketplaceVars
    OBVIOUS
  <2> USE MarketplaceAssumption DEF ListingTyped
  <2>1. ASSUME NEW c \in Moderators, NEW op, NEW x, ModeratorReads(c, op, x),
               x \in Listings /\ listed[x] = "SOLD" => op \notin {"submit", "ACTIVE", "REJECTED"}
        PROVE  ListingTyped' /\ \A l \in Listings : Stands(l)
    BY <2>1 DEF ModeratorReads, WritesListing
  <2>2. ASSUME NEW c \in Moderators, NEW op, NEW x, ModeratorWrites(c, op, x),
               UNCHANGED <<listed, deal>>
        PROVE  ListingTyped' /\ \A l \in Listings : Stands(l)
    BY <2>2 DEF ModeratorWrites, ModeratorIdle, WritesListing
  <2>3. ASSUME NEW c \in Moderators, NEW op, NEW m \in Listings, NEW s, ListingWritten(c, op, m, s),
               op \in {"submit", "ACTIVE", "REJECTED"} \/ listed[m] # "SOLD"
        PROVE  ListingTyped' /\ \A l \in Listings : Stands(l)
    <3>1. /\ moderator[c] = [op |-> op, on |-> m]
          /\ moderator' = [moderator EXCEPT ![c] = ModeratorIdle]
          /\ listed' = [listed EXCEPT ![m] = s] /\ UNCHANGED deal
      BY <2>3 DEF ListingWritten, ModeratorWrites
    <3>2. \A l : WritesListing(l)' \subseteq WritesListing(l)
      BY <3>1 DEF WritesListing, ModeratorIdle
    <3>3. op \in {"submit", "ACTIVE", "REJECTED"} => c \in WritesListing(m)
      BY <3>1 DEF WritesListing
    <3> QED BY <2>3, <3>1, <3>2, <3>3
  <2>4. ASSUME NEW c \in Moderators, NEW answer \in {"VERIFIED", "REJECTED"},
               Verify(c, answer) \/ VerifySeller(c, answer)
        PROVE  ListingTyped' /\ \A l \in Listings : Stands(l)
    BY <2>1, <2>2, <2>4 DEF Verify, VerifySeller
  <2>5. ASSUME NEW c \in Moderators, NEW l \in Listings,
               CreateListingRead(c, l) \/ SubmitListingRead(c, l)
        PROVE  ListingTyped' /\ \A k \in Listings : Stands(k)
    BY <2>1, <2>5 DEF CreateListingRead, SubmitListingRead, Submittable
  <2>6. ASSUME NEW c \in Moderators, NEW l \in Listings, CreateListing(c, l) \/ SubmitListing(c, l)
        PROVE  ListingTyped' /\ \A k \in Listings : Stands(k)
    BY <2>3, <2>6 DEF CreateListing, SubmitListing
  <2>7. ASSUME NEW c \in Moderators, NEW l \in Listings, NEW decision \in {"ACTIVE", "REJECTED"},
               ModerateRead(c, l, decision) \/ Moderate(c, l, decision)
        PROVE  ListingTyped' /\ \A k \in Listings : Stands(k)
    BY <2>1, <2>3, <2>7 DEF ModerateRead, Moderate
  <2>8. ASSUME NEW c \in Moderators, NEW l \in Listings, NEW p \in Parties,
               ReviewRead(c, l, p) \/ Review(c, l, p)
        PROVE  ListingTyped' /\ \A k \in Listings : Stands(k)
    <3>1. p \notin {"submit", "ACTIVE", "REJECTED"}
      OBVIOUS
    <3> QED BY <2>1, <2>2, <2>8, <3>1 DEF ReviewRead, Review
  <2>9. ASSUME NEW l \in Listings, MakeOffer(l) \/ AcceptOffer(l) \/ DealMoves(l)
        PROVE  ListingTyped' /\ \A k \in Listings : Stands(k)
    BY <2>9 DEF MakeOffer, AcceptOffer, DealMoves, WritesListing
  <2>10. CASE UNCHANGED marketplaceVars
    BY <2>10 DEF marketplaceVars
  <2> QED
    BY <2>4, <2>5, <2>6, <2>7, <2>8, <2>9, <2>10 DEF MarketplaceNext
<1> QED BY <1>1, <1>2, PTL DEF MarketplaceSpec, SoldUnlessOvertaken
-----------------------------------------------------------------------------
(***************************************************************************)
(* Storefront.  Whoever creates a cart had found none, and each creation   *)
(* takes one such reader; a discount is sound when it is calculated.       *)
(***************************************************************************)
CartReaders == {c \in Shoppers : shopper[c].op = "cart"}

\* The discount d is right for promotion p of goods worth n.
SoundDiscount(p, n, d) ==
    /\ d \in 0..n
    /\ PromotionKind[p] = "PERCENTAGE" => 100 * d - n * PromotionValue[p] \in -49..50

ShopperTyped ==
    shopper \in [Shoppers -> [op : {"idle", "cart", "order"}, promotion : Promotions \cup {None},
                              subtotal : Nat, discount : Nat]]

QuotesAreSound ==
    \A c \in Shoppers : shopper[c].op = "order" =>
        /\ shopper[c].promotion \in Promotions
        /\ SoundDiscount(shopper[c].promotion, shopper[c].subtotal, shopper[c].discount)

\* The inductive invariants of discounts and of carts.
DiscountInv == ShopperTyped /\ QuotesAreSound /\ DiscountIsSound
CartsInv == ShopperTyped /\ IsFiniteSet(activeCarts) /\ ManyCartsOnlyInARace

\* What a percentage takes is no more than the goods and exact to half a unit, and
\* what an amount takes is no more than the goods (promotionDiscount).
LEMMA DiscountsAreSound ==
    ASSUME NEW p \in Promotions, NEW n \in Nat
    PROVE  SoundDiscount(p, n, Discount(p, n)) /\ Discount(p, n) \in Nat
<1> USE StorefrontAssumption
<1>1. CASE PromotionKind[p] = "PERCENTAGE"
  <2> DEFINE v == PromotionValue[p]
             x == n * v
             d == (x + 50) \div 100
  <2>1. v \in Nat /\ v <= 100
    BY <1>1
  <2>2. x \in Nat /\ x <= 100 * n
    <3> HIDE DEF v
    <3>1. \A m, k \in Nat : k <= 100 => m * k \in Nat /\ m * k <= 100 * m
      OBVIOUS
    <3> QED BY <2>1, <3>1
  <2>3. Discount(p, n) = Least(n, d)
    BY <1>1 DEF Discount
  <2>4. SoundDiscount(p, n, Least(n, d)) <=> Least(n, d) \in 0..n /\ 100 * Least(n, d) - x \in -49..50
    BY <1>1 DEF SoundDiscount
  <2> HIDE DEF x
  <2>5. d \in Nat /\ 100 * d <= x + 50 /\ x + 50 < 100 * d + 100
    BY <2>2
  <2> HIDE DEF d
  <2>6. d <= n
    BY <2>2, <2>5
  <2>7. Least(n, d) = d
    BY <2>5, <2>6 DEF Least
  <2> QED BY <2>2, <2>3, <2>4, <2>5, <2>6, <2>7
<1>2. CASE PromotionKind[p] = "FIXED"
  BY <1>2 DEF Discount, SoundDiscount, Least
<1> QED BY <1>1, <1>2

\* A discount is never more than the goods, and a percentage is exact to half a minor
\* unit (promotionDiscount).
THEOREM DiscountsSound == StorefrontSpec => []DiscountIsSound
<1>1. StorefrontInit => DiscountInv
  BY DEF StorefrontInit, DiscountInv, ShopperTyped, QuotesAreSound, DiscountIsSound, ShopperIdle
<1>2. DiscountInv /\ [StorefrontNext]_storefrontVars => DiscountInv'
  <2> SUFFICES ASSUME DiscountInv, [StorefrontNext]_storefrontVars PROVE DiscountInv'
    OBVIOUS
  <2> USE StorefrontAssumption DEF DiscountInv
  <2>1. ASSUME UNCHANGED <<shopper, ordered>> PROVE DiscountInv'
    BY <2>1 DEF ShopperTyped, QuotesAreSound, DiscountIsSound
  <2>2. ASSUME NEW c \in Shoppers, shopper' = [shopper EXCEPT ![c] = ShopperIdle],
               ordered' = ordered
        PROVE  DiscountInv'
    BY <2>2 DEF ShopperTyped, QuotesAreSound, DiscountIsSound, ShopperIdle
  <2>3. ASSUME NEW c \in Shoppers, CreateCartRead(c) PROVE DiscountInv'
    BY <2>3 DEF CreateCartRead, ShopperTyped, QuotesAreSound, DiscountIsSound, ShopperIdle
  <2>4. ASSUME NEW c \in Shoppers, NEW p \in Promotions, NEW subtotal \in Subtotals,
               QuoteDiscount(c, p, subtotal)
        PROVE  DiscountInv'
    <3>1. /\ shopper' = [shopper EXCEPT ![c] = [op |-> "order", promotion |-> p,
                           subtotal |-> subtotal, discount |-> Discount(p, subtotal)]]
          /\ ordered' = ordered /\ subtotal \in Nat
      BY <2>4 DEF QuoteDiscount
    <3>2. SoundDiscount(p, subtotal, Discount(p, subtotal)) /\ Discount(p, subtotal) \in Nat
      BY <3>1, DiscountsAreSound
    <3>3. ShopperTyped'
      BY <3>1, <3>2 DEF ShopperTyped
    <3>4. QuotesAreSound'
      BY <3>1, <3>2 DEF ShopperTyped, QuotesAreSound, SoundDiscount
    <3> QED BY <3>1, <3>3, <3>4 DEF DiscountIsSound
  <2>5. ASSUME NEW c \in Shoppers, NEW t \in Carts, OrderDiscounted(c, t) PROVE DiscountInv'
    <3> DEFINE o == [promotion |-> shopper[c].promotion, subtotal |-> shopper[c].subtotal,
                     discount |-> shopper[c].discount]
    <3>1. /\ shopper' = [shopper EXCEPT ![c] = ShopperIdle] /\ ordered' = ordered \cup {o}
          /\ shopper[c].op = "order"
      BY <2>5 DEF OrderDiscounted
    <3>2. SoundDiscount(o.promotion, o.subtotal, o.discount)
      BY <3>1 DEF QuotesAreSound
    <3> HIDE DEF o
    <3>3. DiscountIsSound'
      BY <3>1, <3>2 DEF DiscountIsSound, SoundDiscount
    <3> QED BY <3>1, <3>3 DEF ShopperTyped, QuotesAreSound, ShopperIdle
  <2> QED
    BY <2>1, <2>2, <2>3, <2>4, <2>5
       DEF StorefrontNext, storefrontVars, CreatePromotion, PromotionTurns, OrderRefused, CreateCart
<1>3. DiscountInv => DiscountIsSound
  BY DEF DiscountInv
<1> QED BY <1>1, <1>2, <1>3, PTL DEF StorefrontSpec

\* No reader more keeps the bound on carts, and readers of no cart are within it.
LEMMA ReadersKeepCarts ==
    ASSUME CartsInv, ShopperTyped',
           \/ activeCarts' = activeCarts /\ CartReaders' \subseteq CartReaders
           \/ activeCarts' \subseteq activeCarts /\ CartReaders' \subseteq CartReaders
           \/ activeCarts' = {}
    PROVE  CartsInv'
<1> USE StorefrontAssumption DEF CartsInv
<1>0. CartReaders \subseteq Shoppers /\ CartReaders' \subseteq Shoppers
  BY DEF CartReaders
<1>1. /\ IsFiniteSet(CartReaders) /\ IsFiniteSet(CartReaders')
      /\ Cardinality(CartReaders') <= Cardinality(Shoppers)
      /\ CartReaders' \subseteq CartReaders => Cardinality(CartReaders') <= Cardinality(CartReaders)
  BY <1>0, FS_Subset
<1>2. /\ IsFiniteSet(activeCarts')
      /\ Cardinality(activeCarts') = 0 \/ Cardinality(activeCarts') <= Cardinality(activeCarts)
      /\ Cardinality(activeCarts') = 0 \/ CartReaders' \subseteq CartReaders
  BY FS_Subset, FS_EmptySet
<1>3. /\ Cardinality(CartReaders) \in Nat /\ Cardinality(CartReaders') \in Nat
      /\ Cardinality(Shoppers) \in Nat
      /\ Cardinality(activeCarts) \in Nat /\ Cardinality(activeCarts') \in Nat
  BY <1>1, <1>2, FS_CardinalityType
<1>4. Cardinality(activeCarts) + Cardinality(CartReaders) <= Cardinality(Shoppers)
  BY DEF ManyCartsOnlyInARace, CartReaders
<1>5. Cardinality(activeCarts') + Cardinality(CartReaders') <= Cardinality(Shoppers)
  BY <1>1, <1>2, <1>3, <1>4
<1> QED BY <1>2, <1>5 DEF ManyCartsOnlyInARace, CartReaders

\* A customer has more than one active cart only if requests for one overlapped
\* (createCart looks first and creates then).
THEOREM CartsRaceOnly == StorefrontSpec => []ManyCartsOnlyInARace
<1>1. StorefrontInit => CartsInv
  <2> SUFFICES ASSUME StorefrontInit PROVE CartsInv
    OBVIOUS
  <2>1. ShopperTyped /\ activeCarts = {} /\ CartReaders = {}
    BY DEF StorefrontInit, ShopperTyped, ShopperIdle, CartReaders
  <2>2. IsFiniteSet({}) /\ Cardinality({}) = 0 /\ Cardinality(Shoppers) \in Nat
    BY StorefrontAssumption, FS_EmptySet, FS_CardinalityType
  <2>3. Cardinality(activeCarts) + Cardinality(CartReaders) <= Cardinality(Shoppers)
    BY <2>1, <2>2
  <2> QED BY <2>1, <2>2, <2>3 DEF CartsInv, ManyCartsOnlyInARace, CartReaders
<1>2. CartsInv /\ [StorefrontNext]_storefrontVars => CartsInv'
  <2> SUFFICES ASSUME CartsInv, [StorefrontNext]_storefrontVars PROVE CartsInv'
    OBVIOUS
  <2> USE StorefrontAssumption DEF CartsInv
  <2>1. ASSUME UNCHANGED <<shopper, activeCarts>> PROVE CartsInv'
    BY <2>1, ReadersKeepCarts DEF ShopperTyped, CartReaders
  <2>2. ASSUME NEW c \in Shoppers, CreateCartRead(c) PROVE CartsInv'
    BY <2>2, ReadersKeepCarts DEF CreateCartRead, NoCart, ShopperTyped
  <2>3. ASSUME NEW c \in Shoppers, OrderRefused(c) PROVE CartsInv'
    BY <2>3, ReadersKeepCarts DEF OrderRefused, ShopperTyped, ShopperIdle, CartReaders
  <2>4. ASSUME NEW c \in Shoppers, NEW t \in Carts, CreateCart(c, t) PROVE CartsInv'
    <3>1. /\ c \in CartReaders /\ t \notin activeCarts /\ activeCarts' = activeCarts \cup {t}
          /\ shopper' = [shopper EXCEPT ![c] = ShopperIdle]
      BY <2>4 DEF CreateCart, CartReaders
    <3>2. ShopperTyped' /\ CartReaders' = CartReaders \ {c}
      BY <3>1 DEF ShopperTyped, ShopperIdle, CartReaders
    <3>3. IsFiniteSet(CartReaders)
      <4>1. CartReaders \subseteq Shoppers
        BY DEF CartReaders
      <4> QED BY <4>1, FS_Subset
    <3>4. /\ IsFiniteSet(activeCarts') /\ Cardinality(activeCarts') = Cardinality(activeCarts) + 1
          /\ Cardinality(CartReaders') = Cardinality(CartReaders) - 1
      BY <3>1, <3>2, <3>3, FS_AddElement, FS_RemoveElement
    <3>5. /\ Cardinality(activeCarts) \in Nat /\ Cardinality(CartReaders) \in Nat
          /\ Cardinality(Shoppers) \in Nat
      BY <3>3, FS_CardinalityType
    <3>6. Cardinality(activeCarts) + Cardinality(CartReaders) <= Cardinality(Shoppers)
      BY DEF ManyCartsOnlyInARace, CartReaders
    <3>7. Cardinality(activeCarts') + Cardinality(CartReaders') <= Cardinality(Shoppers)
      BY <3>4, <3>5, <3>6
    <3> QED BY <3>2, <3>4, <3>7 DEF ManyCartsOnlyInARace, CartReaders
  <2>5. ASSUME NEW c \in Shoppers, NEW t \in Carts, OrderDiscounted(c, t) PROVE CartsInv'
    BY <2>5, ReadersKeepCarts DEF OrderDiscounted, ShopperTyped, ShopperIdle, CartReaders
  <2>6. ASSUME NEW c \in Shoppers, NEW p \in Promotions, NEW subtotal \in Subtotals,
               QuoteDiscount(c, p, subtotal)
        PROVE  CartsInv'
    <3>1. /\ activeCarts' = activeCarts /\ subtotal \in Nat
          /\ shopper' = [shopper EXCEPT ![c] = [op |-> "order", promotion |-> p,
                           subtotal |-> subtotal, discount |-> Discount(p, subtotal)]]
      BY <2>6 DEF QuoteDiscount
    <3>2. Discount(p, subtotal) \in Nat
      BY <3>1, DiscountsAreSound
    <3>3. ShopperTyped' /\ CartReaders' \subseteq CartReaders
      BY <3>1, <3>2 DEF ShopperTyped, CartReaders
    <3> QED BY <3>1, <3>3, ReadersKeepCarts
  <2> QED
    BY <2>1, <2>2, <2>3, <2>4, <2>5, <2>6
       DEF StorefrontNext, storefrontVars, CreatePromotion, PromotionTurns
<1>3. CartsInv => ManyCartsOnlyInARace
  BY DEF CartsInv
<1> QED BY <1>1, <1>2, <1>3, PTL DEF StorefrontSpec

\* A promotion that is over is used only by a checkout that was quoted while it ran
\* (promotionDiscount; checkout does not look at it again).
THEOREM LateUseIsQuoted == StorefrontSpec => UsedLateOnlyIfQuoted
<1> DEFINE Kept(p) == promotion[p] = "OVER" =>
                        {c \in Shoppers : shopper[c].promotion = p}'
                           \subseteq {c \in Shoppers : shopper[c].promotion = p}
<1>1. StorefrontInit => ShopperTyped
  BY DEF StorefrontInit, ShopperTyped, ShopperIdle
<1>2. ShopperTyped /\ [StorefrontNext]_storefrontVars =>
        ShopperTyped' /\ [\A p \in Promotions : Kept(p)]_storefrontVars
  <2> SUFFICES ASSUME ShopperTyped, [StorefrontNext]_storefrontVars
               PROVE  ShopperTyped' /\ [\A p \in Promotions : Kept(p)]_storefrontVars
    OBVIOUS
  <2> USE StorefrontAssumption DEF ShopperTyped
  <2>1. CASE shopper' = shopper
    BY <2>1
  <2>2. ASSUME NEW c \in Shoppers, CreateCartRead(c)
        PROVE  ShopperTyped' /\ \A p \in Promotions : Kept(p)
    BY <2>2 DEF CreateCartRead
  <2>3. ASSUME NEW c \in Shoppers, shopper' = [shopper EXCEPT ![c] = ShopperIdle]
        PROVE  ShopperTyped' /\ \A p \in Promotions : Kept(p)
    BY <2>3 DEF ShopperIdle
  <2>4. ASSUME NEW c \in Shoppers, NEW p \in Promotions, NEW subtotal \in Subtotals,
               QuoteDiscount(c, p, subtotal)
        PROVE  ShopperTyped' /\ \A q \in Promotions : Kept(q)
    <3>1. /\ promotion[p] = "RUNNING" /\ subtotal \in Nat
          /\ shopper' = [shopper EXCEPT ![c] = [op |-> "order", promotion |-> p,
                           subtotal |-> subtotal, discount |-> Discount(p, subtotal)]]
      BY <2>4 DEF QuoteDiscount, Available
    <3>2. Discount(p, subtotal) \in Nat
      BY <3>1, DiscountsAreSound
    <3> QED BY <3>1, <3>2
  <2> QED
    BY <2>1, <2>2, <2>3, <2>4
       DEF StorefrontNext, storefrontVars, CreatePromotion, PromotionTurns, OrderRefused, CreateCart,
           OrderDiscounted
<1> QED BY <1>1, <1>2, PTL DEF StorefrontSpec, UsedLateOnlyIfQuoted
-----------------------------------------------------------------------------
(***************************************************************************)
(* Client stock and bills.  What is about to be allocated fitted, with     *)
(* what the others were seen to have, what the item ever had on hand; an   *)
(* event on a bill is BILLED and is not found again.                       *)
(***************************************************************************)
ManagerTyped ==
    /\ allocated \in [Clients -> Nat]
    /\ shelf \in 0..OnHandAtFirst
    /\ DOMAIN events = Events /\ billed \in [ThirdPartyBills -> SUBSET Events]
    /\ manager \in [Managers -> [op : {"idle", "assign", "issue"},
                                 for : Clients \cup ThirdPartyBills \cup {None},
                                 quantity : Nat, others : Nat, events : SUBSET Events]]

AllocationsFitted ==
    \A m \in Managers : manager[m].op = "assign" =>
        manager[m].quantity + manager[m].others <= OnHandAtFirst

OnBillIsBilled == \A b \in ThirdPartyBills : \A e \in billed[b] : events[e] = "BILLED"

\* What an invoice is to be made of has been recorded.
InHandIsRecorded == \A m \in Managers : \A e \in manager[m].events : events[e] # "NONE"

\* The inductive invariant of client stock and bills.
ManagerInv == ManagerTyped /\ AllocationsFitted /\ OnBillIsBilled /\ InHandIsRecorded

\* The units of the other clients are finitely many.
LEMMA OthersCounted == ASSUME ManagerTyped, NEW k \in Clients PROVE OthersOf(k) \in Nat
<1> DEFINE F == {{j} \X (1..allocated[j]) : j \in Clients \ {k}}
<1>1. IsFiniteSet(Clients \ {k})
  BY ClientStockAssumption, FS_RemoveElement
<1>2. IsFiniteSet(F)
  <2> DEFINE f == [j \in Clients \ {k} |-> {j} \X (1..allocated[j])]
  <2>1. f \in Surjection(Clients \ {k}, F)
    BY DEF Surjection
  <2> QED BY <1>1, <2>1, FS_Surjection
<1>3. ASSUME NEW j \in Clients PROVE IsFiniteSet({j} \X (1..allocated[j]))
  <2>1. allocated[j] \in Nat
    BY DEF ManagerTyped
  <2>2. IsFiniteSet({j}) /\ IsFiniteSet(1..allocated[j])
    <3>1. IsFiniteSet({j})
      BY FS_Singleton
    <3>2. IsFiniteSet(1..allocated[j])
      BY <2>1, FS_Interval
    <3> QED BY <3>1, <3>2
  <2> QED BY <2>2, FS_Product
<1>4. \A T \in F : IsFiniteSet(T)
  BY <1>3
<1> HIDE DEF F
<1>5. IsFiniteSet(UNION F)
  BY <1>2, <1>4, FS_UNION
<1>6. OthersOf(k) = Cardinality(UNION F)
  BY DEF OthersOf, UnitsOfOthers, F
<1> QED BY <1>5, <1>6, FS_CardinalityType

\* The invariant of client stock and bills holds in every state.
LEMMA ManagersSound == ClientStockSpec => []ManagerInv
<1>1. ClientStockInit => ManagerInv
  BY ClientStockAssumption
     DEF ClientStockInit, ManagerInv, ManagerTyped, AllocationsFitted, OnBillIsBilled,
         InHandIsRecorded, ManagerIdle
<1>2. ManagerInv /\ [ClientStockNext]_clientStockVars => ManagerInv'
  <2> SUFFICES ASSUME ManagerInv, [ClientStockNext]_clientStockVars PROVE ManagerInv'
    OBVIOUS
  <2> USE ClientStockAssumption DEF ManagerInv
  <2>1. CASE TakeUnit
    BY <2>1 DEF TakeUnit, ManagerTyped, AllocationsFitted, OnBillIsBilled, InHandIsRecorded
  <2>2. ASSUME NEW e \in Events, RecordEvent(e) PROVE ManagerInv'
    BY <2>2 DEF RecordEvent, ManagerTyped, AllocationsFitted, OnBillIsBilled, InHandIsRecorded
  <2>3. ASSUME NEW m \in Managers, NEW k \in Clients, NEW n \in Quantities, AllocateRead(m, k, n)
        PROVE  ManagerInv'
    <3> DEFINE r == [ManagerIdle EXCEPT !.op = "assign", !.for = k, !.quantity = n,
                                        !.others = OthersOf(k)]
    <3>1. OthersOf(k) \in Nat /\ n \in Nat /\ n + OthersOf(k) <= OnHandAtFirst
      BY <2>3, OthersCounted DEF AllocateRead, FitsShelf, ManagerTyped
    <3>2. manager' = [manager EXCEPT ![m] = r] /\ UNCHANGED <<shelf, allocated, events, billed>>
      BY <2>3 DEF AllocateRead
    <3>3. /\ r \in [op : {"idle", "assign", "issue"}, for : Clients \cup ThirdPartyBills \cup {None},
                    quantity : Nat, others : Nat, events : SUBSET Events]
          /\ r.quantity = n /\ r.others = OthersOf(k) /\ r.events = {}
      BY <3>1 DEF ManagerIdle
    <3> HIDE DEF r
    <3>4. ManagerTyped'
      BY <3>2, <3>3 DEF ManagerTyped
    <3>5. AllocationsFitted' /\ InHandIsRecorded'
      BY <3>1, <3>2, <3>3 DEF AllocationsFitted, InHandIsRecorded, ManagerTyped
    <3> QED BY <3>2, <3>4, <3>5 DEF OnBillIsBilled
  <2>4. ASSUME NEW m \in Managers, NEW k \in Clients, Allocate(m, k) PROVE ManagerInv'
    BY <2>4 DEF Allocate, ManagerTyped, AllocationsFitted, OnBillIsBilled, InHandIsRecorded,
                ManagerIdle
  <2>5. ASSUME NEW m \in Managers, NEW b \in ThirdPartyBills, IssueRead(m, b) PROVE ManagerInv'
    <3> DEFINE found == {e \in Events : events[e] = "UNBILLED"}
               r == [ManagerIdle EXCEPT !.op = "issue", !.for = b, !.events = found]
    <3>1. manager' = [manager EXCEPT ![m] = r] /\ UNCHANGED <<shelf, allocated, events, billed>>
      BY <2>5 DEF IssueRead
    <3>2. /\ r \in [op : {"idle", "assign", "issue"}, for : Clients \cup ThirdPartyBills \cup {None},
                    quantity : Nat, others : Nat, events : SUBSET Events]
          /\ r.op = "issue" /\ r.events = found
      BY DEF ManagerIdle
    <3> HIDE DEF r
    <3>3. ManagerTyped'
      BY <3>1, <3>2 DEF ManagerTyped
    <3>4. AllocationsFitted' /\ InHandIsRecorded'
      BY <3>1, <3>2 DEF AllocationsFitted, InHandIsRecorded, ManagerTyped
    <3> QED BY <3>1, <3>3, <3>4 DEF OnBillIsBilled
  <2>6. ASSUME NEW m \in Managers, NEW b \in ThirdPartyBills, Issue(m, b) PROVE ManagerInv'
    <3>1. /\ manager' = [manager EXCEPT ![m] = ManagerIdle]
          /\ billed' = [billed EXCEPT ![b] = manager[m].events]
          /\ events' = [e \in Events |->
                          IF e \in manager[m].events THEN "BILLED" ELSE events[e]]
          /\ UNCHANGED <<shelf, allocated>>
      BY <2>6 DEF Issue, MarkBilled
    <3>2. ManagerTyped' /\ AllocationsFitted'
      BY <3>1 DEF ManagerTyped, AllocationsFitted, ManagerIdle
    <3>3. OnBillIsBilled'
      BY <3>1 DEF ManagerTyped, OnBillIsBilled
    <3>4. InHandIsRecorded'
      BY <3>1 DEF ManagerTyped, InHandIsRecorded, ManagerIdle
    <3> QED BY <3>2, <3>3, <3>4
  <2>7. CASE UNCHANGED clientStockVars
    BY <2>7 DEF clientStockVars, ManagerTyped, AllocationsFitted, OnBillIsBilled, InHandIsRecorded
  <2> QED BY <2>1, <2>2, <2>3, <2>4, <2>5, <2>6, <2>7 DEF ClientStockNext
<1> QED BY <1>1, <1>2, PTL DEF ClientStockSpec

\* Clients are promised more than the item ever had on hand only when an assignment
\* overtook another one between its read and its write (assignInventory).
THEOREM OverpromisesRaceOnly == ClientStockSpec => OverpromiseOnlyInARace
<1> DEFINE Raced(k) ==
      (/\ allocated'[k] > allocated[k]
       /\ allocated'[k] + OthersOf(k) > OnHandAtFirst) =>
         \E m \in Managers : /\ manager[m].op = "assign" /\ manager[m].for = k
                             /\ manager[m].others # OthersOf(k)
<1>1. ASSUME ManagerInv, ClientStockNext, NEW k \in Clients PROVE Raced(k)
  <2> USE <1>1 DEF ManagerInv
  <2> SUFFICES ASSUME allocated'[k] > allocated[k], allocated'[k] + OthersOf(k) > OnHandAtFirst
               PROVE  \E m \in Managers : /\ manager[m].op = "assign" /\ manager[m].for = k
                                          /\ manager[m].others # OthersOf(k)
    OBVIOUS
  <2>0. OthersOf(k) \in Nat /\ allocated[k] \in Nat /\ OnHandAtFirst \in Nat
    BY OthersCounted, ClientStockAssumption DEF ManagerTyped
  <2>1. allocated'[k] # allocated[k]
    BY <2>0
  <2>2. PICK m \in Managers, j \in Clients : Allocate(m, j)
    BY <2>1 DEF ClientStockNext, TakeUnit, RecordEvent, AllocateRead, IssueRead, Issue
  <2>3. j = k /\ manager[m].op = "assign" /\ manager[m].for = k /\ allocated'[k] = manager[m].quantity
    BY <2>1, <2>2 DEF Allocate, ManagerTyped
  <2>4. /\ manager[m].quantity + manager[m].others <= OnHandAtFirst
        /\ manager[m].quantity \in Nat /\ manager[m].others \in Nat
    BY <2>3 DEF AllocationsFitted, ManagerTyped
  <2>5. manager[m].others # OthersOf(k)
    BY <2>0, <2>3, <2>4
  <2> QED BY <2>3, <2>5
<1>2. ManagerInv /\ [ClientStockNext]_clientStockVars =>
        [\A k \in Clients : Raced(k)]_clientStockVars
  BY <1>1
<1> QED BY <1>2, ManagersSound, PTL DEF ClientStockSpec, OverpromiseOnlyInARace

\* An event that is on an invoice is never read for another one (issueInvoice).
THEOREM BilledIsNotFound == ClientStockSpec => NoRebilling
<1> DEFINE Fresh(m) ==
      (manager[m].op # "issue" /\ manager'[m].op = "issue") =>
         \A b \in ThirdPartyBills : billed[b] \cap manager'[m].events = {}
<1>1. ASSUME ManagerInv, ClientStockNext, NEW m \in Managers,
             manager[m].op # "issue", manager'[m].op = "issue"
      PROVE  \A b \in ThirdPartyBills : billed[b] \cap manager'[m].events = {}
  <2> USE <1>1 DEF ManagerInv
  <2>1. manager'[m] # manager[m]
    OBVIOUS
  <2>2. PICK d \in Managers, b \in ThirdPartyBills : IssueRead(d, b)
    <3>1. ASSUME NEW d \in Managers, NEW k \in Clients, NEW n \in Quantities, AllocateRead(d, k, n)
          PROVE  FALSE
      <4>1. manager' = [manager EXCEPT ![d] = [ManagerIdle EXCEPT !.op = "assign", !.for = k,
                                                 !.quantity = n, !.others = OthersOf(k)]]
        BY <3>1 DEF AllocateRead
      <4>2. [ManagerIdle EXCEPT !.op = "assign", !.for = k, !.quantity = n,
                                !.others = OthersOf(k)].op = "assign"
        BY DEF ManagerIdle
      <4> QED BY <1>1, <4>1, <4>2 DEF ManagerTyped
    <3>2. ASSUME NEW d \in Managers, manager' = [manager EXCEPT ![d] = ManagerIdle]
          PROVE  FALSE
      BY <1>1, <3>2 DEF ManagerTyped, ManagerIdle
    <3>3. ASSUME manager' = manager PROVE FALSE
      BY <2>1, <3>3
    <3> QED
      BY <1>1, <3>1, <3>2, <3>3 DEF ClientStockNext, TakeUnit, RecordEvent, Allocate, Issue
  <2>3. manager'[m].events = {e \in Events : events[e] = "UNBILLED"}
    BY <2>1, <2>2 DEF IssueRead, ManagerTyped, ManagerIdle
  <2> QED BY <2>3 DEF OnBillIsBilled
<1>2. ManagerInv /\ [ClientStockNext]_clientStockVars =>
        [\A m \in Managers : Fresh(m)]_clientStockVars
  BY <1>1
<1> QED BY <1>2, ManagersSound, PTL DEF ClientStockSpec, NoRebilling
-----------------------------------------------------------------------------
(***************************************************************************)
(* Optimization.  A lane's place is its number in the ranking, and no two  *)
(* lanes share one.  The trail of a recommendation only grows, so that     *)
(* what a caller has seen of it has still happened when the caller writes. *)
(***************************************************************************)

\* A lane has one place, one that precedes it an earlier one, and every place up
\* to the number of lanes is taken.
LEMMA PlacesRank ==
    ASSUME NEW i \in Inputs
    PROVE  LET N == Cardinality(FeasibleLanes) IN
           /\ N \in Nat
           /\ \A n \in FeasibleLanes : Place(i, n) \in 1..N
           /\ \A n, other \in FeasibleLanes :
                 Precedes(i, n, other) => Place(i, n) < Place(i, other)
           /\ \A n, other \in FeasibleLanes : Place(i, n) = Place(i, other) => n = other
           /\ \A k \in 1..N : \E n \in FeasibleLanes : Place(i, n) = k
<1> DEFINE N == Cardinality(FeasibleLanes)
           Before(n) == {other \in FeasibleLanes : Precedes(i, other, n)}
           B(n) == Cardinality(Before(n))
<1>1. IsFiniteSet(FeasibleLanes) /\ N \in Nat
  <2>1. FeasibleLanes \subseteq Lanes
    BY DEF FeasibleLanes
  <2>2. IsFiniteSet(FeasibleLanes)
    BY <2>1, OptimizationAssumption, FS_Subset
  <2> QED BY <2>2, FS_CardinalityType
<1>2. \A n \in FeasibleLanes : Score[i][n] \in Nat /\ LaneOrder[n] \in Nat
  BY OptimizationAssumption DEF FeasibleLanes
<1>3. \A n, other \in FeasibleLanes :
         Score[i][n] = Score[i][other] /\ LaneOrder[n] = LaneOrder[other] => n = other
  BY OptimizationAssumption DEF FeasibleLanes
<1>4. \A n, other \in FeasibleLanes : n # other => Precedes(i, n, other) \/ Precedes(i, other, n)
  <2> SUFFICES ASSUME NEW n \in FeasibleLanes, NEW other \in FeasibleLanes, n # other
               PROVE  Precedes(i, n, other) \/ Precedes(i, other, n)
    OBVIOUS
  <2>1. Score[i][n] # Score[i][other] \/ LaneOrder[n] # LaneOrder[other]
    BY <1>3
  <2>2. /\ Score[i][n] \in Nat /\ LaneOrder[n] \in Nat
        /\ Score[i][other] \in Nat /\ LaneOrder[other] \in Nat
    BY <1>2
  <2> QED BY <2>1, <2>2 DEF Precedes
<1>5. \A n, other \in FeasibleLanes : Precedes(i, n, other) =>
         Before(n) \subseteq Before(other) /\ n \in Before(other) /\ n \notin Before(n)
  BY <1>2 DEF Precedes
<1>6. \A n \in FeasibleLanes : n \notin Before(n) /\ Before(n) \subseteq FeasibleLanes
  BY <1>2 DEF Precedes
<1>7. \A n : Place(i, n) = B(n) + 1
  BY DEF Place
<1> HIDE DEF Before
<1>8. \A n \in FeasibleLanes : IsFiniteSet(Before(n)) /\ B(n) \in Nat
  <2> SUFFICES ASSUME NEW n \in FeasibleLanes PROVE IsFiniteSet(Before(n)) /\ B(n) \in Nat
    OBVIOUS
  <2>1. IsFiniteSet(Before(n))
    BY <1>1, <1>6, FS_Subset
  <2> QED BY <2>1, FS_CardinalityType
<1>9. ASSUME NEW S, NEW T, IsFiniteSet(T), S \subseteq T, NEW x \in T, x \notin S
      PROVE  Cardinality(S) < Cardinality(T)
  <2>1. IsFiniteSet(S) /\ Cardinality(S) <= Cardinality(T) /\ Cardinality(S) # Cardinality(T)
    BY <1>9, FS_Subset
  <2>2. Cardinality(S) \in Nat /\ Cardinality(T) \in Nat
    BY <1>9, <2>1, FS_CardinalityType
  <2> QED BY <2>1, <2>2
<1>10. \A n \in FeasibleLanes : B(n) < N
  BY <1>1, <1>6, <1>9
<1>11. \A n, other \in FeasibleLanes : Precedes(i, n, other) => B(n) < B(other)
  BY <1>5, <1>8, <1>9
<1> HIDE DEF B, N
<1>12. \A n \in FeasibleLanes : Place(i, n) \in 1..N
  BY <1>1, <1>7, <1>8, <1>10
<1>13. \A n, other \in FeasibleLanes : Precedes(i, n, other) => Place(i, n) < Place(i, other)
  BY <1>7, <1>8, <1>11
<1>14. \A n, other \in FeasibleLanes : Place(i, n) = Place(i, other) => n = other
  <2> SUFFICES ASSUME NEW n \in FeasibleLanes, NEW other \in FeasibleLanes, n # other
               PROVE  Place(i, n) # Place(i, other)
    OBVIOUS
  <2>1. Place(i, n) \in Nat /\ Place(i, other) \in Nat
    BY <1>7, <1>8
  <2>2. Place(i, n) < Place(i, other) \/ Place(i, other) < Place(i, n)
    BY <1>4, <1>13
  <2> QED BY <2>1, <2>2
<1>15. \A k \in 1..N : \E n \in FeasibleLanes : Place(i, n) = k
  <2> DEFINE f == [n \in FeasibleLanes |-> Place(i, n)]
  <2>1. f \in Injection(FeasibleLanes, 1..N)
    <3>1. f \in [FeasibleLanes -> 1..N]
      BY <1>12
    <3>2. \A n, other \in FeasibleLanes : f[n] = f[other] => n = other
      BY <1>14
    <3> QED BY <3>1, <3>2 DEF Injection, IsInjective
  <2>2. IsFiniteSet(1..N) /\ Cardinality(1..N) = N
    BY <1>1, FS_Interval
  <2>3. f \in Surjection(FeasibleLanes, 1..N)
    BY <2>1, <2>2, FS_Injection DEF N
  <2> QED BY <2>3 DEF Surjection
<1> QED BY <1>1, <1>12, <1>13, <1>14, <1>15 DEF N

\* A ranking keeps feasible lanes, and none that it leaves out or ranks lower is
\* better than one it keeps (recommend).
LEMMA RankedKeepsTheBest ==
    ASSUME NEW i \in Inputs, NEW r \in DOMAIN Ranked(i), NEW n \in Lanes
    PROVE  /\ LaneCapacity[Ranked(i)[r]] >= MinimumCapacity
           /\ LaneCapacity[n] >= MinimumCapacity /\ Score[i][n] < Score[i][Ranked(i)[r]]
              => \E better \in 1..(r - 1) : Ranked(i)[better] = n
<1> DEFINE N == Cardinality(FeasibleLanes)
<1>1. /\ N \in Nat
      /\ \A m \in FeasibleLanes : Place(i, m) \in 1..N
      /\ \A m, other \in FeasibleLanes : Precedes(i, m, other) => Place(i, m) < Place(i, other)
      /\ \A m, other \in FeasibleLanes : Place(i, m) = Place(i, other) => m = other
      /\ \A k \in 1..N : \E m \in FeasibleLanes : Place(i, m) = k
  BY PlacesRank
<1> HIDE DEF N
<1>2. Ranked(i) = [k \in 1..Alternatives \cap 1..N |->
                     CHOOSE m \in FeasibleLanes : Place(i, m) = k]
  BY DEF Ranked, N
<1>3. \A k \in 1..Alternatives \cap 1..N :
         Ranked(i)[k] \in FeasibleLanes /\ Place(i, Ranked(i)[k]) = k
  <2> SUFFICES ASSUME NEW k \in 1..Alternatives \cap 1..N
               PROVE  Ranked(i)[k] \in FeasibleLanes /\ Place(i, Ranked(i)[k]) = k
    OBVIOUS
  <2>1. \E m \in FeasibleLanes : Place(i, m) = k
    BY <1>1
  <2> QED BY <1>2, <2>1
<1>4. r \in 1..Alternatives \cap 1..N
  BY <1>2
<1>5. LaneCapacity[Ranked(i)[r]] >= MinimumCapacity
  BY <1>3, <1>4 DEF FeasibleLanes
<1>6. ASSUME LaneCapacity[n] >= MinimumCapacity, Score[i][n] < Score[i][Ranked(i)[r]]
      PROVE  \E better \in 1..(r - 1) : Ranked(i)[better] = n
  <2>1. n \in FeasibleLanes
    BY <1>6 DEF FeasibleLanes
  <2>2. Place(i, n) < r /\ Place(i, n) \in 1..N
    <3>1. Precedes(i, n, Ranked(i)[r])
      BY <1>6 DEF Precedes
    <3> QED BY <1>1, <1>3, <1>4, <2>1, <3>1
  <2>3. Place(i, n) \in 1..Alternatives \cap 1..N /\ Place(i, n) \in 1..(r - 1)
    BY <1>1, <1>4, <2>2, OptimizationAssumption
  <2>4. Ranked(i)[Place(i, n)] = n
    BY <1>1, <1>3, <2>1, <2>3
  <2> QED BY <2>3, <2>4
<1> QED BY <1>5, <1>6

AdviceOps == {"approved", "rejected", "executed", "rolled_back"}

AdviceTyped ==
    /\ advice \in [Advice -> [status : {"NONE", "PROPOSED", "APPROVED", "REJECTED", "EXECUTED",
                                        "ROLLED_BACK"}, approved : BOOLEAN]]
    /\ trail \in [Advice -> Seq(AdviceOps)]
    /\ DOMAIN approver = Approvers /\ DOMAIN runs = Inputs

\* An input is run once at most, with the ranking of its lanes.
RunsRanked == \A i \in Inputs : runs[i] = <<>> \/ runs[i] = <<Ranked(i)>>

\* Before its run nothing is known of a recommendation.
NothingBeforeRun ==
    \A x \in Advice : runs[x[1]] = <<>> =>
        /\ advice[x].status = "NONE" /\ trail[x] = <<>>
        /\ \A c \in Approvers : approver[c].on = x => approver[c].op \notin AdviceOps

\* A status was written together with its entry in the trail.
StatusOnTrail ==
    \A x \in Advice :
        /\ trail[x] # <<>> => advice[x].status \notin {"NONE", "PROPOSED"}
        /\ advice[x].status = "APPROVED" => Happened(x, "approved")
        /\ advice[x].status \in {"EXECUTED", "ROLLED_BACK"} => Happened(x, "executed")
        /\ ~advice[x].approved =>
              advice[x].status \in {"NONE", "PROPOSED"} \/ Happened(x, "rejected")

\* What a caller has read to go on has happened.
ReadersOnTrail ==
    \A c \in Approvers : \A x \in Advice : approver[c].on = x =>
        /\ approver[c].op = "executed" => Happened(x, "approved")
        /\ approver[c].op = "rolled_back" => Happened(x, "executed")

\* The inductive invariant of recommendations.
AdviceInv ==
    /\ AdviceTyped /\ RunsRanked /\ NothingBeforeRun /\ StatusOnTrail /\ ReadersOnTrail
    /\ TrailConnected

\* An entry appended to a trail happened, and what had happened still has.
LEMMA AppendedHappened ==
    ASSUME NEW s \in Seq(AdviceOps), NEW op \in AdviceOps
    PROVE  /\ Append(s, op) \in Seq(AdviceOps) /\ Append(s, op) # <<>>
           /\ Range(Append(s, op)) = Range(s) \cup {op}
           /\ \A k \in DOMAIN Append(s, op) :
                \/ k \in DOMAIN s /\ Append(s, op)[k] = s[k]
                \/ k - 1 = Len(s) /\ Append(s, op)[k] = op
           /\ \A k \in DOMAIN s : k \in DOMAIN Append(s, op) /\ Append(s, op)[k] = s[k]
           /\ DOMAIN s = 1..Len(s) /\ Len(s) \in Nat
<1>1. /\ Append(s, op) \in Seq(AdviceOps) /\ Len(Append(s, op)) = Len(s) + 1 /\ Len(s) \in Nat
      /\ DOMAIN s = 1..Len(s) /\ DOMAIN Append(s, op) = 1..(Len(s) + 1)
      /\ \A k \in 1..Len(s) : Append(s, op)[k] = s[k]
      /\ Append(s, op)[Len(s) + 1] = op
  OBVIOUS
<1>2. Append(s, op) # <<>>
  BY <1>1
<1>3. Range(Append(s, op)) = Range(s) \cup {op}
  <2>1. \A k \in 1..(Len(s) + 1) : k \in 1..Len(s) \/ k = Len(s) + 1
    BY <1>1
  <2>2. \A k \in 1..Len(s) : k \in 1..(Len(s) + 1)
    BY <1>1
  <2>3. Len(s) + 1 \in 1..(Len(s) + 1)
    BY <1>1
  <2> QED BY <1>1, <2>1, <2>2, <2>3 DEF Range
<1> QED BY <1>1, <1>2, <1>3

\* A step that leaves runs, advice and trails alone and starts nothing but what it
\* has read to have happened keeps the invariant.
LEMMA ReadersKeepAdvice ==
    ASSUME AdviceInv, UNCHANGED <<runs, advice, trail>>, outcomes' = outcomes,
           DOMAIN approver' = Approvers,
           \A c \in Approvers :
              \/ approver'[c] = approver[c]
              \/ approver'[c].op \notin AdviceOps
              \/ /\ approver'[c].on \in Advice
                 /\ advice[approver'[c].on].status # "NONE"
                 /\ approver'[c].op = "executed" => advice[approver'[c].on].status = "APPROVED"
                 /\ approver'[c].op = "rolled_back" => advice[approver'[c].on].status = "EXECUTED"
    PROVE  AdviceInv'
<1> USE DEF AdviceInv
<1>1. \A x, op : Happened(x, op)' = Happened(x, op)
  BY DEF Happened
<1>2. AdviceTyped' /\ RunsRanked'
  BY DEF AdviceTyped, RunsRanked, Ranked, Place, FeasibleLanes, Precedes
<1>3. NothingBeforeRun'
  BY DEF NothingBeforeRun
<1>4. StatusOnTrail' /\ TrailConnected'
  BY <1>1 DEF StatusOnTrail, TrailConnected
<1>5. ReadersOnTrail'
  BY <1>1 DEF ReadersOnTrail, StatusOnTrail, AdviceOps
<1> QED BY <1>2, <1>3, <1>4, <1>5

\* A decision, an execution or a rollback keeps the invariant.
LEMMA WritesKeepAdvice ==
    ASSUME AdviceInv, NEW c \in Approvers, NEW x \in Advice, NEW op \in AdviceOps,
           NEW s, NEW a \in BOOLEAN, AdviceWritten(c, op, x, s, a),
           \/ op = "approved" /\ s = "APPROVED" /\ a
           \/ op = "rejected" /\ s = "REJECTED" /\ ~a
           \/ op = "executed" /\ s = "EXECUTED" /\ a = advice[x].approved
           \/ op = "rolled_back" /\ s = "ROLLED_BACK" /\ a = advice[x].approved
    PROVE  AdviceInv'
<1> USE DEF AdviceInv
<1>1. /\ approver[c] = [op |-> op, on |-> x]
      /\ approver' = [approver EXCEPT ![c] = ApproverIdle]
      /\ advice' = [advice EXCEPT ![x] = [status |-> s, approved |-> a]]
      /\ trail' = [trail EXCEPT ![x] = Append(trail[x], op)]
      /\ UNCHANGED <<runs, outcomes>>
  BY DEF AdviceWritten, ApproverWrites
<1>2. trail[x] \in Seq(AdviceOps)
  BY DEF AdviceTyped
<1>3. /\ trail'[x] \in Seq(AdviceOps) /\ trail'[x] # <<>>
      /\ Range(trail'[x]) = Range(trail[x]) \cup {op}
      /\ \A y \in Advice : y # x => trail'[y] = trail[y] /\ advice'[y] = advice[y]
      /\ advice'[x] = [status |-> s, approved |-> a]
      /\ \A d \in Approvers : d # c => approver'[d] = approver[d]
      /\ approver'[c] = ApproverIdle
  <2>1. trail'[x] = Append(trail[x], op)
    BY <1>1 DEF AdviceTyped
  <2>2. /\ \A y \in Advice : y # x => trail'[y] = trail[y] /\ advice'[y] = advice[y]
        /\ advice'[x] = [status |-> s, approved |-> a]
        /\ \A d \in Approvers : d # c => approver'[d] = approver[d]
        /\ approver'[c] = ApproverIdle
    BY <1>1 DEF AdviceTyped
  <2> QED BY <1>2, <2>1, <2>2, AppendedHappened
<1>4. /\ \A y \in Advice : \A o : Happened(y, o) => Happened(y, o)'
      /\ \A y \in Advice : \A o : y # x => (Happened(y, o)' <=> Happened(y, o))
      /\ Happened(x, op)'
  BY <1>3 DEF Happened
<1>5. AdviceTyped' /\ RunsRanked'
  <2>1. trail' \in [Advice -> Seq(AdviceOps)]
    BY <1>1, <1>3 DEF AdviceTyped
  <2> QED BY <1>1, <2>1 DEF AdviceTyped, RunsRanked, Ranked, Place, FeasibleLanes, Precedes
<1>6. runs[x[1]] # <<>>
  BY <1>1 DEF NothingBeforeRun
<1>7. NothingBeforeRun'
  BY <1>1, <1>3, <1>6 DEF NothingBeforeRun, ApproverIdle, AdviceOps
<1>8. ReadersOnTrail'
  BY <1>3, <1>4 DEF ReadersOnTrail, ApproverIdle
<1>9. StatusOnTrail'
  <2>1. op \in {"executed", "rolled_back"} =>
          advice[x].status \notin {"NONE", "PROPOSED"} /\ (a \/ Happened(x, "rejected"))
    <3>1. op = "executed" => Happened(x, "approved")
      BY <1>1 DEF ReadersOnTrail
    <3>2. op = "rolled_back" => Happened(x, "executed")
      BY <1>1 DEF ReadersOnTrail
    <3>3. \A o : Happened(x, o) => trail[x] # <<>>
      BY <1>2 DEF Happened, Range
    <3> QED BY <3>1, <3>2, <3>3 DEF StatusOnTrail
  <2>2. op = "rolled_back" => Happened(x, "executed")
    BY <1>1 DEF ReadersOnTrail
  <2> SUFFICES ASSUME NEW y \in Advice
               PROVE  /\ trail'[y] # <<>> => advice'[y].status \notin {"NONE", "PROPOSED"}
                      /\ advice'[y].status = "APPROVED" => Happened(y, "approved")'
                      /\ advice'[y].status \in {"EXECUTED", "ROLLED_BACK"} => Happened(y, "executed")'
                      /\ ~advice'[y].approved =>
                            \/ advice'[y].status \in {"NONE", "PROPOSED"}
                            \/ Happened(y, "rejected")'
    BY DEF StatusOnTrail
  <2>3. CASE y = x
    <3>1. advice'[x].status = s /\ advice'[x].approved = a
      BY <1>3
    <3> QED BY <1>4, <2>1, <2>2, <2>3, <3>1
  <2>4. CASE y # x
    BY <1>3, <1>4, <2>4 DEF StatusOnTrail
  <2> QED BY <2>3, <2>4
<1>10. TrailConnected'
  <2>1. op = "executed" => \E j \in DOMAIN trail[x] : trail[x][j] = "approved"
    BY <1>1 DEF ReadersOnTrail, Happened, Range
  <2>2. op = "rolled_back" => \E j \in DOMAIN trail[x] : trail[x][j] = "executed"
    BY <1>1 DEF ReadersOnTrail, Happened, Range
  <2>3. /\ DOMAIN trail[x] = 1..Len(trail[x]) /\ Len(trail[x]) \in Nat
        /\ \A k \in DOMAIN trail'[x] :
              \/ k \in DOMAIN trail[x] /\ trail'[x][k] = trail[x][k]
              \/ k - 1 = Len(trail[x]) /\ trail'[x][k] = op
        /\ \A k \in DOMAIN trail[x] : k \in DOMAIN trail'[x] /\ trail'[x][k] = trail[x][k]
    <3>1. trail'[x] = Append(trail[x], op)
      BY <1>1 DEF AdviceTyped
    <3> QED BY <1>2, <3>1, AppendedHappened
  <2>4. ASSUME NEW k \in DOMAIN trail'[x]
        PROVE  /\ trail'[x][k] = "executed" => \E j \in 1..(k - 1) : trail'[x][j] = "approved"
               /\ trail'[x][k] = "rolled_back" => \E j \in 1..(k - 1) : trail'[x][j] = "executed"
    <3>1. CASE k \in DOMAIN trail[x] /\ trail'[x][k] = trail[x][k]
      <4>1. /\ trail[x][k] = "executed" => \E j \in 1..(k - 1) : trail[x][j] = "approved"
            /\ trail[x][k] = "rolled_back" => \E j \in 1..(k - 1) : trail[x][j] = "executed"
        BY <3>1 DEF TrailConnected
      <4>2. \A j \in 1..(k - 1) : j \in DOMAIN trail[x]
        BY <2>3, <3>1
      <4> QED BY <2>3, <3>1, <4>1, <4>2
    <3>2. CASE k - 1 = Len(trail[x]) /\ trail'[x][k] = op
      BY <2>1, <2>2, <2>3, <3>2
    <3> QED BY <2>3, <2>4, <3>1, <3>2
  <2> SUFFICES ASSUME NEW y \in Advice
               PROVE  /\ \A k \in DOMAIN trail'[y] :
                           /\ trail'[y][k] = "executed" =>
                                \E j \in 1..(k - 1) : trail'[y][j] = "approved"
                           /\ trail'[y][k] = "rolled_back" =>
                                \E j \in 1..(k - 1) : trail'[y][j] = "executed"
                      /\ y \in outcomes' => Happened(y, "executed")'
    BY DEF TrailConnected
  <2>5. y \in outcomes' => Happened(y, "executed")'
    BY <1>1, <1>4 DEF TrailConnected
  <2>6. CASE y = x
    BY <2>4, <2>5, <2>6
  <2>7. CASE y # x
    BY <1>3, <2>5, <2>7 DEF TrailConnected
  <2> QED BY <2>6, <2>7
<1> QED BY <1>5, <1>7, <1>8, <1>9, <1>10

\* A run keeps the invariant.
LEMMA RunKeepsAdvice ==
    ASSUME AdviceInv, NEW c \in Approvers, NEW i \in Inputs, Run(c, i)
    PROVE  AdviceInv'
<1> USE DEF AdviceInv
<1>1. /\ approver' = [approver EXCEPT ![c] = ApproverIdle] /\ UNCHANGED <<outcomes, trail>>
  BY DEF Run, ApproverWrites
<1>2. \A d \in Approvers : approver'[d] = approver[d] \/ approver'[d].op = "idle"
  BY <1>1 DEF AdviceTyped, ApproverIdle
<1>3. DOMAIN approver' = Approvers
  BY <1>1 DEF AdviceTyped
<1>4. CASE ~HashFree(i)
  <2>1. UNCHANGED <<runs, advice>>
    BY <1>4 DEF Run
  <2> QED BY <1>1, <1>2, <1>3, <2>1, ReadersKeepAdvice DEF AdviceOps
<1>5. CASE HashFree(i)
  <2>1. /\ runs[i] = <<>> /\ runs' = [runs EXCEPT ![i] = Append(runs[i], Ranked(i))]
        /\ advice' = [x \in Advice |-> IF x[1] = i /\ x[2] \in DOMAIN Ranked(i)
                        THEN [status |-> "PROPOSED", approved |-> FALSE] ELSE advice[x]]
    BY <1>5 DEF Run, HashFree
  <2>2. /\ runs'[i] = <<Ranked(i)>> /\ DOMAIN runs' = Inputs
        /\ \A j \in Inputs : j # i => runs'[j] = runs[j]
    <3>1. Append(runs[i], Ranked(i)) = <<Ranked(i)>>
      BY <2>1
    <3> QED BY <2>1, <3>1 DEF AdviceTyped
  <2>3. /\ \A x \in Advice :
              \/ advice'[x] = advice[x]
              \/ x[1] = i /\ advice'[x] = [status |-> "PROPOSED", approved |-> FALSE]
        /\ advice' \in [Advice -> [status : {"NONE", "PROPOSED", "APPROVED", "REJECTED", "EXECUTED",
                                             "ROLLED_BACK"}, approved : BOOLEAN]]
    BY <2>1 DEF AdviceTyped
  <2>4. AdviceTyped'
    BY <1>1, <1>3, <2>2, <2>3 DEF AdviceTyped
  <2>5. RunsRanked'
    <3>1. \A j : Ranked(j)' = Ranked(j)
      BY DEF Ranked, Place, FeasibleLanes, Precedes
    <3> QED BY <2>2, <3>1 DEF RunsRanked
  <2>6. <<Ranked(i)>> # <<>>
    OBVIOUS
  <2>7. \A x \in Advice : x[1] \in Inputs
    BY DEF Advice
  <2>8. NothingBeforeRun'
    BY <1>1, <1>2, <2>2, <2>3, <2>6, <2>7 DEF NothingBeforeRun, AdviceOps
  <2>9. \A x \in Advice : x[1] = i => trail[x] = <<>>
    BY <2>1 DEF NothingBeforeRun
  <2>10. \A x, op : Happened(x, op)' = Happened(x, op)
    BY <1>1 DEF Happened
  <2>11. StatusOnTrail'
    <3> SUFFICES ASSUME NEW x \in Advice
                 PROVE  /\ trail[x] # <<>> => advice'[x].status \notin {"NONE", "PROPOSED"}
                        /\ advice'[x].status = "APPROVED" => Happened(x, "approved")
                        /\ advice'[x].status \in {"EXECUTED", "ROLLED_BACK"} => Happened(x, "executed")
                        /\ ~advice'[x].approved =>
                              \/ advice'[x].status \in {"NONE", "PROPOSED"}
                              \/ Happened(x, "rejected")
      BY <1>1, <2>10 DEF StatusOnTrail
    <3>1. CASE advice'[x] = advice[x]
      BY <3>1 DEF StatusOnTrail
    <3>2. CASE x[1] = i /\ advice'[x] = [status |-> "PROPOSED", approved |-> FALSE]
      BY <2>9, <3>2
    <3> QED BY <2>3, <3>1, <3>2
  <2>12. ReadersOnTrail'
    BY <1>1, <1>2, <2>10 DEF ReadersOnTrail
  <2>13. TrailConnected'
    BY <1>1, <2>10 DEF TrailConnected
  <2> QED BY <2>4, <2>5, <2>8, <2>11, <2>12, <2>13
<1> QED BY <1>4, <1>5

\* The invariant of recommendations holds in every state.
LEMMA AdviceHolds == OptimizationSpec => []AdviceInv
<1>1. OptimizationInit => AdviceInv
  <2> SUFFICES ASSUME OptimizationInit PROVE AdviceInv
    OBVIOUS
  <2> USE DEF OptimizationInit
  <2>1. AdviceTyped
    BY DEF AdviceTyped
  <2>2. RunsRanked /\ NothingBeforeRun /\ ReadersOnTrail
    BY DEF RunsRanked, NothingBeforeRun, ReadersOnTrail, ApproverIdle, AdviceOps
  <2>3. StatusOnTrail /\ TrailConnected
    BY DEF StatusOnTrail, TrailConnected
  <2> QED BY <2>1, <2>2, <2>3 DEF AdviceInv
<1>2. AdviceInv /\ [OptimizationNext]_optimizationVars => AdviceInv'
  <2> SUFFICES ASSUME AdviceInv, [OptimizationNext]_optimizationVars PROVE AdviceInv'
    OBVIOUS
  <2>0. DOMAIN approver = Approvers
    BY DEF AdviceInv, AdviceTyped
  <2>1. ASSUME NEW c \in Approvers, NEW i \in Inputs, RunRead(c, i) PROVE AdviceInv'
    <3>1. /\ approver' = [approver EXCEPT ![c] = [op |-> "run", on |-> i]]
          /\ UNCHANGED <<runs, advice, outcomes, trail>>
      BY <2>1 DEF RunRead, ApproverReads
    <3>2. /\ DOMAIN approver' = Approvers
          /\ \A d \in Approvers : approver'[d] = approver[d] \/ approver'[d].op \notin AdviceOps
      BY <2>0, <3>1 DEF AdviceOps
    <3> QED BY <3>1, <3>2, ReadersKeepAdvice
  <2>2. ASSUME NEW c \in Approvers, NEW x \in Advice, NEW op \in AdviceOps, AdviceRead(c, op, x)
        PROVE  AdviceInv'
    <3>1. /\ approver' = [approver EXCEPT ![c] = [op |-> op, on |-> x]]
          /\ UNCHANGED <<runs, advice, outcomes, trail>>
      BY <2>2 DEF AdviceRead, ApproverReads
    <3>2. /\ advice[x].status # "NONE"
          /\ op = "executed" => advice[x].status = "APPROVED"
          /\ op = "rolled_back" => advice[x].status = "EXECUTED"
      BY <2>2 DEF AdviceRead, AdviceOps, Executable, Revertible
    <3>3. /\ DOMAIN approver' = Approvers
          /\ \A d \in Approvers :
                \/ approver'[d] = approver[d]
                \/ approver'[d].op = op /\ approver'[d].on = x
      BY <2>0, <3>1
    <3> QED BY <3>1, <3>2, <3>3, ReadersKeepAdvice
  <2>3. ASSUME NEW c \in Approvers, NEW x \in Advice, NEW approve \in BOOLEAN,
               Decide(c, x, approve)
        PROVE  AdviceInv'
    BY <2>3, WritesKeepAdvice DEF Decide, AdviceOps
  <2>4. ASSUME NEW c \in Approvers, NEW x \in Advice, Execute(c, x) \/ Rollback(c, x)
        PROVE  AdviceInv'
    <3>1. advice[x].approved \in BOOLEAN
      BY DEF AdviceInv, AdviceTyped
    <3> QED BY <2>4, <3>1, WritesKeepAdvice DEF Execute, Rollback, AdviceOps
  <2>5. ASSUME NEW x \in Advice, Outcome(x) PROVE AdviceInv'
    <3>1. Happened(x, "executed") /\ outcomes' = outcomes \cup {x}
          /\ UNCHANGED <<runs, advice, trail, approver>>
      BY <2>5 DEF Outcome, AdviceInv, StatusOnTrail
    <3>2. \A y, op : Happened(y, op)' = Happened(y, op)
      BY <3>1 DEF Happened
    <3>3. AdviceTyped' /\ RunsRanked' /\ NothingBeforeRun'
      BY <3>1 DEF AdviceInv, AdviceTyped, RunsRanked, Ranked, Place, FeasibleLanes, Precedes,
                  NothingBeforeRun
    <3>4. StatusOnTrail' /\ ReadersOnTrail' /\ TrailConnected'
      BY <3>1, <3>2 DEF AdviceInv, StatusOnTrail, ReadersOnTrail, TrailConnected
    <3> QED BY <3>3, <3>4 DEF AdviceInv
  <2>6. CASE UNCHANGED optimizationVars
    BY <2>0, <2>6, ReadersKeepAdvice DEF optimizationVars
  <2> QED
    BY <2>1, <2>2, <2>3, <2>4, <2>5, <2>6, RunKeepsAdvice DEF OptimizationNext, AdviceOps
<1> QED BY <1>1, <1>2, PTL DEF OptimizationSpec

\* What is advised is the best there is, nothing is executed that was never approved
\* or rolled back that was never executed, and a rollout without an approver had a
\* rejection overlap its approval (recommend, decide, execute, rollback, outcome).
THEOREM AdviceIsSound == OptimizationSpec => []AdviceSound
<1>1. AdviceInv => AdviceSound
  <2> SUFFICES ASSUME AdviceInv PROVE AdviceSound
    OBVIOUS
  <2>1. KeepsTheBest
    <3> SUFFICES ASSUME NEW i \in Inputs, NEW k \in 1..Len(runs[i]),
                        NEW r \in DOMAIN runs[i][k], NEW n \in Lanes
                 PROVE  /\ LaneCapacity[runs[i][k][r]] >= MinimumCapacity
                        /\ LaneCapacity[n] >= MinimumCapacity
                             /\ Score[i][n] < Score[i][runs[i][k][r]]
                           => \E better \in 1..(r - 1) : runs[i][k][better] = n
      BY DEF KeepsTheBest
    <3>1. runs[i][k] = Ranked(i)
      <4>1. runs[i] = <<Ranked(i)>>
        BY DEF AdviceInv, RunsRanked
      <4>2. k = 1
        BY <4>1
      <4> QED BY <4>1, <4>2
    <3> QED BY <3>1, RankedKeepsTheBest
  <2>2. UnsignedOnlyInARace
    BY DEF AdviceInv, StatusOnTrail, UnsignedOnlyInARace
  <2> QED BY <2>1, <2>2 DEF AdviceInv, AdviceSound
<1> QED BY <1>1, AdviceHolds, PTL
-----------------------------------------------------------------------------
(***************************************************************************)
(* Together.  A behaviour of the composition is one of every component:    *)
(* the component in focus takes its step and the others stand still.       *)
(***************************************************************************)
allVars == <<focus, freightVars, receivingVars, fulfillmentVars, returnsVars,
             ledgerVars, procurementVars, clientStockVars, checkoutVars,
             catalogVars, optimizationVars, marketplaceVars, storefrontVars,
             numberingVars>>

\* A step of the composition is a step of each component or leaves it alone.
LEMMA StepsOfComponents ==
    ASSUME [Next]_allVars
    PROVE  /\ [FreightNext]_freightVars /\ [ReceivingNext]_receivingVars
           /\ [FulfillmentNext]_fulfillmentVars /\ [ReturnsNext]_returnsVars
           /\ [LedgerNext]_ledgerVars /\ [ProcurementNext]_procurementVars
           /\ [ClientStockNext]_clientStockVars /\ [CheckoutNext]_checkoutVars
           /\ [CatalogNext]_catalogVars /\ [OptimizationNext]_optimizationVars
           /\ [MarketplaceNext]_marketplaceVars /\ [StorefrontNext]_storefrontVars
           /\ [NumberingNext]_numberingVars
<1>1. CASE Next
  <2>1. /\ focus # "freight" => UNCHANGED freightVars
        /\ focus # "receiving" => UNCHANGED receivingVars
        /\ focus # "fulfillment" => UNCHANGED fulfillmentVars
        /\ focus # "returns" => UNCHANGED returnsVars
        /\ focus # "ledger" => UNCHANGED ledgerVars
        /\ focus # "procurement" => UNCHANGED procurementVars
        /\ focus # "clients" => UNCHANGED clientStockVars
        /\ focus # "checkout" => UNCHANGED checkoutVars
        /\ focus # "catalog" => UNCHANGED catalogVars
        /\ focus # "optimization" => UNCHANGED optimizationVars
        /\ focus # "marketplace" => UNCHANGED marketplaceVars
        /\ focus # "storefront" => UNCHANGED storefrontVars
        /\ focus # "numbering" => UNCHANGED numberingVars
    BY <1>1 DEF Next, Still
  <2>2. /\ focus = "freight" => FreightNext
        /\ focus = "receiving" => ReceivingNext
        /\ focus = "fulfillment" => FulfillmentNext
        /\ focus = "returns" => ReturnsNext
        /\ focus = "ledger" => LedgerNext
        /\ focus = "procurement" => ProcurementNext
        /\ focus = "clients" => ClientStockNext
        /\ focus = "checkout" => CheckoutNext
        /\ focus = "catalog" => CatalogNext
        /\ focus = "optimization" => OptimizationNext
        /\ focus = "marketplace" => MarketplaceNext
        /\ focus = "storefront" => StorefrontNext
        /\ focus = "numbering" => NumberingNext
    BY <1>1 DEF Next
  <2> QED BY <2>1, <2>2
<1>2. CASE UNCHANGED allVars
  BY <1>2 DEF allVars
<1> QED BY <1>1, <1>2

\* A behaviour of the composition is a behaviour of each component.
LEMMA SpecOfComponents ==
    Spec => /\ FreightSpec /\ ReceivingSpec /\ FulfillmentSpec /\ ReturnsSpec /\ LedgerSpec
            /\ ProcurementSpec /\ ClientStockSpec /\ CheckoutSpec /\ CatalogSpec
            /\ OptimizationSpec /\ MarketplaceSpec /\ StorefrontSpec /\ NumberingSpec
<1>1. Init => /\ FreightInit /\ ReceivingInit /\ FulfillmentInit /\ ReturnsInit /\ LedgerInit
              /\ ProcurementInit /\ ClientStockInit /\ CheckoutInit /\ CatalogInit
              /\ OptimizationInit /\ MarketplaceInit /\ StorefrontInit /\ NumberingInit
  BY DEF Init
<1> QED
  BY <1>1, StepsOfComponents, PTL
     DEF Spec, allVars, FreightSpec, ReceivingSpec, FulfillmentSpec, ReturnsSpec, LedgerSpec,
         ProcurementSpec, ClientStockSpec, CheckoutSpec, CatalogSpec, OptimizationSpec,
         MarketplaceSpec, StorefrontSpec, NumberingSpec

\* One acceptance of a quote binds, and what is booked, ordered or invoiced is what
\* was accepted and delivered (acceptQuote of freight and of procurement, fulfill).
THEOREM AcceptancesBind == Spec => []AcceptanceBinds
<1>1. QuotesInv => AcceptedIsBooked
  BY DEF QuotesInv
<1>2. PurchaseInv => OneOrderPerQuote /\ InvoiceCoversDelivery
  BY DEF PurchaseInv
<1> QED
  BY <1>1, <1>2, SpecOfComponents, QuotesSound, PurchasesSound, PTL DEF AcceptanceBinds

\* Numbers drawn before or inside a transaction run on without a gap or a repetition
\* (createQuote, nextInvoiceNumber, nextNumber).
THEOREM NumbersRun == Spec => []NumbersRunOn
<1>1. QuotesInv => RevisionsCount
  BY DEF QuotesInv
<1> QED BY <1>1, SpecOfComponents, QuotesSound, NumbersWithoutGaps, PTL DEF NumbersRunOn

\* What is returned, restocked and refunded agrees with order, stock and ledger, and an
\* entry is paid out by one settlement (approveReturn, inspectReturn,
\* calculateSettlement).
THEOREM BooksStayInAgreement == Spec => []BooksAgree
BY SpecOfComponents, ReturnsAgreed, EntriesSettledOnce, PTL DEF BooksAgree

\* What reaches buyers is permitted, announced as often as it was asked for, in as few
\* carts as requests allow and at a sound discount (submit, moderate, publishOffer,
\* createCart, promotionDiscount).
THEOREM OffersAreSound == Spec => []OffersSound
BY SpecOfComponents, ProhibitedStaysOut, AnnouncedOnce, CartsRaceOnly, DiscountsSound, PTL
   DEF OffersSound

\* Credit, a shelf, an order and the events of a bill are exceeded only when another
\* request came in between (acceptQuote, assignInventory, fulfill, issueInvoice).
THEOREM LimitsRaceOnly == Spec => LimitsExceededOnlyInARace
BY SpecOfComponents, CreditRacesOnly, OverpromisesRaceOnly, OverdeliveriesExplained,
   BilledIsNotFound, PTL
   DEF LimitsExceededOnlyInARace

\* What was submitted, quoted, rejected, sold or over stays so, unless a request that
\* had read it before overtakes the decision (updateRequest, checkout, approve, reject,
\* submit, moderate).
THEOREM DecisionsStand == Spec => DecidedUnlessOvertaken
BY SpecOfComponents, SubmittedStaysFrozen, OrdersAsQuoted, RejectionsStand, SalesStand,
   LateUseIsQuoted, PTL
   DEF DecidedUnlessOvertaken
=============================================================================
