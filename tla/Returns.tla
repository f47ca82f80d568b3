------------------------------- MODULE Returns -------------------------------
(***************************************************************************)
(* Return authorizations of one order line, from the customer's request to *)
(* the inspection that restocks and refunds (ReturnsFinanceRepository).    *)
(*                                                                         *)
(* receive and inspect claim the row by status and version; approve writes *)
(* by id what it read before.                                              *)
(***************************************************************************)
EXTENDS Naturals, FiniteSets, Rows

CONSTANTS
    ReturnRequests,   \* POST /returns requests
    ReturnKey,        \* [ReturnRequests -> key]: Idempotency-Key header
    ReturnQuantity,   \* [ReturnRequests -> Nat \ {0}]
    Ordered,          \* quantity of the order line
    ReturnClerks      \* concurrent HTTP requests

ASSUME ReturnsAssumption ==
    /\ ReturnQuantity \in [ReturnRequests -> Nat \ {0}]
    /\ Ordered \in Nat
    /\ None \notin ReturnRequests

VARIABLES
    orderVersion,   \* Order.version
    authorization,  \* ReturnAuthorization.status of each request, "NONE" before
    rmaVersion,     \* ReturnAuthorization.version
    refundOfLine,   \* ReturnLine.refundMinor (0 or the amount 1 or 2)
    restocked,      \* units added to ON_HAND for each return
    restockEntries, \* returns with a stock ledger entry return:<id>:restock:<line>
    refundEntry,    \* amount of the journal entry return:<id>:refund, 0 without one
    returnClerk     \* what a caller has read and goes on to write

returnsVars == <<orderVersion, authorization, rmaVersion, refundOfLine, restocked,
                 restockEntries, refundEntry, returnClerk>>

ClerkIdle == [op |-> "idle", on |-> None, version |-> 0]

ReturnsInit ==
    /\ orderVersion = 0
    /\ authorization = [r \in ReturnRequests |-> "NONE"]
    /\ rmaVersion = [r \in ReturnRequests |-> 0]
    /\ refundOfLine = [r \in ReturnRequests |-> 0]
    /\ restocked = [r \in ReturnRequests |-> 0]
    /\ restockEntries = {}
    /\ refundEntry = [r \in ReturnRequests |-> 0]
    /\ returnClerk = [c \in ReturnClerks |-> ClerkIdle]

Created == {r \in ReturnRequests : authorization[r] # "NONE"}

ReturnRead(c, op, r, version) ==
    /\ returnClerk[c] = ClerkIdle
    /\ returnClerk' = [returnClerk EXCEPT ![c] = [op |-> op, on |-> r, version |-> version]]
    /\ UNCHANGED <<orderVersion, authorization, rmaVersion, refundOfLine, restocked,
                   restockEntries, refundEntry>>

ReturnWrite(c, op, r) ==
    /\ returnClerk[c].op = op /\ returnClerk[c].on = r
    /\ returnClerk' = [returnClerk EXCEPT ![c] = ClerkIdle]

-----------------------------------------------------------------------------
\* A replay answers with the return stored under the key.
CreateReturnRead(c, r) ==
    /\ \A q \in Created : ReturnKey[q] # ReturnKey[r]
    /\ ReturnQuantity[r] <= Ordered
    /\ ReturnRead(c, "create", r, orderVersion)

\* The units on some returns, each by its number.
UnitsOn(returns) == UNION {{q} \X (1..ReturnQuantity[q]) : q \in returns}

\* Units already on a return, whatever became of it, count.
Unreturned(r) == Cardinality(UnitsOn(Created)) + ReturnQuantity[r] <= Ordered

\* Claims the order version, sums the earlier return lines, inserts under a
\* unique key; the transaction aborts as a whole.
CreateReturn(c, r) ==
    /\ ReturnWrite(c, "create", r)
    /\ IF /\ orderVersion = returnClerk[c].version
          /\ Unreturned(r)
          /\ \A q \in Created : ReturnKey[q] # ReturnKey[r]
         THEN /\ orderVersion' = orderVersion + 1
              /\ authorization' = [authorization EXCEPT ![r] = "REQUESTED"]
         ELSE UNCHANGED <<orderVersion, authorization>>
    /\ UNCHANGED <<rmaVersion, refundOfLine, restocked, restockEntries, refundEntry>>

ApproveReturnRead(c, r) ==
    authorization[r] = "REQUESTED" /\ ReturnRead(c, "approve", r, rmaVersion[r])

\* By id: a return that has moved on is LABEL_ISSUED again.
ApproveReturn(c, r) ==
    /\ ReturnWrite(c, "approve", r)
    /\ authorization' = [authorization EXCEPT ![r] = "LABEL_ISSUED"]
    /\ rmaVersion' = [rmaVersion EXCEPT ![r] = @ + 1]
    /\ UNCHANGED <<orderVersion, refundOfLine, restocked, restockEntries, refundEntry>>

ReceiveReturnRead(c, r) ==
    authorization[r] = "LABEL_ISSUED" /\ ReturnRead(c, "receive", r, rmaVersion[r])

\* Mutant: the row is written whatever became of it.
ReturnUnclaimed(c, r, status) == TRUE

ReturnClaimed(c, r, status) ==
    authorization[r] = status /\ rmaVersion[r] = returnClerk[c].version

ReceiveReturn(c, r) ==
    /\ ReturnWrite(c, "receive", r)
    /\ IF ReturnClaimed(c, r, "LABEL_ISSUED")
         THEN /\ authorization' = [authorization EXCEPT ![r] = "RECEIVED"]
              /\ rmaVersion' = [rmaVersion EXCEPT ![r] = @ + 1]
         ELSE UNCHANGED <<authorization, rmaVersion>>
    /\ UNCHANGED <<orderVersion, refundOfLine, restocked, restockEntries, refundEntry>>

InspectReturnRead(c, r) ==
    authorization[r] = "RECEIVED" /\ ReturnRead(c, "inspect", r, rmaVersion[r])

\* postJournalInTransaction answers with the entry its key already has.
PostRefund(r, refund) == [refundEntry EXCEPT ![r] = IF @ = 0 THEN refund ELSE @]

RestockKeyFree(r) == r \notin restockEntries

\* The inspector decides disposition and refund of the line; the second
\* restock of a line breaks the ledger's unique key and aborts all of it.
InspectReturn(c, r, restock, refund) ==
    /\ ReturnWrite(c, "inspect", r)
    /\ IF ReturnClaimed(c, r, "RECEIVED") /\ (restock => RestockKeyFree(r))
         THEN /\ authorization' = [authorization EXCEPT ![r] = "RESOLVED"]
              /\ rmaVersion' = [rmaVersion EXCEPT ![r] = @ + 2]
              /\ refundOfLine' = [refundOfLine EXCEPT ![r] = refund]
              /\ refundEntry' = PostRefund(r, refund)
              /\ restocked' = [restocked EXCEPT ![r] =
                                 @ + (IF restock THEN ReturnQuantity[r] ELSE 0)]
              /\ restockEntries' = restockEntries \cup (IF restock THEN {r} ELSE {})
         ELSE UNCHANGED <<authorization, rmaVersion, refundOfLine, refundEntry, restocked,
                          restockEntries>>
    /\ UNCHANGED orderVersion

\* A refund of a line is 0, or one of two amounts.
Refunds == 0..2

ReturnsNext ==
    \E c \in ReturnClerks, r \in ReturnRequests :
       \/ CreateReturnRead(c, r)  \/ CreateReturn(c, r)
       \/ ApproveReturnRead(c, r) \/ ApproveReturn(c, r)
       \/ ReceiveReturnRead(c, r) \/ ReceiveReturn(c, r)
       \/ InspectReturnRead(c, r)
       \/ \E restock \in BOOLEAN, refund \in Refunds : InspectReturn(c, r, restock, refund)

ReturnsSpec == ReturnsInit /\ [][ReturnsNext]_returnsVars

-----------------------------------------------------------------------------
(***************************************************************************)
(* Properties.                                                             *)
(***************************************************************************)

\* However requests race, replay or split the line, never more units are on
\* returns than were ordered (createReturn).
ReturnedWithinOrder == Cardinality(UnitsOn(Created)) <= Ordered

\* A return that a late approval reopened and that is received and inspected
\* again puts its units back into stock at most once (inspectReturn).
RestockedAtMostOnce ==
    \A r \in ReturnRequests : restocked[r] <= ReturnQuantity[r]

\* ... and pays no more than the dearest single inspection (inspectReturn,
\* postJournalInTransaction).
RefundedAtMostOnce == \A r \in ReturnRequests : refundEntry[r] \in Refunds

\* The refund on the line is the one in the ledger, unless a late approval sent
\* the return through receipt and inspection again: four writes of the first
\* pass and four more (inspectReturn claims the version it read).
LedgerAgreesUnlessReopened ==
    \A r \in ReturnRequests :
       refundOfLine[r] # refundEntry[r] => rmaVersion[r] >= 8

\* The units ordered, the stock and the ledger agree about the returns of a
\* line, through races, retries and late approvals (createReturn, approveReturn,
\* inspectReturn).
ReturnsAgree ==
    /\ ReturnedWithinOrder
    /\ RestockedAtMostOnce
    /\ RefundedAtMostOnce
    /\ LedgerAgreesUnlessReopened
=============================================================================
