----------------------------- MODULE Procurement -----------------------------
(***************************************************************************)
(* A business account's request for quotes, the quotes sellers send, and   *)
(* the order made of an accepted one: approved, fulfilled in parts and     *)
(* invoiced when complete (B2BRepository).                                 *)
(*                                                                         *)
(* fulfill runs in one REPEATABLE READ transaction: what it checks is the  *)
(* snapshot of its first read, what it increments is the current row.      *)
(***************************************************************************)
EXTENDS Naturals, FiniteSets, Rows

CONSTANTS
    Proposals,     \* quotes for the one request modelled
    NeedsApproval, \* quotes above the account's approval limit
    OverLimit,     \* quotes above the buyer's spend limit
    ItemLines,     \* lines of the request, and of every quote and order
    Quantity,      \* [ItemLines -> Nat \ {0}]
    Parcels,       \* bodies of fulfill requests: what they deliver of each line
                   \* where they name it first, and where they name it again
    Sellers,       \* concurrent fulfill requests
    Buyers         \* concurrent quote, accept and approve requests

ASSUME ProcurementAssumption ==
    /\ NeedsApproval \subseteq Proposals /\ OverLimit \subseteq Proposals
    /\ Quantity \in [ItemLines -> Nat \ {0}]
    /\ Parcels \subseteq [first : [ItemLines -> Nat], again : [ItemLines -> Nat]]
    /\ None \notin Proposals

VARIABLES
    rfq,        \* RequestForQuote.status, or "EXPIRED" when its time has passed
    proposal,   \* BusinessQuote.status: "NONE", "SENT", "ACCEPTED" or "EXPIRED"
    orders,     \* BusinessOrder rows of each quote
    purchase,   \* BusinessOrder.status, "NONE" before the row exists
    fulfilled,  \* BusinessOrderLine.fulfilledQty of each order
    invoices,   \* BillingInvoice rows of each order
    seller,     \* open fulfill transaction: order, snapshot of its lines and body
    buyer       \* quote, accept or approve in progress

procurementVars == <<rfq, proposal, orders, purchase, fulfilled, invoices, seller, buyer>>

NoLines == [l \in ItemLines |-> 0]
NoParcel == [first |-> NoLines, again |-> NoLines]
SellerIdle == [order |-> None, seen |-> NoLines, parcel |-> NoParcel]
BuyerIdle == [op |-> "idle", on |-> None]

ProcurementInit ==
    /\ rfq = "OPEN"
    /\ proposal = [q \in Proposals |-> "NONE"]
    /\ orders = [q \in Proposals |-> 0]
    /\ purchase = [q \in Proposals |-> "NONE"]
    /\ fulfilled = [q \in Proposals |-> NoLines]
    /\ invoices = [q \in Proposals |-> 0]
    /\ seller = [s \in Sellers |-> SellerIdle]
    /\ buyer = [b \in Buyers |-> BuyerIdle]

-----------------------------------------------------------------------------
\* quote: the request is OPEN and in time when it is read.
SendQuoteRead(b, q) ==
    /\ buyer[b] = BuyerIdle
    /\ rfq = "OPEN" /\ proposal[q] = "NONE"
    /\ buyer' = [buyer EXCEPT ![b] = [op |-> "quote", on |-> q]]
    /\ UNCHANGED <<rfq, proposal, orders, purchase, fulfilled, invoices, seller>>

SendQuote(b, q) ==
    /\ buyer[b] = [op |-> "quote", on |-> q]
    /\ buyer' = [buyer EXCEPT ![b] = BuyerIdle]
    /\ proposal' = [proposal EXCEPT ![q] = IF @ = "NONE" THEN "SENT" ELSE @]
    /\ UNCHANGED <<rfq, orders, purchase, fulfilled, invoices, seller>>

\* expiresAt and validUntil pass; no process writes them into the status.
TimePasses ==
    /\ \/ rfq = "OPEN" /\ rfq' = "EXPIRED" /\ UNCHANGED proposal
       \/ \E q \in Proposals :
             /\ proposal[q] = "SENT"
             /\ proposal' = [proposal EXCEPT ![q] = "EXPIRED"]
             /\ UNCHANGED rfq
    /\ UNCHANGED <<orders, purchase, fulfilled, invoices, seller, buyer>>

\* The status of the request is not read.
AcceptRead(b, q) ==
    /\ buyer[b] = BuyerIdle
    /\ proposal[q] = "SENT" /\ q \notin OverLimit
    /\ buyer' = [buyer EXCEPT ![b] = [op |-> "accept", on |-> q]]
    /\ UNCHANGED <<rfq, proposal, orders, purchase, fulfilled, invoices, seller>>

\* BusinessOrder.quoteId is unique.
QuoteFree(q) == orders[q] = 0

Accept(b, q) ==
    /\ buyer[b] = [op |-> "accept", on |-> q]
    /\ buyer' = [buyer EXCEPT ![b] = BuyerIdle]
    /\ IF QuoteFree(q)
         THEN /\ orders' = [orders EXCEPT ![q] = @ + 1]
              /\ purchase' = [purchase EXCEPT ![q] =
                                IF q \in NeedsApproval THEN "PENDING_APPROVAL" ELSE "APPROVED"]
              /\ proposal' = [proposal EXCEPT ![q] = "ACCEPTED"]
              /\ rfq' = "ACCEPTED"
         ELSE UNCHANGED <<orders, purchase, proposal, rfq>>
    /\ UNCHANGED <<fulfilled, invoices, seller>>

ApproveOrderRead(b, q) ==
    /\ buyer[b] = BuyerIdle /\ purchase[q] = "PENDING_APPROVAL"
    /\ buyer' = [buyer EXCEPT ![b] = [op |-> "approve", on |-> q]]
    /\ UNCHANGED <<rfq, proposal, orders, purchase, fulfilled, invoices, seller>>

\* By id: a late approval also takes a FULFILLED order back to APPROVED.
ApproveOrder(b, q) ==
    /\ buyer[b] = [op |-> "approve", on |-> q]
    /\ buyer' = [buyer EXCEPT ![b] = BuyerIdle]
    /\ purchase' = [purchase EXCEPT ![q] = "APPROVED"]
    /\ UNCHANGED <<rfq, proposal, orders, fulfilled, invoices, seller>>

FulfillBegin(s, q, parcel) ==
    /\ seller[s] = SellerIdle
    /\ purchase[q] \in {"APPROVED", "PARTIALLY_FULFILLED"}
    /\ parcel # NoParcel
    /\ seller' = [seller EXCEPT ![s] = [order |-> q, seen |-> fulfilled[q], parcel |-> parcel]]
    /\ UNCHANGED <<rfq, proposal, orders, purchase, fulfilled, invoices, buyer>>

Given(s, l) == seller[s].parcel.first[l] + seller[s].parcel.again[l]

\* Each mention of a line is compared with the snapshot by itself.
Fits(s) ==
    \A l \in ItemLines :
       \A n \in {seller[s].parcel.first[l], seller[s].parcel.again[l]} :
          n > 0 => seller[s].seen[l] + n <= Quantity[l]

\* The second read sees this transaction's own rows as they are now, and the
\* other lines as they were when it began.
Complete(s, q) ==
    \A l \in ItemLines :
       Quantity[l] = IF Given(s, l) > 0 THEN fulfilled[q][l] + Given(s, l)
                                        ELSE seller[s].seen[l]

\* A second invoice of the order breaks a unique key and aborts everything.
Fulfill(s, q) ==
    /\ seller[s].order = q
    /\ seller' = [seller EXCEPT ![s] = SellerIdle]
    /\ IF Fits(s) /\ ~(Complete(s, q) /\ invoices[q] > 0)
         THEN /\ fulfilled' = [fulfilled EXCEPT ![q] = [l \in ItemLines |-> @[l] + Given(s, l)]]
              /\ IF Complete(s, q)
                   THEN /\ purchase' = [purchase EXCEPT ![q] = "FULFILLED"]
                        /\ invoices' = [invoices EXCEPT ![q] = @ + 1]
                   ELSE /\ purchase' = [purchase EXCEPT ![q] = "PARTIALLY_FULFILLED"]
                        /\ UNCHANGED invoices
         ELSE UNCHANGED <<fulfilled, purchase, invoices>>
    /\ UNCHANGED <<rfq, proposal, orders, buyer>>

ProcurementNext ==
    \/ TimePasses
    \/ \E q \in Proposals :
          \/ \E b \in Buyers :
                \/ SendQuoteRead(b, q) \/ SendQuote(b, q)
                \/ AcceptRead(b, q) \/ Accept(b, q)
                \/ ApproveOrderRead(b, q) \/ ApproveOrder(b, q)
          \/ \E s \in Sellers :
                \/ \E parcel \in Parcels : FulfillBegin(s, q, parcel)
                \/ Fulfill(s, q)

ProcurementSpec == ProcurementInit /\ [][ProcurementNext]_procurementVars

-----------------------------------------------------------------------------
(***************************************************************************)
(* Properties.                                                             *)
(***************************************************************************)

\* However buyers race, one order comes of a quote (acceptQuote).
OneOrderPerQuote == \A q \in Proposals : orders[q] <= 1

\* An invoice for the whole order is written only when every line has been
\* delivered, also when deliveries of its lines overlap (fulfill).
InvoiceCoversDelivery ==
    \A q \in Proposals :
       invoices[q] > 0 => \A l \in ItemLines : fulfilled[q][l] >= Quantity[l]

\* More than was ordered is delivered only by a request that names the line
\* twice, or by one whose transaction began before another that touched the line
\* had committed (fulfill).
OverdeliveryExplained ==
    [][\A q \in Proposals, l \in ItemLines :
         (fulfilled[q][l] <= Quantity[l] /\ fulfilled'[q][l] > Quantity[l]) =>
            \E s \in Sellers :
               /\ seller[s].order = q
               /\ \/ seller[s].seen[l] < fulfilled[q][l]
                  \/ seller[s].parcel.again[l] > 0
      ]_procurementVars
=============================================================================
