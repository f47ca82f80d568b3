------------------------------ MODULE ClientStock ------------------------------
(***************************************************************************)
(* Third party logistics: units of one item set aside for clients, the     *)
(* billable events of a contract and the invoices drawn from them          *)
(* (NetworkOperationsRepository).  Nothing read here is read inside the    *)
(* transaction that writes.                                                *)
(***************************************************************************)
EXTENDS Naturals, FiniteSets, Rows

CONSTANTS
    Clients,
    Quantities,      \* allocatedQty a request may ask for
    OnHandAtFirst,   \* ON_HAND balance of the item
    Events,          \* billable events, one per source
    ThirdPartyBills, \* invoices that may be issued
    Managers         \* concurrent HTTP requests

ASSUME ClientStockAssumption ==
    /\ Quantities \subseteq Nat /\ OnHandAtFirst \in Nat
    /\ None \notin Clients \cup ThirdPartyBills
    /\ IsFiniteSet(Clients)

VARIABLES
    shelf,      \* ON_HAND balance; picking and adjustments lower it (module Stock)
    allocated,  \* ClientInventory.allocatedQty, 0 without a row
    events,     \* BillableEvent.status, "NONE" before the row exists
    billed,     \* events on the lines of each invoice
    manager     \* what a caller has read and goes on to write

clientStockVars == <<shelf, allocated, events, billed, manager>>

ManagerIdle == [op |-> "idle", for |-> None, quantity |-> 0, others |-> 0, events |-> {}]

ClientStockInit ==
    /\ shelf = OnHandAtFirst
    /\ allocated = [k \in Clients |-> 0]
    /\ events = [e \in Events |-> "NONE"]
    /\ billed = [b \in ThirdPartyBills |-> {}]
    /\ manager = [m \in Managers |-> ManagerIdle]

\* A unit leaves the shelf; client allocations are not consulted.
TakeUnit ==
    /\ shelf > 0
    /\ shelf' = shelf - 1
    /\ UNCHANGED <<allocated, events, billed, manager>>

\* The units allocated to clients other than k, and how many they are.
UnitsOfOthers(k) == UNION {{j} \X (1..allocated[j]) : j \in Clients \ {k}}
OthersOf(k) == Cardinality(UnitsOfOthers(k))

\* Mutant: only the request is compared with the shelf.
FitsShelfAlone(k, n) == n <= shelf

FitsShelf(k, n) == n + OthersOf(k) <= shelf

\* assignInventory: the allocations of the other clients and the balance.
AllocateRead(m, k, n) ==
    /\ manager[m] = ManagerIdle
    /\ FitsShelf(k, n)
    /\ manager' = [manager EXCEPT ![m] =
                     [ManagerIdle EXCEPT !.op = "assign", !.for = k, !.quantity = n,
                                         !.others = OthersOf(k)]]
    /\ UNCHANGED <<shelf, allocated, events, billed>>

Allocate(m, k) ==
    /\ manager[m].op = "assign" /\ manager[m].for = k
    /\ manager' = [manager EXCEPT ![m] = ManagerIdle]
    /\ allocated' = [allocated EXCEPT ![k] = manager[m].quantity]
    /\ UNCHANGED <<shelf, events, billed>>

\* recordBillableEvent: unique in contract, source and type.
RecordEvent(e) ==
    /\ events[e] = "NONE"
    /\ events' = [events EXCEPT ![e] = "UNBILLED"]
    /\ UNCHANGED <<shelf, allocated, billed, manager>>

\* issueInvoice: the unbilled events of the contract and period.
IssueRead(m, b) ==
    LET found == {e \in Events : events[e] = "UNBILLED"} IN
    /\ manager[m] = ManagerIdle /\ billed[b] = {} /\ found # {}
    /\ manager' = [manager EXCEPT ![m] =
                     [ManagerIdle EXCEPT !.op = "issue", !.for = b, !.events = found]]
    /\ UNCHANGED <<shelf, allocated, events, billed>>

MarkBilled(found) == [e \in Events |-> IF e \in found THEN "BILLED" ELSE events[e]]

\* Each request makes an invoice of its own; the events are written by id.
Issue(m, b) ==
    /\ manager[m].op = "issue" /\ manager[m].for = b
    /\ billed[b] = {}
    /\ manager' = [manager EXCEPT ![m] = ManagerIdle]
    /\ billed' = [billed EXCEPT ![b] = manager[m].events]
    /\ events' = MarkBilled(manager[m].events)
    /\ UNCHANGED <<shelf, allocated>>

ClientStockNext ==
    \/ TakeUnit
    \/ \E e \in Events : RecordEvent(e)
    \/ \E m \in Managers :
          \/ \E k \in Clients, n \in Quantities : AllocateRead(m, k, n)
          \/ \E k \in Clients : Allocate(m, k)
          \/ \E b \in ThirdPartyBills : IssueRead(m, b) \/ Issue(m, b)

ClientStockSpec == ClientStockInit /\ [][ClientStockNext]_clientStockVars

-----------------------------------------------------------------------------
(***************************************************************************)
(* Properties.                                                             *)
(***************************************************************************)

\* Clients are promised more than the item ever had on hand only when an
\* assignment overtook another one, or stock left, between its reads and its
\* write (assignInventory).
OverpromiseOnlyInARace ==
    [][\A k \in Clients :
         (/\ allocated'[k] > allocated[k]
          /\ allocated'[k] + OthersOf(k) > OnHandAtFirst) =>
            \E m \in Managers : /\ manager[m].op = "assign" /\ manager[m].for = k
                                /\ manager[m].others # OthersOf(k)]_clientStockVars

\* An event that is on an invoice is never read for another one: two invoices
\* share an event only if both had read it before either was written
\* (issueInvoice).
NoRebilling ==
    [][\A m \in Managers :
         (manager[m].op # "issue" /\ manager'[m].op = "issue") =>
            \A b \in ThirdPartyBills : billed[b] \cap manager'[m].events = {}
      ]_clientStockVars
=============================================================================
