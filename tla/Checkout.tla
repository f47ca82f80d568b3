------------------------------- MODULE Checkout -------------------------------
(***************************************************************************)
(* A customer's cart and the checkout of it: quote, payment authorization  *)
(* and the transaction that makes the order, with the authorization voided *)
(* when it fails (CommerceService.checkout, CommerceRepository).           *)
(*                                                                         *)
(* The cart may be edited and checked out by several requests at once.     *)
(* What the transaction does to the stock is module Stock.                 *)
(***************************************************************************)
EXTENDS Naturals, FiniteSets, Rows

CONSTANTS
    CartOffers,       \* offers a line may be of
    CartQuantities,   \* quantities a line may have
    CheckoutRequests,
    PaymentKey,       \* [CheckoutRequests -> key]: Idempotency-Key header
    Editors,          \* concurrent requests that edit the cart
    MaxEdits          \* bound: edits of the cart

ASSUME CheckoutAssumption ==
    /\ CartQuantities \subseteq Nat \ {0}
    /\ MaxEdits \in Nat
    /\ None \notin CartOffers

PaymentKeys == {PaymentKey[r] : r \in CheckoutRequests}
NoCartLines == [o \in CartOffers |-> 0]

VARIABLES
    cart,        \* Cart.status
    cartVersion, \* Cart.version
    cartLines,   \* quantity of each offer in the cart, 0 without a line
    editor,      \* edit whose checks have passed
    checkout,    \* stage of each checkout request
    quoted,      \* version and lines its quote was calculated from
    orderRows,   \* Order rows of the cart: key, quoted lines, ordered lines
    authorized,  \* the provider's authorization for each key
    forsaken     \* some request died or could not void

checkoutVars == <<cart, cartVersion, cartLines, editor, checkout, quoted, orderRows,
                  authorized, forsaken>>

EditorIdle == [op |-> "idle", on |-> None, quantity |-> 0]

CheckoutInit ==
    /\ cart = "ACTIVE" /\ cartVersion = 0
    /\ cartLines = NoCartLines
    /\ editor = [e \in Editors |-> EditorIdle]
    /\ checkout = [r \in CheckoutRequests |-> "new"]
    /\ quoted = [r \in CheckoutRequests |-> [version |-> 0, lines |-> NoCartLines]]
    /\ orderRows = {}
    /\ authorized = [k \in PaymentKeys |-> "NONE"]
    /\ forsaken = FALSE

cartRows == <<cart, cartVersion, cartLines>>
orderSide == <<checkout, quoted, orderRows, authorized, forsaken>>

-----------------------------------------------------------------------------
(***************************************************************************)
(* Editing.  The cart is found ACTIVE first and written later.             *)
(***************************************************************************)

EditRead(e, op, o, n) ==
    /\ editor[e] = EditorIdle
    /\ cart = "ACTIVE" /\ cartVersion < MaxEdits
    /\ op \in {"update", "remove"} => cartLines[o] > 0
    /\ editor' = [editor EXCEPT ![e] = [op |-> op, on |-> o, quantity |-> n]]
    /\ UNCHANGED <<cartRows, orderSide>>

\* addCartLine upserts; updateCartLine writes the line by id and fails when it
\* is gone.  Line and version change together, whatever became of the cart.
WriteLine(e) ==
    LET edit == editor[e] IN
    /\ edit.op \in {"add", "update"}
    /\ editor' = [editor EXCEPT ![e] = EditorIdle]
    /\ IF edit.op = "update" /\ cartLines[edit.on] = 0
         THEN UNCHANGED cartRows
         ELSE /\ cartLines' = [cartLines EXCEPT ![edit.on] = edit.quantity]
              /\ cartVersion' = cartVersion + 1
              /\ UNCHANGED cart
    /\ UNCHANGED orderSide

\* removeCartLine deletes the line ...
DeleteLine(e) ==
    LET edit == editor[e] IN
    /\ edit.op = "remove"
    /\ editor' = [editor EXCEPT ![e] =
                    IF cartLines[edit.on] > 0 THEN [edit EXCEPT !.op = "removed"]
                                              ELSE EditorIdle]
    /\ cartLines' = [cartLines EXCEPT ![edit.on] = 0]
    /\ UNCHANGED <<cart, cartVersion, orderSide>>

\* ... and writes the version in a second statement.
BumpVersion(e) ==
    /\ editor[e].op = "removed"
    /\ editor' = [editor EXCEPT ![e] = EditorIdle]
    /\ cartVersion' = cartVersion + 1
    /\ UNCHANGED <<cart, cartLines, orderSide>>

-----------------------------------------------------------------------------
(***************************************************************************)
(* Checkout.                                                               *)
(***************************************************************************)

Advance(r, stage) == checkout' = [checkout EXCEPT ![r] = stage]

OrderOf(k) == {o \in orderRows : o.key = k}

\* A replay is answered; otherwise the cart is read and quoted.
Quote(r) ==
    /\ checkout[r] = "new"
    /\ IF OrderOf(PaymentKey[r]) # {} \/ cart # "ACTIVE" \/ cartLines = NoCartLines
         THEN Advance(r, "done") /\ UNCHANGED quoted
         ELSE /\ Advance(r, "quoted")
              /\ quoted' = [quoted EXCEPT ![r] = [version |-> cartVersion, lines |-> cartLines]]
    /\ UNCHANGED <<cartRows, editor, orderRows, authorized, forsaken>>

\* The provider answers a key it knows with the authorization it has.  It may
\* refuse, as may address, tax, shipping and fraud checks before it.
Authorize(r) ==
    LET k == PaymentKey[r] IN
    /\ checkout[r] = "quoted"
    /\ \/ /\ Advance(r, "authorized")
          /\ authorized' = [authorized EXCEPT ![k] = IF @ = "NONE" THEN "HELD" ELSE @]
       \/ Advance(r, "done") /\ UNCHANGED authorized
    /\ UNCHANGED <<cartRows, editor, quoted, orderRows, forsaken>>

\* Mutant: the order is made from the cart as it is.
CartClaimableAnyVersion(r) == cart = "ACTIVE" /\ cartLines # NoCartLines

CartClaimable(r) ==
    /\ cart = "ACTIVE" /\ cartLines # NoCartLines
    /\ cartVersion = quoted[r].version

\* The cart ends with the order, in the transaction that also writes the paid
\* invoice and the event.
CloseCart ==
    /\ cart' = "CHECKED_OUT"
    /\ cartVersion' = cartVersion + 1
    /\ UNCHANGED cartLines

\* The total is the quoted one, the lines are those of the cart.
MakeOrder(r) ==
    orderRows' = orderRows \cup
       {[key |-> PaymentKey[r], quoted |-> quoted[r].lines, lines |-> cartLines]}

\* The serializable transaction: an order of this key is the answer; a cart
\* that is not what was quoted is a conflict.
PlaceOrder(r) ==
    /\ checkout[r] = "authorized"
    /\ IF OrderOf(PaymentKey[r]) # {}
         THEN Advance(r, "done") /\ UNCHANGED <<cartRows, orderRows>>
         ELSE IF CartClaimable(r)
           THEN MakeOrder(r) /\ CloseCart /\ Advance(r, "done")
           ELSE Advance(r, "failed") /\ UNCHANGED <<cartRows, orderRows>>
    /\ UNCHANGED <<editor, quoted, authorized, forsaken>>

\* No stock, a deadlock with another checkout, a lost connection.
PlaceOrderFails(r) ==
    /\ checkout[r] = "authorized"
    /\ Advance(r, "failed")
    /\ UNCHANGED <<cartRows, editor, quoted, orderRows, authorized, forsaken>>

\* Mutant: the error is passed on and the authorization kept.
VoidSkipped(r) ==
    /\ checkout[r] = "failed"
    /\ Advance(r, "done")
    /\ UNCHANGED <<cartRows, editor, quoted, orderRows, authorized, forsaken>>

Void(r) ==
    /\ checkout[r] = "failed"
    /\ Advance(r, "done")
    /\ authorized' = [authorized EXCEPT ![PaymentKey[r]] = "VOIDED"]
    /\ UNCHANGED <<cartRows, editor, quoted, orderRows, forsaken>>

\* The void fails, or the process dies anywhere on the way.
Forsake(r) ==
    /\ checkout[r] \in {"quoted", "authorized", "failed"}
    /\ Advance(r, "done")
    /\ forsaken' = TRUE
    /\ UNCHANGED <<cartRows, editor, quoted, orderRows, authorized>>

CheckoutNext ==
    \/ \E e \in Editors :
          \/ \E op \in {"add", "update", "remove"}, o \in CartOffers, n \in CartQuantities :
                EditRead(e, op, o, n)
          \/ WriteLine(e) \/ DeleteLine(e) \/ BumpVersion(e)
    \/ \E r \in CheckoutRequests :
          \/ Quote(r) \/ Authorize(r) \/ PlaceOrder(r) \/ PlaceOrderFails(r)
          \/ Void(r) \/ Forsake(r)

CheckoutSpec == CheckoutInit /\ [][CheckoutNext]_checkoutVars

-----------------------------------------------------------------------------
(***************************************************************************)
(* Properties.                                                             *)
(***************************************************************************)

\* "Cart changed during checkout; request a new quote": what is ordered is
\* what was quoted and authorized, unless a line is being removed whose
\* version is still to be written (checkout, removeCartLine).
OrderedAsQuoted ==
    [][\A o \in orderRows' \ orderRows :
         o.lines # o.quoted => \E e \in Editors : editor[e].op = "removed"]_checkoutVars

\* The same without the exception: the total of an order is that of its lines.
TotalMatchesLines == \A o \in orderRows : o.lines = o.quoted

\* When every request has ended, and none was cut off, money is held for an
\* order and for nothing else (checkout).
HeldForAnOrder ==
    ((\A r \in CheckoutRequests : checkout[r] \in {"new", "done"}) /\ ~forsaken) =>
        \A k \in PaymentKeys : authorized[k] = "HELD" => OrderOf(k) # {}
=============================================================================
