----------------------------- MODULE MCCommerce -----------------------------
(***************************************************************************)
(* Instances for TLC of the components between a cart and a settlement.    *)
(* They share no variable with each other, and a behaviour is one of a     *)
(* single component: focus says which, and the others stay as they began.  *)
(***************************************************************************)
EXTENDS Freight, Receiving, Fulfillment, Returns, Ledger, Procurement, ClientStock, Checkout,
        Catalog, Optimization, Marketplace, Storefront, TLC

VARIABLE focus

CONSTANTS c1, c2, editor1, l1, l2, k1, k2, x1, m1, m2, r1, r2, r3, e1, e2, e3, s1, s2,
          q1, q2, q3, f1, f2, b1, b2, o1, o2,
          a1, a2, p1, p2, p3, p4, i1, t1, t2

Callers == {c1, c2}

\* Two requests; the first has two quotes, the second one that is published.
MCQuoteRequest == (q1 :> f1) @@ (q2 :> f1) @@ (q3 :> f2)

\* A receipt and its retry of one line, and a receipt of both.
MCReceiptKey == (r1 :> "a") @@ (r2 :> "a") @@ (r3 :> "b")
MCReceiptLines == (r1 :> {l1}) @@ (r2 :> {l1}) @@ (r3 :> {l1, l2})

MCRouteException == (m1 :> x1) @@ (m2 :> x1)

MCReturnKey == (r1 :> "a") @@ (r2 :> "b") @@ (r3 :> "b")
MCReturnQuantity == (r1 :> 1) @@ (r2 :> 2) @@ (r3 :> 2)

\* A credit, a debit and the reversal of the credit.
MCEntryKey == (e1 :> "a") @@ (e2 :> "b") @@ (e3 :> "c")
MCReversalOf == (e1 :> None) @@ (e2 :> None) @@ (e3 :> e1)
MCEntryAmount == (e1 :> 40) @@ (e2 :> -10) @@ (e3 :> -40)
MCReserve == (s1 :> 0) @@ (s2 :> 5)

MCQuantity == (l1 :> 1) @@ (l2 :> 2)

\* One line, part or all of the other, and the other named twice.
Parcel(n1, n2, again2) ==
    [first |-> (l1 :> n1) @@ (l2 :> n2), again |-> (l1 :> 0) @@ (l2 :> again2)]
MCParcels == {Parcel(1, 0, 0), Parcel(0, 1, 0), Parcel(0, 2, 0),
              Parcel(0, 1, 2)}

\* A checkout, its retry and another one.
MCPaymentKey == (r1 :> "a") @@ (r2 :> "a") @@ (r3 :> "b")

\* Two submissions of one product, the second one without an attribute.
MCSlugOf == (s1 :> 1) @@ (s2 :> 1)
MCGivenAttributes == (s1 :> {a1}) @@ (s2 :> {})
MCOfferOf == (o1 :> <<s1, 1>>) @@ (o2 :> <<s1, 1>>)

\* Three lanes that are wide enough, two of them with one score.
MCLaneCapacity == (p1 :> 1) @@ (p2 :> 2) @@ (p3 :> 2) @@ (p4 :> 3)
MCScore == i1 :> ((p1 :> 1) @@ (p2 :> 2) @@ (p3 :> 2) @@ (p4 :> 3))
MCLaneOrder == (p1 :> 1) @@ (p2 :> 2) @@ (p3 :> 1) @@ (p4 :> 3)

\* 15% off everything, or 5 off 3 and more, under one code.
MCPromotionCode == (p1 :> 1) @@ (p2 :> 1)
MCPromotionKind == (p1 :> "PERCENTAGE") @@ (p2 :> "FIXED")
MCPromotionValue == (p1 :> 15) @@ (p2 :> 5)
MCMinimumMinor == (p1 :> 0) @@ (p2 :> 3)

Symmetric == Permutations(Callers)

Init ==
    /\ FreightInit /\ ReceivingInit /\ FulfillmentInit /\ ReturnsInit /\ LedgerInit
    /\ ProcurementInit /\ ClientStockInit /\ CheckoutInit /\ CatalogInit /\ OptimizationInit
    /\ MarketplaceInit /\ StorefrontInit /\ NumberingInit
    /\ focus \in
         {"freight", "receiving", "fulfillment", "returns", "ledger", "procurement",
          "clients", "checkout", "catalog", "optimization", "marketplace",
          "storefront", "numbering"}

\* Every component but the one in focus stands still.
Still(component, vars) == focus # component => UNCHANGED vars

Next ==
    /\ UNCHANGED focus
    /\ \/ focus = "freight" /\ FreightNext
       \/ focus = "receiving" /\ ReceivingNext
       \/ focus = "fulfillment" /\ FulfillmentNext
       \/ focus = "returns" /\ ReturnsNext
       \/ focus = "ledger" /\ LedgerNext
       \/ focus = "procurement" /\ ProcurementNext
       \/ focus = "clients" /\ ClientStockNext
       \/ focus = "checkout" /\ CheckoutNext
       \/ focus = "catalog" /\ CatalogNext
       \/ focus = "optimization" /\ OptimizationNext
       \/ focus = "marketplace" /\ MarketplaceNext
       \/ focus = "storefront" /\ StorefrontNext
       \/ focus = "numbering" /\ NumberingNext
    /\ Still("freight", freightVars)
    /\ Still("receiving", receivingVars)
    /\ Still("fulfillment", fulfillmentVars)
    /\ Still("returns", returnsVars)
    /\ Still("ledger", ledgerVars)
    /\ Still("procurement", procurementVars)
    /\ Still("clients", clientStockVars)
    /\ Still("checkout", checkoutVars)
    /\ Still("catalog", catalogVars)
    /\ Still("optimization", optimizationVars)
    /\ Still("marketplace", marketplaceVars)
    /\ Still("storefront", storefrontVars)
    /\ Still("numbering", numberingVars)

Spec ==
    /\ Init
    /\ [][Next]_<<focus, freightVars, receivingVars, fulfillmentVars, returnsVars,
                  ledgerVars, procurementVars, clientStockVars, checkoutVars,
                  catalogVars, optimizationVars, marketplaceVars, storefrontVars,
                  numberingVars>>

-----------------------------------------------------------------------------
(***************************************************************************)
(* What the components promise together.  Each part is stated, and said of *)
(* which code it is, in the module of its component.                       *)
(***************************************************************************)

\* One acceptance of a quote binds, and what is booked, ordered or invoiced is
\* what was accepted and delivered (acceptQuote of freight and of procurement,
\* fulfill).
AcceptanceBinds == AcceptedIsBooked /\ OneOrderPerQuote /\ InvoiceCoversDelivery

\* Numbers drawn before or inside a transaction run on without a gap or a
\* repetition (createQuote, nextInvoiceNumber, nextNumber).
NumbersRunOn == RevisionsCount /\ NumberedWithoutGaps

\* What is returned, restocked and refunded agrees with order, stock and ledger,
\* and what the ledger owes a supplier is paid out by one settlement
\* (approveReturn, inspectReturn, calculateSettlement).
BooksAgree == ReturnsAgree /\ SettledOnce

\* What reaches buyers is permitted, announced as often as it was asked for, in
\* as few carts as requests allow and at a discount that leaves the goods their
\* price (submit, moderate, publishOffer, createCart, promotionDiscount).
OffersSound ==
    /\ ProhibitedNeverOffered
    /\ AnnouncedOncePerReader
    /\ ManyCartsOnlyInARace
    /\ DiscountIsSound

\* A limit that is checked before it is written - credit, a shelf, an order, the
\* events of a bill - is exceeded only when another request came in between
\* (acceptQuote, assignInventory, fulfill, issueInvoice).
LimitsExceededOnlyInARace ==
    /\ CreditExceededOnlyInARace
    /\ OverpromiseOnlyInARace
    /\ OverdeliveryExplained
    /\ NoRebilling

\* What was submitted, quoted, rejected, sold or over stays so, unless a request
\* that had read it before overtakes the decision (updateRequest, checkout,
\* approve, reject, submit, moderate).
DecidedUnlessOvertaken ==
    /\ SubmittedIsFrozen
    /\ OrderedAsQuoted
    /\ RejectedUnlessOvertaken
    /\ SoldUnlessOvertaken
    /\ UsedLateOnlyIfQuoted
=============================================================================
