------------------------------ MODULE MCStock ------------------------------
(***************************************************************************)
(* Instances of Stock for TLC.  Order o1 has a two-unit line and a line of *)
(* another vendor, order o2 competes with o1 for the item of the first     *)
(* line; there is too little stock for everybody.                          *)
(***************************************************************************)
EXTENDS Stock, TLC

CONSTANTS i1, i2, o1, o2, l1, l2, l3, v1, v2, f1, f2, k1, k2, r1

MCItems == {i1, i2}
MCOrders == {o1, o2}
MCLines == {l1, l2, l3}
MCVendors == {v1, v2}
MCLineOrder == (l1 :> o1) @@ (l2 :> o1) @@ (l3 :> o2)
MCLineItem == (l1 :> i1) @@ (l2 :> i2) @@ (l3 :> i1)
MCLineVendor == (l1 :> v1) @@ (l2 :> v2) @@ (l3 :> v1)
MCLineQty == (l1 :> 2) @@ (l2 :> 1) @@ (l3 :> 1)
MCInitialStock == (i1 :> 2) @@ (i2 :> 1)

\* A feed, and a receipt, of the item the orders compete for.
MCFeedItem1 == (f1 :> i1)
MCFeedQty1 == (f1 :> 3)
MCFeedKey1 == (f1 :> k1)
MCReceiptItem == (r1 :> i1)
MCReceiptQty == (r1 :> 1)
MCNothing == [x \in {} |-> x]

\* Pickers are interchangeable, and stock_all checks no liveness.
MCPickersAlike == Permutations(Pickers)
=============================================================================
