------------------------------ MODULE MCEscrow ------------------------------
(***************************************************************************)
(* Instances of Escrow for TLC: an offer requested twice, a counteroffer   *)
(* to it and a competing offer.                                            *)
(***************************************************************************)
EXTENDS Escrow, TLC

CONSTANTS k1, k2, k3, r1, r2, r3, r4, a1, a2

\* k2 counters k1; k3 competes with both.
MCParent == (k1 :> None) @@ (k2 :> k1) @@ (k3 :> None)
MCRequestKey == (r1 :> k1) @@ (r2 :> k1) @@ (r3 :> k2) @@ (r4 :> k3)

\* Two competing offers, or one.
MCNoParent == (k1 :> None) @@ (k3 :> None)
MCRequestKey2 == (r1 :> k1) @@ (r4 :> k3)
MCOneOffer == k1 :> None
MCRequestKey1 == r1 :> k1

\* The duplicates of a request, and the seller's requests, are alike.
MCSymmetry == Permutations({r1, r2}) \cup Permutations({a1, a2})
=============================================================================
