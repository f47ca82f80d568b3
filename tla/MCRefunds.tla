----------------------------- MODULE MCRefunds -----------------------------
(***************************************************************************)
(* Instances of Refunds for TLC: one captured session, refunds of part of   *)
(* it or of all of it.                                                     *)
(***************************************************************************)
EXTENDS Refunds, TLC

CONSTANTS k1, r1, e1, q1, q2, q3, x1, x2, x3, x4

MCOneSchedule == <<2>>
MCSession == k1 :> 1
MCRequest == r1 :> k1
MCEvent == e1 :> k1
MCSuccess == e1 :> "success"
MCNothing == [x \in {} |-> x]

\* A partial refund and all the events it may cause, "succeeded" twice.
MCPartial == q1 :> k1
MCPartialAmount == q1 :> 1
MCEventsOfOne == (x1 :> q1) @@ (x2 :> q1) @@ (x3 :> q1) @@ (x4 :> q1)
MCStatusOfOne == (x1 :> "succeeded") @@ (x2 :> "succeeded") @@ (x3 :> "failed") @@ (x4 :> "pending")

\* Three refunds, of which two together are the payment; only q1 is Stripe's.
MCThree == (q1 :> k1) @@ (q2 :> k1) @@ (q3 :> k1)
MCThreeAmounts == (q1 :> 1) @@ (q2 :> 1) @@ (q3 :> 1)
MCEventsOfTwo == (x1 :> q1) @@ (x2 :> q2) @@ (x3 :> q1)
MCStatusOfTwo == (x1 :> "succeeded") @@ (x2 :> "pending") @@ (x3 :> "failed")
\* Callers are interchangeable, and so are hooks; no liveness is checked.
MCActorsAlike == Permutations(Callers) \cup Permutations(Hooks)
=============================================================================
