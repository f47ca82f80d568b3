---------------------------- MODULE MCPayments ----------------------------
(***************************************************************************)
(* Instances of Payments for TLC: an invoice of two schedules, two         *)
(* sessions of the first one, an event for each capture, and a second      *)
(* event of the first session.                                             *)
(***************************************************************************)
EXTENDS Payments, TLC

CONSTANTS k1, k2, r1, r2, e1, e2, e3, e4, n1

MCTwoSchedules == <<2, 1>>

\* Two sessions of schedule 1.
MCSessions2 == (k1 :> 1) @@ (k2 :> 1)
MCRequests2 == (r1 :> k1) @@ (r2 :> k2)
MCEvents2 == (e1 :> k1) @@ (e2 :> k2)
MCSuccess2 == (e1 :> "success") @@ (e2 :> "success")

\* A second success event and a failure event of session k1.
MCEvents4 == (e1 :> k1) @@ (e2 :> k2) @@ (e3 :> k1) @@ (e4 :> k1)
MCKinds4 == (e1 :> "success") @@ (e2 :> "success") @@ (e3 :> "failed") @@ (e4 :> "success")

MCCredit == (n1 :> 1)
=============================================================================
