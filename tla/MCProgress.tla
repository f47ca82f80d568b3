----------------------------- MODULE MCProgress -----------------------------
(***************************************************************************)
(* Instances for TLC of the components in which somebody must act in the   *)
(* end: the outbox, the webhooks, the holds of C2C offers, the sweeper of  *)
(* a transport and that of a consolidation.  As in MCCommerce, a behaviour *)
(* is one of the component focus names, here with the fairness of its      *)
(* background processes.                                                   *)
(***************************************************************************)
EXTENDS Outbox, Partner, Escrow, Dispatch, Consolidation, TLC

VARIABLE focus

CONSTANTS c1, c2, p1, p2, w1, o1, e1, d1, d2, l1, k1, driver1, vehicle1, b1, b2, u1, offer1, r1

MCShopKey == o1 :> "a"

\* One offer, requested once.
MCNoParent == offer1 :> None
MCRequestKey == r1 :> offer1

\* Two callers do everything for one leg.
MCDuty == (c1 :> Operations) @@ (c2 :> Operations)

MCWeight == (b1 :> 1) @@ (b2 :> 2)

Init ==
    /\ OutboxInit /\ PartnerInit /\ EscrowInit /\ DispatchInit /\ ConsolidationInit
    /\ focus \in {"outbox", "partner", "escrow", "dispatch", "consolidation"}

\* What belongs to the others.
BesidesOutbox == <<partnerVars, escrowVars, dispatchVars, consolidationVars>>
BesidesPartner == <<outboxVars, escrowVars, dispatchVars, consolidationVars>>
BesidesEscrow == <<outboxVars, partnerVars, dispatchVars, consolidationVars>>
BesidesDispatch == <<outboxVars, partnerVars, escrowVars, consolidationVars>>
BesidesConsolidation == <<outboxVars, partnerVars, escrowVars, dispatchVars>>

Next ==
    \/ focus = "outbox" /\ OutboxNext /\ UNCHANGED <<focus, BesidesOutbox>>
    \/ focus = "partner" /\ PartnerNext /\ UNCHANGED <<focus, BesidesPartner>>
    \/ focus = "escrow" /\ EscrowNext /\ UNCHANGED <<focus, BesidesEscrow>>
    \/ focus = "dispatch" /\ DispatchNext /\ UNCHANGED <<focus, BesidesDispatch>>
    \/ focus = "consolidation" /\ ConsolidationNext /\ UNCHANGED <<focus, BesidesConsolidation>>

vars == <<focus, outboxVars, partnerVars, escrowVars, dispatchVars, consolidationVars>>

\* Timers fire and background processes go on; see the modules.  A component
\* that stands still has nothing to do, but for the scheduler of Escrow, which
\* would poll: its fairness is asked for only where it may.
Fairness ==
    /\ OutboxFairness
    /\ PartnerFairness
    /\ focus = "escrow" => EscrowFairness
    /\ \A w \in Sweeping : WF_dispatchVars(SweeperStep(w))
    /\ \A w \in CutoffSweepers : WF_consolidationVars(CutoffSweep(w))

Spec == Init /\ [][Next]_vars /\ Fairness

-----------------------------------------------------------------------------
(***************************************************************************)
(* What the components promise together.  Each part is stated, and said of *)
(* which code it is, in the module of its component.                       *)
(***************************************************************************)

\* However workers crash, overlap, lose their claim or fail to reach the other
\* side, an event is neither marked before it was handed over nor taken up
\* again after, and a notice is repeated only by workers that looked before it
\* was written (publishBatch, sweep).
NeitherLostNorRepeated ==
    /\ []PublishedIsQueued
    /\ PublishedForGood
    /\ ReportedAgainOnlyInARace

\* Every message gets out in the end, or is given up after its attempts
\* (publishBatch, processAllDeliveries).
MessagesArrive == EventuallyPublished /\ EventuallySettled

\* Who is late is noticed in the end (sweep of transports and consolidations).
LateIsNoticed == OverdueNoticed /\ MissedCutoffReported
=============================================================================
