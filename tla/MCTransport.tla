---------------------------- MODULE MCTransport -----------------------------
(***************************************************************************)
(* Instances for TLC of what happens to a booking on its way, of accounts  *)
(* and their sessions, and of partners.  As in MCCommerce, a behaviour is  *)
(* one of the component focus names.                                       *)
(***************************************************************************)
EXTENDS Documents, Dispatch, Papers, Insurance, Consolidation, Handling, Postal,
        Sessions, Partner, Enrolment, Access, PartnerKeys, TLC

VARIABLE focus

CONSTANTS c1, c2, staff1, staff2, w1, l1, l2, driver1, vehicle1, k1, k2, d1, d2, f1, f2, q1,
          u1, b1, b2, e1, e2, e3, i1, r1, r2, s1, s2, t1, t2, t3, o1, o2,
          p1, p2, p3, g1, g2, x1, x2, x3, a1, a2

\* The credential the calls are made with.
ASSUME CallerAssumption == t1 \in ApiKeys

Callers == {c1, c2}

\* One of the staff does everything, the other one assigns.
MCDuty == (staff1 :> Operations) @@ (staff2 :> {"assign"})

MCClaimPolicy == k1 :> q1
MCClaimed == k1 :> 2

\* Together the two bookings are too heavy.
MCWeight == (b1 :> 1) @@ (b2 :> 2)

MCPackages == (k1 :> 1) @@ (k2 :> 2)
MCEventUnit == (e1 :> u1) @@ (e2 :> u1) @@ (e3 :> u1)
MCHandlingKey == (e1 :> "a") @@ (e2 :> "a") @@ (e3 :> "b")
MCEventStatus == (e1 :> "AT_HUB") @@ (e2 :> "AT_HUB") @@ (e3 :> "LOADED")

\* An order and its retry.
MCShopKey == (o1 :> "a") @@ (o2 :> "a")

\* One event reported twice.
MCEventItem == (e1 :> i1) @@ (e2 :> i1)
MCPostalKey == (e1 :> "a") @@ (e2 :> "a")
MCEventCode == (e1 :> "DELIVERED") @@ (e2 :> "DELIVERED")

\* A linehaul by sea may carry either plan by sea, but not both.
MCMode == (s1 :> "SEA") @@ (s2 :> "AIR") @@ (p1 :> "SEA") @@ (p2 :> "SEA") @@ (p3 :> "AIR")
MCPlanWeight == (p1 :> 1) @@ (p2 :> 2) @@ (p3 :> 3)
MCPostalRoute == (g1 :> 1) @@ (g2 :> 2) @@ (d1 :> 1) @@ (d2 :> 1) @@ (r1 :> 2)
MCPositionOf == (d1 :> 1) @@ (d2 :> 1) @@ (r1 :> 2)

\* Two registrations of one e-mail address.
MCEmailOf == (l1 :> 1) @@ (l2 :> 1)

MCUserOf == s1 :> u1

\* One event, sent twice.
MCNoticeOf == (e1 :> 1) @@ (e2 :> 1)

Symmetric == Permutations(Callers)

Init ==
    /\ DocumentInit /\ DispatchInit /\ PapersInit /\ CustomsInit /\ InsuranceInit
    /\ ConsolidationInit /\ HandlingInit /\ PostalInit /\ SessionsInit /\ PartnerInit
    /\ LinehaulInit /\ EnrolmentInit /\ AccessInit /\ ThrottleInit
    /\ PartnerKeysInit
    /\ focus \in
         {"documents", "dispatch", "papers", "customs", "insurance", "consolidation",
          "handling", "postal", "sessions", "partner", "linehaul", "enrolment",
          "access", "throttle", "keys", "calls", "notices"}
    /\ infected => focus = "documents"
    /\ focus = "enrolment" \/ ~registration

\* Every component but the one in focus stands still.
Still(component, vars) == focus # component => UNCHANGED vars

Next ==
    /\ UNCHANGED focus
    /\ \/ focus = "documents" /\ DocumentNext
       \/ focus = "dispatch" /\ DispatchNext
       \/ focus = "papers" /\ PapersNext
       \/ focus = "customs" /\ CustomsNext
       \/ focus = "insurance" /\ InsuranceNext
       \/ focus = "consolidation" /\ ConsolidationNext
       \/ focus = "handling" /\ HandlingNext
       \/ focus = "postal" /\ PostalNext
       \/ focus = "sessions" /\ SessionsNext
       \/ focus = "partner" /\ PartnerNext
       \/ focus = "linehaul" /\ LinehaulNext
       \/ focus = "enrolment" /\ EnrolmentNext
       \/ focus = "access" /\ AccessNext
       \/ focus = "throttle" /\ ThrottleNext
       \/ focus = "keys" /\ RotationNext
       \/ focus = "calls" /\ (CreateKey(t1) \/ RevokeKey(t1) \/ CallNext)
       \/ focus = "notices" /\ NoticeNext
    /\ Still("documents", documentVars)
    /\ Still("dispatch", dispatchVars)
    /\ Still("papers", papersVars)
    /\ Still("customs", customsVars)
    /\ Still("insurance", insuranceVars)
    /\ Still("consolidation", consolidationVars)
    /\ Still("handling", handlingVars)
    /\ Still("postal", postalVars)
    /\ Still("sessions", sessionsVars)
    /\ Still("partner", partnerVars)
    /\ Still("linehaul", linehaulVars)
    /\ Still("enrolment", enrolmentVars)
    /\ Still("access", accessVars)
    /\ Still("throttle", throttleVars)
    /\ focus \notin {"keys", "calls", "notices"} => UNCHANGED partnerKeysVars

Spec ==
    /\ Init
    /\ [][Next]_<<focus, documentVars, dispatchVars, papersVars, customsVars,
                  insuranceVars, consolidationVars, handlingVars, postalVars,
                  sessionsVars, partnerVars, linehaulVars, enrolmentVars, accessVars,
                  throttleVars, partnerKeysVars>>

-----------------------------------------------------------------------------
(***************************************************************************)
(* What the components promise together.  Each part is stated, and said of *)
(* which code it is, in the module of its component.                       *)
(***************************************************************************)

\* What is sent again, under one key or as one event, is done once, and a webhook
\* is with one process at a time unless its claim lapsed (recordHandlingEvent,
\* recordPostalEvent, submitOrder, receiveWebhook, processDeliveries).
RepeatedOnce ==
    /\ HandledOnce
    /\ ReportedOnce
    /\ AcceptedAnnouncedOnce
    /\ NoticedOnce
    /\ SharedOnlyAfterLapse

\* Records that overlapping requests write one after another agree: amounts
\* with the claim, events and revisions with each other, a dispatch with what is
\* in it, a delivery with its attempts and answers (transitionInsuranceClaim,
\* transitionPostalDispatch, createDocument, processDeliveries).
RecordsAgree ==
    /\ PaidWithinApproved
    /\ ClaimHistoryConnected
    /\ NoEmptyDispatch
    /\ RevisionsCounted
    /\ GivenUpLate

\* Overlapping requests get no more keys, attempts, calls or recovery codes than
\* one after another would (rotateCredential, consume, consumeRate, enroll).
AccessSound ==
    /\ OneSuccessorUnlessTroubled
    /\ AdmittedWithinLimit
    /\ CallsWithinRate
    /\ UnconfirmedHasNoCodes

\* What was weighed or counted before it was loaded exceeds its room only when
\* another request came in between (assertCapacity, allocateLinehaul,
\* addHandlingContent, transitionConsolidation).
CapacityExceededOnlyInARace ==
    /\ OverbookedOnlyInARace
    /\ OverloadedOnlyInARace
    /\ OverpackedOnlyInARace
    /\ UnweighedLoadedOnlyInARace

\* What was decided is undone by no request, whatever was under way: a filing at
\* customs, a quote or policy that expired, a webhook, and mail handed over.  A
\* departed plan goes back to OPEN only by a member written after a read that
\* found it a DRAFT (transitionCustomsFiling, acceptInsuranceQuote,
\* processDeliveries, addConsolidationMember, transitionConsolidation,
\* transitionPostalDispatch, transitionReceptacle).
DecisionsStand ==
    /\ CustomsDecisionFinal
    /\ ExpiredNeverBinds
    /\ ExpiredPolicyStays
    /\ OutcomeFinal
    /\ DepartedReopenedOnlyByAMember
    /\ HandedOverIsDespatched
    /\ ReceptacleFollowsItsTransitions

\* A right that was taken away is gone for every request that did not hold it
\* already: roles, machine credentials, sessions and second factors
\* (setUserRoles, MachineAuthGuard, rotateRefreshToken, enroll, confirm).
RightsEnd ==
    /\ ExcessOnlyByAnOldLogin
    /\ RevokedKeyIsRefused
    /\ ReuseEndsSession
    /\ SwitchedOffOnlyInARace
    /\ ConfirmedIsProven
=============================================================================
