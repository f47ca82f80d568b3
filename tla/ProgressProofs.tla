--------------------------- MODULE ProgressProofs ---------------------------
(***************************************************************************)
(* Proofs about what workers hand over: the outbox, for any number of      *)
(* publishers, and the notice of a missed cutoff.  The webhooks of a       *)
(* partner are in TransportProofs.                                         *)
(***************************************************************************)
EXTENDS MCProgress, TLAPS

-----------------------------------------------------------------------------
(***************************************************************************)
(* The outbox.                                                             *)
(***************************************************************************)

\* An event the queue knows has made a job.
JobsCounted ==
    /\ jobs \in [OutboxEvents -> Nat]
    /\ \A e \in OutboxEvents : e \in queue => jobs[e] > 0

\* An event that a publisher goes on to mark has a job, and no batch holds an event
\* read as PUBLISHED.
AddedHasJob ==
    /\ DOMAIN outbox = OutboxEvents /\ DOMAIN publisher = Publishers
    /\ \A p \in Publishers :
         /\ publisher[p] = [batch |-> publisher[p].batch, stage |-> publisher[p].stage,
                            event |-> publisher[p].event]
         /\ publisher[p].stage \in {"claimed", "added", "failed"} =>
              publisher[p].event \in OutboxEvents
         /\ publisher[p].stage = "added" => jobs[publisher[p].event] > 0
         /\ \A seen \in publisher[p].batch :
              seen.event \in OutboxEvents /\ seen.status # "PUBLISHED"

OutboxInv == JobsCounted /\ AddedHasJob /\ PublishedIsQueued

\* A call of the queue makes a job unless there is one, and takes none away.
LEMMA EnqueueMakesOneJob ==
    ASSUME JobsCounted, NEW e \in OutboxEvents, Enqueue(e)
    PROVE  JobsCounted' /\ jobs'[e] > 0 /\ \A x \in OutboxEvents : jobs'[x] >= jobs[x]
<1>1. JobsCounted'
  BY DEF JobsCounted, Enqueue
<1> QED BY <1>1 DEF JobsCounted, Enqueue

\* What does not touch queue and jobs keeps their count.
LEMMA JobsStay ==
    ASSUME JobsCounted, UNCHANGED <<queue, jobs>> PROVE JobsCounted'
BY DEF JobsCounted

\* A publisher that is done, or gone, has nothing in hand.
LEMMA NothingInHand ==
    ASSUME OutboxInv, NEW p \in Publishers, NEW f, UNCHANGED jobs, DOMAIN outbox' = OutboxEvents,
           f.stage = "idle", f = [batch |-> f.batch, stage |-> f.stage, event |-> f.event],
           f.batch \subseteq publisher[p].batch, publisher' = [publisher EXCEPT ![p] = f]
    PROVE  AddedHasJob'
BY DEF OutboxInv, AddedHasJob

\* The record of a publisher that is done.
LEMMA DoneRecord ==
    ASSUME OutboxInv, NEW p \in Publishers, PublisherDone(p)
    PROVE  publisher' = [publisher EXCEPT
             ![p] = [batch |-> publisher[p].batch, stage |-> "idle", event |-> None]]
<1> DEFINE f == publisher[p]
<1>1. f = [batch |-> f.batch, stage |-> f.stage, event |-> f.event]
  BY DEF OutboxInv, AddedHasJob
<1>2. publisher' = [publisher EXCEPT ![p] = [[f EXCEPT !.stage = "idle"] EXCEPT !.event = None]]
  BY DEF OutboxInv, AddedHasJob, PublisherDone
<1>3. [[f EXCEPT !.stage = "idle"] EXCEPT !.event = None]
        = [batch |-> f.batch, stage |-> "idle", event |-> None]
  <2> HIDE DEF f
  <2> DEFINE g == [f EXCEPT !.stage = "idle"]
  <2>1. g = [batch |-> f.batch, stage |-> "idle", event |-> f.event]
    BY <1>1
  <2>2. g = [batch |-> g.batch, stage |-> g.stage, event |-> g.event]
    BY <2>1
  <2>3. g.batch = f.batch /\ g.stage = "idle"
    BY <2>1
  <2> HIDE DEF g
  <2>4. [g EXCEPT !.event = None] = [batch |-> g.batch, stage |-> g.stage, event |-> None]
    BY <2>2
  <2> QED BY <2>3, <2>4 DEF g
<1> QED BY <1>2, <1>3

\* The publisher's steps over the queue (queue.add, and what becomes of its answer).
LEMMA AddingKept ==
    ASSUME OutboxInv, NEW p \in Publishers, Add(p) \/ AddFails(p)
    PROVE  OutboxInv'
<1> DEFINE e == publisher[p].event
<1> HIDE DEF e
<1>1. CASE Add(p)
  <2>1. e \in OutboxEvents /\ Enqueue(e) /\ UNCHANGED outbox
    BY <1>1 DEF Add, OutboxInv, AddedHasJob, e
  <2>2. JobsCounted' /\ jobs'[e] > 0 /\ \A x \in OutboxEvents : jobs'[x] >= jobs[x]
    BY <2>1, EnqueueMakesOneJob DEF OutboxInv
  <2>3. AddedHasJob'
    BY <1>1, <2>1, <2>2 DEF Add, OutboxInv, AddedHasJob, JobsCounted, e
  <2>4. PublishedIsQueued'
    BY <2>1, <2>2 DEF OutboxInv, PublishedIsQueued, JobsCounted
  <2> QED BY <2>2, <2>3, <2>4 DEF OutboxInv
<1>2. CASE AddFails(p)
  <2>1. /\ e \in OutboxEvents /\ UNCHANGED outbox
        /\ Enqueue(e) \/ UNCHANGED <<queue, jobs>>
    BY <1>2 DEF AddFails, OutboxInv, AddedHasJob, e
  <2>2. JobsCounted' /\ \A x \in OutboxEvents : jobs'[x] >= jobs[x]
    <3>1. CASE Enqueue(e)
      BY <2>1, <3>1, EnqueueMakesOneJob DEF OutboxInv
    <3>2. CASE UNCHANGED <<queue, jobs>>
      BY <2>1, <3>2, JobsStay DEF OutboxInv, JobsCounted
    <3> QED BY <2>1, <3>1, <3>2
  <2>3. AddedHasJob'
    BY <1>2, <2>1, <2>2 DEF AddFails, OutboxInv, AddedHasJob, JobsCounted
  <2>4. PublishedIsQueued'
    BY <2>1, <2>2 DEF OutboxInv, PublishedIsQueued, JobsCounted
  <2> QED BY <2>2, <2>3, <2>4 DEF OutboxInv
<1> QED BY <1>1, <1>2

\* Whatever workers do with their claims, what is PUBLISHED has reached the queue, and
\* is not taken up again (publishBatch).
THEOREM OutboxHandsOverOnce ==
    OutboxInit /\ [][OutboxNext]_outboxVars => []PublishedIsQueued /\ PublishedForGood
<1>1. OutboxInit => OutboxInv
  <2> SUFFICES ASSUME OutboxInit PROVE OutboxInv
    OBVIOUS
  <2>1. JobsCounted
    BY DEF OutboxInit, JobsCounted
  <2>2. AddedHasJob
    BY DEF OutboxInit, AddedHasJob, PublisherIdle
  <2>3. PublishedIsQueued
    BY DEF OutboxInit, PublishedIsQueued
  <2> QED BY <2>1, <2>2, <2>3 DEF OutboxInv
<1>2. OutboxInv /\ [OutboxNext]_outboxVars => OutboxInv'
  <2> SUFFICES ASSUME OutboxInv, [OutboxNext]_outboxVars PROVE OutboxInv'
    OBVIOUS
  <2>1. ASSUME NEW e \in OutboxEvents, Append(e) \/ BecomesDue(e) PROVE OutboxInv'
    <3>1. UNCHANGED <<queue, jobs, publisher>>
      BY <2>1 DEF Append, BecomesDue
    <3>2. JobsCounted' /\ AddedHasJob'
      BY <2>1, <3>1, JobsStay DEF OutboxInv, AddedHasJob, Append, BecomesDue
    <3>3. PublishedIsQueued'
      BY <2>1, <3>1 DEF OutboxInv, AddedHasJob, PublishedIsQueued, Append, BecomesDue
    <3> QED BY <3>2, <3>3 DEF OutboxInv
  <2>2. ASSUME NEW e \in OutboxEvents, JobForgotten(e) PROVE OutboxInv'
    <3>1. JobsCounted'
      BY <2>2 DEF OutboxInv, JobsCounted, JobForgotten
    <3> QED BY <2>2, <3>1 DEF OutboxInv, AddedHasJob, PublishedIsQueued, JobForgotten
  <2>3. ASSUME NEW p \in Publishers, Poll(p) PROVE OutboxInv'
    <3>1. JobsCounted' /\ PublishedIsQueued'
      BY <2>3, JobsStay DEF Poll, OutboxInv, PublishedIsQueued
    <3> DEFINE found == {[event |-> e, status |-> outbox[e], moves |-> moves[e]] :
                           e \in {x \in OutboxEvents : Pollable(x)}}
    <3>2. \A seen \in found : seen.event \in OutboxEvents /\ seen.status # "PUBLISHED"
      BY DEF Pollable
    <3>3. publisher' = [publisher EXCEPT ![p].batch = found] /\ UNCHANGED jobs
          /\ UNCHANGED outbox
      BY <2>3 DEF Poll
    <3>4. publisher[p] = [batch |-> {}, stage |-> "idle", event |-> None]
      BY <2>3 DEF Poll, PublisherIdle
    <3> HIDE DEF found
    <3>5. AddedHasJob'
      BY <3>2, <3>3, <3>4 DEF OutboxInv, AddedHasJob
    <3> QED BY <3>1, <3>5 DEF OutboxInv
  <2>4. ASSUME NEW p \in Publishers, Claim(p) PROVE OutboxInv'
    <3>1. PICK seen \in publisher[p].batch :
            \/ /\ outbox' = [outbox EXCEPT ![seen.event] = "PROCESSING"]
               /\ publisher' = [publisher EXCEPT ![p] =
                    [batch |-> publisher[p].batch \ {seen}, stage |-> "claimed",
                     event |-> seen.event]]
            \/ /\ publisher' = [publisher EXCEPT ![p].batch = publisher[p].batch \ {seen}]
               /\ UNCHANGED outbox
      BY <2>4 DEF Claim
    <3>2. seen.event \in OutboxEvents
      BY DEF OutboxInv, AddedHasJob
    <3>3. UNCHANGED <<queue, jobs>>
      BY <2>4 DEF Claim
    <3>4. JobsCounted' /\ PublishedIsQueued'
      BY <3>1, <3>2, <3>3, JobsStay DEF OutboxInv, AddedHasJob, PublishedIsQueued
    <3>5. AddedHasJob'
      BY <3>1, <3>2, <3>3 DEF OutboxInv, AddedHasJob
    <3> QED BY <3>4, <3>5 DEF OutboxInv
  <2>5. ASSUME NEW p \in Publishers, Add(p) \/ AddFails(p) PROVE OutboxInv'
    BY <2>5, AddingKept
  <2>6. ASSUME NEW p \in Publishers, MarkPublished(p) PROVE OutboxInv'
    <3>1. JobsCounted' /\ UNCHANGED jobs
      BY <2>6, JobsStay DEF MarkPublished, OutboxInv
    <3>2. PublishedIsQueued'
      BY <2>6, <3>1 DEF MarkPublished, OutboxInv, PublishedIsQueued, AddedHasJob
    <3>3. DOMAIN outbox' = OutboxEvents /\ PublisherDone(p)
      BY <2>6 DEF MarkPublished, OutboxInv, AddedHasJob
    <3> DEFINE done == [batch |-> publisher[p].batch, stage |-> "idle", event |-> None]
    <3>4. publisher' = [publisher EXCEPT ![p] = done]
      BY <3>3, DoneRecord
    <3>5. /\ done.stage = "idle" /\ done.batch \subseteq publisher[p].batch
          /\ done = [batch |-> done.batch, stage |-> done.stage, event |-> done.event]
      OBVIOUS
    <3> HIDE DEF done
    <3>6. AddedHasJob'
      BY <3>1, <3>3, <3>4, <3>5, NothingInHand
    <3> QED BY <3>1, <3>2, <3>6 DEF OutboxInv
  <2>7. ASSUME NEW p \in Publishers, RecordFailure(p) PROVE OutboxInv'
    <3>1. JobsCounted' /\ UNCHANGED jobs
      BY <2>7, JobsStay DEF RecordFailure, OutboxInv
    <3>2. PublishedIsQueued'
      BY <2>7, <3>1 DEF RecordFailure, OutboxInv, PublishedIsQueued, AddedHasJob
    <3>3. DOMAIN outbox' = OutboxEvents /\ PublisherDone(p)
      BY <2>7 DEF RecordFailure, OutboxInv, AddedHasJob
    <3> DEFINE done == [batch |-> publisher[p].batch, stage |-> "idle", event |-> None]
    <3>4. publisher' = [publisher EXCEPT ![p] = done]
      BY <3>3, DoneRecord
    <3>5. /\ done.stage = "idle" /\ done.batch \subseteq publisher[p].batch
          /\ done = [batch |-> done.batch, stage |-> done.stage, event |-> done.event]
      OBVIOUS
    <3> HIDE DEF done
    <3>6. AddedHasJob'
      BY <3>1, <3>3, <3>4, <3>5, NothingInHand
    <3> QED BY <3>1, <3>2, <3>6 DEF OutboxInv
  <2>8. ASSUME NEW p \in Publishers, PublisherCrash(p) PROVE OutboxInv'
    <3>1. JobsCounted' /\ PublishedIsQueued'
      BY <2>8, JobsStay DEF PublisherCrash, OutboxInv, PublishedIsQueued
    <3>2. AddedHasJob'
      BY <2>8 DEF PublisherCrash, PublisherIdle, OutboxInv, AddedHasJob
    <3> QED BY <3>1, <3>2 DEF OutboxInv
  <2>9. CASE UNCHANGED outboxVars
    BY <2>9, JobsStay DEF outboxVars, OutboxInv, AddedHasJob, PublishedIsQueued
  <2> QED BY <2>1, <2>2, <2>3, <2>4, <2>5, <2>6, <2>7, <2>8, <2>9
             DEF OutboxNext, PublisherStep
<1>3. OutboxInv => PublishedIsQueued
  BY DEF OutboxInv
<1>4. ASSUME OutboxInv, [OutboxNext]_outboxVars
      PROVE  \A e \in OutboxEvents : outbox[e] = "PUBLISHED" => outbox'[e] = "PUBLISHED"
  <2> SUFFICES ASSUME NEW e \in OutboxEvents, outbox[e] = "PUBLISHED"
               PROVE  outbox'[e] = "PUBLISHED"
    OBVIOUS
  <2> USE <1>4 DEF OutboxInv, AddedHasJob
  <2>1. ASSUME NEW x \in OutboxEvents, Append(x) \/ BecomesDue(x) \/ JobForgotten(x)
        PROVE  outbox'[e] = "PUBLISHED"
    BY <2>1 DEF Append, BecomesDue, JobForgotten
  <2>2. ASSUME NEW p \in Publishers, Claim(p) PROVE outbox'[e] = "PUBLISHED"
    <3>1. PICK seen \in publisher[p].batch :
            \/ outbox[seen.event] = seen.status
                 /\ outbox' = [outbox EXCEPT ![seen.event] = "PROCESSING"]
            \/ UNCHANGED outbox
      BY <2>2 DEF Claim
    <3> QED BY <3>1
  <2>3. ASSUME NEW p \in Publishers, MarkPublished(p) \/ RecordFailure(p)
        PROVE  outbox'[e] = "PUBLISHED"
    BY <2>3 DEF MarkPublished, RecordFailure
  <2>4. ASSUME NEW p \in Publishers, Poll(p) \/ Add(p) \/ AddFails(p) \/ PublisherCrash(p)
        PROVE  outbox'[e] = "PUBLISHED"
    BY <2>4 DEF Poll, Add, AddFails, PublisherCrash
  <2>5. CASE UNCHANGED outboxVars
    BY <2>5 DEF outboxVars
  <2> QED BY <2>1, <2>2, <2>3, <2>4, <2>5 DEF OutboxNext, PublisherStep
<1> QED BY <1>1, <1>2, <1>3, <1>4, PTL DEF PublishedForGood
-----------------------------------------------------------------------------
(***************************************************************************)
(* The notice of a missed cutoff.                                          *)
(***************************************************************************)

SweeperTyped == DOMAIN cutoffSweeper = CutoffSweepers /\ notices \in Nat

\* Only workers that had looked before a notice was written repeat it, each of them
\* once, for any number of workers (sweep).
THEOREM CutoffReportedAgain == ConsolidationSpec => ReportedAgainOnlyInARace
<1> DEFINE Repeats ==
             notices > 0 =>
               /\ Reporting' \subseteq Reporting
               /\ notices' # notices =>
                     notices' = notices + 1 /\ \E w \in Reporting : Reporting' = Reporting \ {w}
<1>1. ConsolidationInit => SweeperTyped
  BY DEF ConsolidationInit, SweeperTyped
<1>2. ASSUME SweeperTyped, [ConsolidationNext]_consolidationVars PROVE SweeperTyped' /\ Repeats
  <2> USE <1>2 DEF SweeperTyped
  <2>1. CASE UNCHANGED <<notices, cutoffSweeper>>
    BY <2>1 DEF Reporting
  <2>2. ASSUME NEW w \in CutoffSweepers, CutoffLook(w) PROVE SweeperTyped' /\ Repeats
    BY <2>2 DEF CutoffLook, Unreported
  <2>3. ASSUME NEW w \in CutoffSweepers, CutoffReport(w) PROVE SweeperTyped' /\ Repeats
    <3>1. w \in Reporting /\ Reporting' = Reporting \ {w}
      BY <2>3 DEF CutoffReport, Reporting
    <3> QED BY <2>3, <3>1 DEF CutoffReport
  <2>4. ASSUME NEW c \in Planners,
               \/ \E b \in Members : AddMemberRead(c, b) \/ AddMember(c, b)
               \/ \E u \in Units : AddLoadRead(c, u) \/ AddLoad(c, u)
               \/ \E next \in {move[2] : move \in PlanMoves} :
                     TransitionPlanRead(c, next) \/ TransitionPlan(c, next)
        PROVE  UNCHANGED <<notices, cutoffSweeper>>
    BY <2>4 DEF AddMemberRead, AddMember, AddLoadRead, AddLoad, TransitionPlanRead,
                TransitionPlan, PlannerReads, PlannerWrites
  <2>5. ASSUME CutoffPasses \/ (\E u \in Units : FillUnit(u) \/ VerifyVgm(u))
        PROVE  UNCHANGED <<notices, cutoffSweeper>>
    BY <2>5 DEF CutoffPasses, FillUnit, VerifyVgm
  <2> HIDE DEF Repeats
  <2> QED BY <2>1, <2>2, <2>3, <2>4, <2>5 DEF ConsolidationNext, CutoffSweep, consolidationVars
<1> HIDE DEF Repeats
<1>3. ConsolidationSpec => [][Repeats]_consolidationVars
  BY <1>1, <1>2, PTL DEF ConsolidationSpec
<1>4. [][Repeats]_consolidationVars => ReportedAgainOnlyInARace
  BY PTL DEF Repeats, ReportedAgainOnlyInARace
<1> QED BY <1>3, <1>4

-----------------------------------------------------------------------------
(***************************************************************************)
(* The composition.                                                        *)
(***************************************************************************)

\* A behaviour of the composition is one of each component: of the one in focus, while
\* the others stand still.
LEMMA SafetyOfComponents ==
    Spec => /\ OutboxInit /\ [][OutboxNext]_outboxVars
            /\ ConsolidationSpec
<1>1. Init => OutboxInit /\ ConsolidationInit
  BY DEF Init
<1>2. [Next]_vars => [OutboxNext]_outboxVars /\ [ConsolidationNext]_consolidationVars
  <2> SUFFICES ASSUME [Next]_vars
               PROVE  [OutboxNext]_outboxVars /\ [ConsolidationNext]_consolidationVars
    OBVIOUS
  <2>1. CASE Next
    <3>1. OutboxNext \/ UNCHANGED outboxVars
      BY <2>1 DEF Next, BesidesPartner, BesidesEscrow, BesidesDispatch, BesidesConsolidation
    <3>2. ConsolidationNext \/ UNCHANGED consolidationVars
      BY <2>1 DEF Next, BesidesOutbox, BesidesPartner, BesidesEscrow, BesidesDispatch
    <3> QED BY <3>1, <3>2
  <2>2. CASE UNCHANGED vars
    BY <2>2 DEF vars
  <2> QED BY <2>1, <2>2
<1> QED BY <1>1, <1>2, PTL DEF Spec, ConsolidationSpec

\* However publishers crash or lose their claim, an event is neither marked before it
\* was handed over nor taken up again after, and a missed cutoff is reported again only
\* by workers that had looked before the first notice was there, for any number of
\* publishers and of workers (publishBatch, sweep).
THEOREM EventsNeitherLostNorRepeated == Spec => NeitherLostNorRepeated
BY SafetyOfComponents, OutboxHandsOverOnce, CutoffReportedAgain, PTL DEF NeitherLostNorRepeated
=============================================================================
