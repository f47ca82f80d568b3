----------------------------- MODULE Consolidation -----------------------------
(***************************************************************************)
(* One sea consolidation plan: the bookings that become its members, the   *)
(* containers filled, weighed and loaded on it, its status and the         *)
(* sweeper's notice of a missed cutoff                                     *)
(* (InternationalLogisticsRepository, TransportOperationsSweeper).         *)
(*                                                                         *)
(* Capacity, loads and status are checked on reads before the write;       *)
(* only the plan's own transitions compare its version.                    *)
(***************************************************************************)
EXTENDS Naturals, FiniteSets, FiniteSetsExt, Rows

CONSTANTS
    Members,         \* bookings that may join the plan
    Weight,          \* [Members -> Nat]: allocatedWeightGrams
    MaxWeight,       \* maxWeightGrams of the plan
    Units,           \* handling units of type CONTAINER
    Planners,        \* concurrent HTTP requests
    CutoffSweepers,  \* worker processes
    MaxMoves         \* bound on the plan's version

ASSUME ConsolidationAssumption ==
    /\ Weight \in [Members -> Nat] /\ MaxWeight \in Nat
    /\ MaxMoves \in Nat /\ None \notin Members \cup Units

VARIABLES
    plan,           \* ConsolidationPlan: status and version
    cutoffOver,     \* cutoffAt has passed
    members,        \* ConsolidationMember rows
    loads,          \* ConsolidationLoad.status, "NONE" before the row exists
    filled,         \* units with HandlingUnitContent rows
    weighed,        \* units with verifiedGrossMassGrams
    notices,        \* consolidation.cutoff.missed.v1 events in the outbox
    planner,        \* what a caller has read and goes on to write
    cutoffSweeper   \* "idle" or "found": the sweeper saw no notice

consolidationVars == <<plan, cutoffOver, members, loads, filled, weighed, notices,
                       planner, cutoffSweeper>>

NoPlan == [status |-> "NONE", version |-> 0]
PlannerIdle == [op |-> "idle", on |-> None, plan |-> NoPlan, rows |-> {}]

ConsolidationInit ==
    /\ plan = [status |-> "DRAFT", version |-> 1] /\ cutoffOver = FALSE
    /\ members = {} /\ loads = [u \in Units |-> "NONE"]
    /\ filled = {} /\ weighed = {} /\ notices = 0
    /\ planner = [c \in Planners |-> PlannerIdle]
    /\ cutoffSweeper = [w \in CutoffSweepers |-> "idle"]

\* rows: the members or loads the request has read.
PlannerReads(c, op, x, rows) ==
    /\ planner[c] = PlannerIdle
    /\ planner' = [planner EXCEPT ![c] = [op |-> op, on |-> x, plan |-> plan, rows |-> rows]]
    /\ UNCHANGED <<plan, cutoffOver, members, loads, filled, weighed, notices, cutoffSweeper>>

PlannerWrites(c, op, x) ==
    /\ planner[c].op = op /\ planner[c].on = x
    /\ planner' = [planner EXCEPT ![c] = PlannerIdle]
    /\ UNCHANGED <<cutoffOver, filled, weighed, notices, cutoffSweeper>>

-----------------------------------------------------------------------------
(***************************************************************************)
(* Filling and weighing a unit.                                            *)
(***************************************************************************)

FillUnit(u) ==
    /\ u \notin filled
    /\ filled' = filled \cup {u}
    /\ UNCHANGED <<plan, cutoffOver, members, loads, weighed, notices, planner, cutoffSweeper>>

VerifyVgm(u) ==
    /\ u \notin weighed
    /\ weighed' = weighed \cup {u}
    /\ UNCHANGED <<plan, cutoffOver, members, loads, filled, notices, planner, cutoffSweeper>>

-----------------------------------------------------------------------------
(***************************************************************************)
(* Members, loads and the plan's status.                                   *)
(***************************************************************************)

TotalWeight(rows) == MapThenSumSet(LAMBDA r : Weight[r], rows)

CapacityLeft(rows, b) == TotalWeight(rows \cup {b}) <= MaxWeight

AddMemberRead(c, b) ==
    /\ b \notin members /\ plan.status \in {"DRAFT", "OPEN"} /\ ~cutoffOver
    /\ CapacityLeft(members, b)
    /\ PlannerReads(c, "member", b, members)

\* A booking is a member once; the plan is opened if it was read as a DRAFT.
AddMember(c, b) ==
    /\ PlannerWrites(c, "member", b)
    /\ IF b \in members
         THEN UNCHANGED <<plan, members>>
         ELSE /\ members' = members \cup {b}
              /\ plan' = IF planner[c].plan.status = "DRAFT"
                           THEN [status |-> "OPEN", version |-> plan.version + 1] ELSE plan
    /\ UNCHANGED <<loads>>

AddLoadRead(c, u) ==
    /\ plan.status \in {"OPEN", "CLOSED"} /\ u \in filled
    /\ PlannerReads(c, "load", u, {})

AddLoad(c, u) ==
    /\ PlannerWrites(c, "load", u)
    /\ loads' = [loads EXCEPT ![u] = IF @ = "NONE" THEN "PLANNED" ELSE @]
    /\ UNCHANGED <<plan, members>>

PlanMoves ==
    {<<"DRAFT", "OPEN">>, <<"DRAFT", "CANCELLED">>,
     <<"OPEN", "CLOSED">>, <<"OPEN", "CANCELLED">>,
     <<"CLOSED", "LOADED">>, <<"CLOSED", "OPEN">>,
     <<"LOADED", "DEPARTED">>, <<"LOADED", "CLOSED">>,
     <<"DEPARTED", "ARRIVED">>, <<"DEPARTED", "EXCEPTION">>,
     <<"EXCEPTION", "DEPARTED">>, <<"EXCEPTION", "ARRIVED">>, <<"EXCEPTION", "CANCELLED">>,
     <<"ARRIVED", "DECONSOLIDATED">>, <<"DECONSOLIDATED", "COMPLETED">>}

Loaded == {u \in Units : loads[u] # "NONE"}

Ready(next) ==
    /\ next = "CLOSED" => members # {}
    /\ next = "LOADED" => Loaded # {} /\ Loaded \subseteq weighed

TransitionPlanRead(c, next) ==
    /\ <<plan.status, next>> \in PlanMoves /\ plan.version < MaxMoves
    /\ Ready(next)
    /\ PlannerReads(c, "move", next, Loaded)

PlanClaimed(c) == plan.version = planner[c].plan.version

\* All loads of the plan are marked, also those added since the check.
TransitionPlan(c, next) ==
    /\ PlannerWrites(c, "move", next)
    /\ IF PlanClaimed(c)
         THEN /\ plan' = [status |-> next, version |-> plan.version + 1]
              /\ loads' = [u \in Units |->
                    IF u \notin Loaded \/ next \notin {"LOADED", "DECONSOLIDATED"} THEN loads[u]
                    ELSE IF next = "LOADED" THEN "LOADED" ELSE "UNLOADED"]
         ELSE UNCHANGED <<plan, loads>>
    /\ UNCHANGED <<members>>

-----------------------------------------------------------------------------
(***************************************************************************)
(* The cutoff and the sweeper that reports it.                             *)
(***************************************************************************)

CutoffPasses ==
    /\ ~cutoffOver /\ cutoffOver' = TRUE
    /\ UNCHANGED <<plan, members, loads, filled, weighed, notices, planner,
                   cutoffSweeper>>

Missed == plan.status \in {"DRAFT", "OPEN"} /\ cutoffOver

Unreported == notices = 0

CutoffLook(w) ==
    /\ cutoffSweeper[w] = "idle" /\ Missed /\ Unreported
    /\ cutoffSweeper' = [cutoffSweeper EXCEPT ![w] = "found"]
    /\ UNCHANGED <<plan, cutoffOver, members, loads, filled, weighed, notices, planner>>

CutoffReport(w) ==
    /\ cutoffSweeper[w] = "found"
    /\ cutoffSweeper' = [cutoffSweeper EXCEPT ![w] = "idle"]
    /\ notices' = notices + 1
    /\ UNCHANGED <<plan, cutoffOver, members, loads, filled, weighed, planner>>

CutoffSweep(w) == CutoffLook(w) \/ CutoffReport(w)

ConsolidationNext ==
    \/ CutoffPasses \/ (\E w \in CutoffSweepers : CutoffSweep(w))
    \/ \E u \in Units : FillUnit(u) \/ VerifyVgm(u)
    \/ \E c \in Planners :
          \/ \E b \in Members : AddMemberRead(c, b) \/ AddMember(c, b)
          \/ \E u \in Units : AddLoadRead(c, u) \/ AddLoad(c, u)
          \/ \E next \in {move[2] : move \in PlanMoves} :
                TransitionPlanRead(c, next) \/ TransitionPlan(c, next)

ConsolidationSpec == ConsolidationInit /\ [][ConsolidationNext]_consolidationVars

-----------------------------------------------------------------------------
(***************************************************************************)
(* Properties.                                                             *)
(***************************************************************************)

\* The plan is overbooked only by a request that did not see a member another
\* request added meanwhile (addConsolidationMember, assertCapacity).
OverbookedOnlyInARace ==
    [][(TotalWeight(members) <= MaxWeight /\ ~(TotalWeight(members') <= MaxWeight))
       => \E c \in Planners : planner[c].op = "member" /\ planner[c].rows # members
      ]_consolidationVars

\* "Sea containers require verified gross mass before loading"
\* (transitionConsolidation): one without is marked LOADED only when it was
\* added to the plan between the check and the write.
UnweighedLoadedOnlyInARace ==
    [][\A u \in Units :
         (loads[u] # "LOADED" /\ loads'[u] = "LOADED" /\ u \notin weighed) =>
            \E c \in Planners : planner[c].op = "move" /\ u \notin planner[c].rows
      ]_consolidationVars

\* A departed plan goes back to OPEN only by the write of a request that read it
\* as a DRAFT, however transitions overlap (addConsolidationMember,
\* transitionConsolidation).
DepartedReopenedOnlyByAMember ==
    [][(plan.status \in {"DEPARTED", "ARRIVED"} /\ plan'.status = "OPEN") =>
          \E c \in Planners : planner[c].op = "member" /\ planner[c].plan.status = "DRAFT"
      ]_consolidationVars

Reporting == {w \in CutoffSweepers : cutoffSweeper[w] = "found"}

\* Once a missed cutoff is reported no worker sets out to report it again; another
\* notice is the write of a worker that had looked before the first one was
\* there, and each of those writes one (sweep).
ReportedAgainOnlyInARace ==
    [][notices > 0 =>
          /\ Reporting' \subseteq Reporting
          /\ notices' # notices =>
                notices' = notices + 1 /\ \E w \in Reporting : Reporting' = Reporting \ {w}
      ]_consolidationVars

\* A plan still open after its cutoff is reported in the end (sweep).
MissedCutoffReported == Missed ~> (notices > 0 \/ ~Missed)
=============================================================================
