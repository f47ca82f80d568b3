----------------------------- MODULE Optimization -----------------------------
(***************************************************************************)
(* Optimization runs over one network model and the life of their          *)
(* recommendations (OptimizationRepository,                                *)
(* DeterministicOptimizerService.recommend).                               *)
(*                                                                         *)
(* Every decision reads the recommendation's status and then writes it by  *)
(* id, with an audit event in the transaction of the write.                *)
(***************************************************************************)
EXTENDS Naturals, FiniteSets, Sequences, Functions, Rows

CONSTANTS
    Inputs,           \* weights that a run may be asked for
    Lanes,            \* lanes of the network model
    LaneCapacity,     \* [Lanes -> Nat]
    MinimumCapacity,  \* constraints.minimumCapacity
    Score,            \* [Inputs -> [Lanes -> Nat]]: the weighted sum
    LaneOrder,        \* [Lanes -> Nat]: cost, names and place in the model, the order
                      \* of equal scores: Array.prototype.sort is stable
    Alternatives,     \* recommendations kept of a run, 5 in the code
    Approvers         \* concurrent HTTP requests

ASSUME OptimizationAssumption ==
    /\ Score \in [Inputs -> [Lanes -> Nat]] /\ LaneCapacity \in [Lanes -> Nat]
    /\ Alternatives \in Nat \ {0} /\ MinimumCapacity \in Nat /\ None \notin Inputs
    /\ IsFiniteSet(Lanes) /\ LaneOrder \in [Lanes -> Nat]
    /\ \A i \in Inputs : \A n, other \in Lanes :
          Score[i][n] = Score[i][other] /\ LaneOrder[n] = LaneOrder[other] => n = other

VARIABLES
    runs,           \* [Inputs -> Seq(Seq(Lanes))]: its OptimizationRun rows, each its plans by rank
    advice,         \* OptimizationRecommendation: status and whether approvedBy is set
    outcomes,       \* recommendations with an OptimizationOutcome
    trail,          \* optimization.* audit events of a recommendation, in commit order
    approver        \* what a caller has read and goes on to write

optimizationVars == <<runs, advice, outcomes, trail, approver>>

\* A recommendation is known by its input and rank.
Advice == Inputs \X (1..Alternatives)

ApproverIdle == [op |-> "idle", on |-> None]

OptimizationInit ==
    /\ runs = [i \in Inputs |-> <<>>]
    /\ advice = [x \in Advice |-> [status |-> "NONE", approved |-> FALSE]]
    /\ outcomes = {} /\ trail = [x \in Advice |-> <<>>]
    /\ approver = [c \in Approvers |-> ApproverIdle]

ApproverReads(c, op, x) ==
    /\ approver[c] = ApproverIdle
    /\ approver' = [approver EXCEPT ![c] = [op |-> op, on |-> x]]
    /\ UNCHANGED <<runs, advice, outcomes, trail>>

ApproverWrites(c, op, x) ==
    /\ approver[c] = [op |-> op, on |-> x]
    /\ approver' = [approver EXCEPT ![c] = ApproverIdle]

-----------------------------------------------------------------------------
(***************************************************************************)
(* A run.                                                                  *)
(***************************************************************************)

FeasibleLanes == {n \in Lanes : LaneCapacity[n] >= MinimumCapacity}

Precedes(i, n, other) ==
    \/ Score[i][n] < Score[i][other]
    \/ Score[i][n] = Score[i][other] /\ LaneOrder[n] < LaneOrder[other]

\* The place of a lane among the feasible ones, the best first.
Place(i, n) == Cardinality({other \in FeasibleLanes : Precedes(i, other, n)}) + 1

\* The feasible lanes by their place, cut to the number kept.
Ranked(i) ==
    [k \in 1..Alternatives \cap 1..Cardinality(FeasibleLanes) |->
        CHOOSE n \in FeasibleLanes : Place(i, n) = k]

\* A run of the same frozen input is answered as it is; one that recommends
\* nothing is refused.
RunRead(c, i) == runs[i] = <<>> /\ Ranked(i) # <<>> /\ ApproverReads(c, "run", i)

HashFree(i) == runs[i] = <<>>

\* The input's hash is unique; the second of two overlapping runs fails.
Run(c, i) ==
    /\ ApproverWrites(c, "run", i)
    /\ IF HashFree(i)
         THEN /\ runs' = [runs EXCEPT ![i] = Append(@, Ranked(i))]
              /\ advice' = [x \in Advice |->
                              IF x[1] = i /\ x[2] \in DOMAIN Ranked(i)
                                THEN [status |-> "PROPOSED", approved |-> FALSE] ELSE advice[x]]
         ELSE UNCHANGED <<runs, advice>>
    /\ UNCHANGED <<outcomes, trail>>

-----------------------------------------------------------------------------
(***************************************************************************)
(* A recommendation.                                                       *)
(***************************************************************************)

Executable(status) == status = "APPROVED"

\* Mutant: what was only approved may be rolled back.
RevertibleApproved(status) == status \in {"APPROVED", "EXECUTED"}

Revertible(status) == status = "EXECUTED"

AdviceRead(c, op, x) ==
    /\ CASE op \in {"approved", "rejected"} -> advice[x].status = "PROPOSED"
         [] op = "executed" -> Executable(advice[x].status)
         [] op = "rolled_back" -> Revertible(advice[x].status)
    /\ ApproverReads(c, op, x)

AdviceWritten(c, op, x, status, approved) ==
    /\ ApproverWrites(c, op, x)
    /\ advice' = [advice EXCEPT ![x] = [status |-> status, approved |-> approved]]
    /\ trail' = [trail EXCEPT ![x] = Append(@, op)]
    /\ UNCHANGED <<runs, outcomes>>

\* A decision that was overtaken by another, or by the execution, overwrites it.
Decide(c, x, approve) ==
    IF approve THEN AdviceWritten(c, "approved", x, "APPROVED", TRUE)
               ELSE AdviceWritten(c, "rejected", x, "REJECTED", FALSE)

Execute(c, x) == AdviceWritten(c, "executed", x, "EXECUTED", advice[x].approved)

Rollback(c, x) == AdviceWritten(c, "rolled_back", x, "ROLLED_BACK", advice[x].approved)

\* The read and the upsert are one step: an outcome stays, and depends on nothing
\* that changes in between but the status it was read under.
Outcome(x) ==
    /\ advice[x].status \in {"EXECUTED", "ROLLED_BACK"}
    /\ outcomes' = outcomes \cup {x}
    /\ UNCHANGED <<runs, advice, trail, approver>>

OptimizationNext ==
    \/ \E c \in Approvers, i \in Inputs : RunRead(c, i) \/ Run(c, i)
    \/ \E c \in Approvers, x \in Advice :
          \/ \E op \in {"approved", "rejected", "executed", "rolled_back"} : AdviceRead(c, op, x)
          \/ \E approve \in BOOLEAN : Decide(c, x, approve)
          \/ Execute(c, x) \/ Rollback(c, x)
    \/ \E x \in Advice : Outcome(x)

OptimizationSpec == OptimizationInit /\ [][OptimizationNext]_optimizationVars

-----------------------------------------------------------------------------
(***************************************************************************)
(* Properties.                                                             *)
(***************************************************************************)

\* A run keeps feasible lanes only, in order of score, and leaves out none that
\* is better than one it keeps (recommend).
KeepsTheBest ==
    \A i \in Inputs : \A k \in 1..Len(runs[i]) :
       LET kept == runs[i][k] IN
       \A r \in DOMAIN kept, n \in Lanes :
          /\ LaneCapacity[kept[r]] >= MinimumCapacity
          /\ LaneCapacity[n] >= MinimumCapacity /\ Score[i][n] < Score[i][kept[r]]
             => \E better \in 1..(r - 1) : kept[better] = n

Happened(x, op) == op \in Range(trail[x])

\* However decisions overlap, nothing is executed that was never approved, or
\* rolled back or measured that was never executed (execute, rollback, outcome).
TrailConnected ==
    \A x \in Advice :
       /\ \A k \in DOMAIN trail[x] :
             /\ trail[x][k] = "executed" => \E j \in 1..(k - 1) : trail[x][j] = "approved"
             /\ trail[x][k] = "rolled_back" => \E j \in 1..(k - 1) : trail[x][j] = "executed"
       /\ x \in outcomes => Happened(x, "executed")

\* A rollout stands without an approver only if a rejection overlapped its
\* approval (decide writes approvedBy by id).
UnsignedOnlyInARace ==
    \A x \in Advice :
       advice[x].status \in {"EXECUTED", "ROLLED_BACK"} /\ ~advice[x].approved
       => Happened(x, "rejected")

\* What is advised is the best there is, and what came of the advice is a
\* history of approvals (recommend, decide, execute, rollback, outcome).
AdviceSound == KeepsTheBest /\ TrailConnected /\ UnsignedOnlyInARace
=============================================================================
