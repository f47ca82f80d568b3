------------------------------- MODULE Dispatch -------------------------------
(***************************************************************************)
(* The transport of one freight booking: its legs, the assignment of a     *)
(* driver and a vehicle to each road leg, the driver's check-ins, the      *)
(* worker that opens exceptions for overdue ones, and proof of delivery.   *)
(*                                                                         *)
(* The handlers of FreightRepository check in plain reads and write in a   *)
(* later transaction by id.  A caller of this module has passed the checks *)
(* of op and goes on to write.  TransportOperationsSweeper runs in every   *)
(* worker process; its transaction reads from a snapshot and then writes.  *)
(***************************************************************************)
EXTENDS Naturals, FiniteSets, Rows

CONSTANTS
    Legs,           \* road legs that may be planned, one assignment each
    Drivers, Vehicles,
    CheckIns,       \* external keys of check-ins; bound: each is used once
    Dispatchers,    \* concurrent HTTP requests of staff
    Duty,           \* [Dispatchers -> SUBSET Operations]; bound: what each requests
    Sweeping        \* worker processes

Operations == {"leg", "assign", "start", "COMPLETED", "CANCELLED",
               "checkin", "proof", "complete"}

ASSUME DispatchAssumption ==
    /\ Duty \in [Dispatchers -> SUBSET Operations]
    /\ Drivers \cap Vehicles = {}
    /\ None \notin Legs

VARIABLES
    transport,    \* FreightBooking.status, from CONFIRMED on
    leg,          \* TransportLeg.status, "NONE" before the row exists
    assignment,   \* DispatchAssignment.status of each leg, "NONE" before
    crew,         \* its driver and vehicle
    engaged,      \* the drivers and vehicles whose status is ASSIGNED
    overdue,      \* assignments whose nextCheckInAt is past
    reported,     \* check-ins stored
    overdueOpen,  \* OPEN exceptions CHECK_IN_OVERDUE of each assignment
    proof,        \* is there a ProofOfDelivery?
    desk,         \* what a caller has checked and goes on to write
    worker        \* rows a worker still has to look at, and the row it handles

bookingVars == <<transport, leg, proof>>
assignmentVars == <<assignment, crew, engaged>>
checkInVars == <<overdue, reported, overdueOpen>>
dispatchVars == <<bookingVars, assignmentVars, checkInVars, desk, worker>>

DeskIdle == [op |-> "idle", about |-> None, crew |-> {}]
WorkerIdle == [legs |-> {}, at |-> None]

DispatchInit ==
    /\ transport = "CONFIRMED" /\ proof = FALSE
    /\ leg = [l \in Legs |-> "NONE"]
    /\ assignment = [l \in Legs |-> "NONE"] /\ crew = [l \in Legs |-> {}]
    /\ engaged = {}
    /\ overdue = {} /\ reported = {}
    /\ overdueOpen = [l \in Legs |-> 0]
    /\ desk = [c \in Dispatchers |-> DeskIdle]
    /\ worker = [w \in Sweeping |-> WorkerIdle]

Requires(c, op, x, team) ==
    /\ desk[c] = DeskIdle /\ op \in Duty[c]
    /\ desk' = [desk EXCEPT ![c] = [op |-> op, about |-> x, crew |-> team]]
    /\ UNCHANGED <<bookingVars, assignmentVars, checkInVars, worker>>

Writes(c, op, x) ==
    /\ desk[c].op = op /\ desk[c].about = x
    /\ desk' = [desk EXCEPT ![c] = DeskIdle]

-----------------------------------------------------------------------------
(***************************************************************************)
(* Planning and assignment.                                                *)
(***************************************************************************)
AddLegCheck(c, l) ==
    transport \in {"CONFIRMED", "PLANNED"} /\ Requires(c, "leg", l, {})

\* The sequence number of a leg is unique within the booking.
AddLeg(c, l) ==
    /\ Writes(c, "leg", l)
    /\ IF leg[l] = "NONE"
         THEN leg' = [leg EXCEPT ![l] = "PLANNED"] /\ transport' = "PLANNED"
         ELSE UNCHANGED <<leg, transport>>
    /\ UNCHANGED <<proof, assignmentVars, checkInVars, worker>>

AssignCheck(c, l) ==
    \E d \in Drivers \ engaged, v \in Vehicles \ engaged :
        leg[l] # "NONE" /\ Requires(c, "assign", l, {d, v})

\* One assignment for a leg; neither leg, driver nor vehicle is looked at again.
Assign(c, l) ==
    /\ Writes(c, "assign", l)
    /\ IF assignment[l] = "NONE"
         THEN /\ assignment' = [assignment EXCEPT ![l] = "ASSIGNED"]
              /\ crew' = [crew EXCEPT ![l] = desk[c].crew]
              /\ engaged' = engaged \cup desk[c].crew
         ELSE UNCHANGED assignmentVars
    /\ UNCHANGED <<bookingVars, checkInVars, worker>>

StartCheck(c, l) == assignment[l] = "ASSIGNED" /\ Requires(c, "start", l, {})

Start(c, l) ==
    /\ Writes(c, "start", l)
    /\ assignment' = [assignment EXCEPT ![l] = "IN_TRANSIT"]
    /\ overdue' = overdue \ {l}
    /\ leg' = [leg EXCEPT ![l] = "IN_TRANSIT"]
    /\ transport' = "IN_TRANSIT"
    /\ UNCHANGED <<proof, crew, engaged, reported, overdueOpen, worker>>

FinishCheck(c, l) ==
    /\ assignment[l] \in {"ASSIGNED", "IN_TRANSIT"}
    /\ \E op \in {"COMPLETED", "CANCELLED"} : Requires(c, op, l, {})

\* Mutant: only a completed assignment gives its crew back.
FinishKeeping(c, l) ==
    \E op \in {"COMPLETED", "CANCELLED"} :
        /\ Writes(c, op, l)
        /\ assignment' = [assignment EXCEPT ![l] = op]
        /\ overdue' = overdue \ {l}
        /\ engaged' = IF op = "COMPLETED" THEN engaged \ crew[l] ELSE engaged
        /\ leg' = [leg EXCEPT ![l] = op]
        /\ UNCHANGED <<transport, proof, crew, reported, overdueOpen, worker>>

\* COMPLETE and CANCEL: assignment, driver, vehicle and leg.
FinishAssignment(c, l) ==
    \E op \in {"COMPLETED", "CANCELLED"} :
        /\ Writes(c, op, l)
        /\ assignment' = [assignment EXCEPT ![l] = op]
        /\ overdue' = overdue \ {l}
        /\ engaged' = engaged \ crew[l]
        /\ leg' = [leg EXCEPT ![l] = op]
        /\ UNCHANGED <<transport, proof, crew, reported, overdueOpen, worker>>

-----------------------------------------------------------------------------
(***************************************************************************)
(* Check-ins and delivery.                                                 *)
(***************************************************************************)
CheckInCheck(c, l, k) ==
    /\ assignment[l] = "IN_TRANSIT" /\ <<l, k>> \notin reported
    /\ Requires(c, "checkin", <<l, k>>, {})

\* A check-in sets the next one and resolves every open overdue exception; the
\* exception a reported delay opens, which no code reads, is left out.  The key
\* is unique.
CheckIn(c, l, k) ==
    /\ Writes(c, "checkin", <<l, k>>)
    /\ IF <<l, k>> \notin reported
         THEN /\ reported' = reported \cup {<<l, k>>}
              /\ overdue' = overdue \ {l}
              /\ overdueOpen' = [overdueOpen EXCEPT ![l] = 0]
         ELSE UNCHANGED checkInVars
    /\ UNCHANGED <<bookingVars, assignmentVars, worker>>

\* nextCheckInAt passes.
CheckInDue(l) ==
    /\ assignment[l] = "IN_TRANSIT" /\ l \notin overdue
    /\ overdue' = overdue \cup {l}
    /\ UNCHANGED <<reported, overdueOpen, bookingVars, assignmentVars,
                   desk, worker>>

ProofCheck(c) ==
    transport \in {"DISPATCHED", "IN_TRANSIT", "EXCEPTION"} /\ Requires(c, "proof", None, {})

\* A booking has one proof of delivery.
ProofOfDelivery(c) ==
    /\ Writes(c, "proof", None)
    /\ IF ~proof
         THEN proof' = TRUE /\ transport' = "DELIVERED"
         ELSE UNCHANGED <<proof, transport>>
    /\ UNCHANGED <<leg, assignmentVars, checkInVars, worker>>

CompleteCheck(c) == transport = "DELIVERED" /\ Requires(c, "complete", None, {})

CompleteBooking(c) ==
    /\ Writes(c, "complete", None)
    /\ transport' = "COMPLETED"
    /\ UNCHANGED <<leg, proof, assignmentVars, checkInVars, worker>>

-----------------------------------------------------------------------------
(***************************************************************************)
(* TransportOperationsSweeper.                                             *)
(***************************************************************************)
Late == {l \in overdue : assignment[l] = "IN_TRANSIT"}
Sweeps(w, to) == worker' = [worker EXCEPT ![w] = to]

\* A run finds the overdue assignments.
SweepStart(w) ==
    /\ worker[w] = WorkerIdle
    /\ Late # {}
    /\ Sweeps(w, [WorkerIdle EXCEPT !.legs = Late])
    /\ UNCHANGED <<bookingVars, assignmentVars, checkInVars, desk>>

\* Mutant: assignments that already had an exception are not looked at.
SweepLookOnce(w, l) ==
    /\ l \in worker[w].legs /\ worker[w].at = None
    /\ Sweeps(w, [worker[w] EXCEPT !.legs = @ \ {l},
                                   !.at = IF overdueOpen[l] = 0 /\ reported = {} THEN l ELSE None])
    /\ UNCHANGED <<bookingVars, assignmentVars, checkInVars, desk>>

\* The snapshot of a transaction: is an overdue exception open?
SweepLook(w, l) ==
    /\ l \in worker[w].legs /\ worker[w].at = None
    /\ Sweeps(w, [worker[w] EXCEPT !.legs = @ \ {l},
                                   !.at = IF overdueOpen[l] = 0 THEN l ELSE None])
    /\ UNCHANGED <<bookingVars, assignmentVars, checkInVars, desk>>

\* Its writes.
SweepOpen(w, l) ==
    /\ worker[w].at = l
    /\ overdueOpen' = [overdueOpen EXCEPT ![l] = @ + 1]
    /\ transport' = IF transport = "IN_TRANSIT" THEN "EXCEPTION" ELSE transport
    /\ Sweeps(w, [worker[w] EXCEPT !.at = None])
    /\ UNCHANGED <<leg, proof, assignmentVars, overdue, reported, desk>>

SweeperStep(w) ==
    \/ SweepStart(w)
    \/ \E l \in Legs : SweepLook(w, l) \/ SweepOpen(w, l)

DeskStep(c) ==
    \/ \E l \in Legs :
         \/ AddLegCheck(c, l) \/ AddLeg(c, l)
         \/ AssignCheck(c, l) \/ Assign(c, l)
         \/ StartCheck(c, l)  \/ Start(c, l)
         \/ FinishCheck(c, l) \/ FinishAssignment(c, l)
         \/ \E k \in CheckIns : CheckInCheck(c, l, k) \/ CheckIn(c, l, k)
    \/ ProofCheck(c) \/ ProofOfDelivery(c)
    \/ CompleteCheck(c) \/ CompleteBooking(c)

DispatchNext ==
    \/ \E c \in Dispatchers : DeskStep(c)
    \/ \E w \in Sweeping : SweeperStep(w)
    \/ \E l \in Legs : CheckInDue(l)

DispatchSpec == DispatchInit /\ [][DispatchNext]_dispatchVars

-----------------------------------------------------------------------------
(***************************************************************************)
(* Properties.                                                             *)
(***************************************************************************)

\* However assignments, starts, completions and cancellations overlap, no
\* driver or vehicle stays ASSIGNED without an assignment that is not over
\* (assign, transitionAssignment).
NobodyStranded ==
    \A x \in engaged : \E l \in Legs :
        x \in crew[l] /\ assignment[l] \in {"ASSIGNED", "IN_TRANSIT"}

\* A booking is DELIVERED or COMPLETED only with a proof of delivery
\* (proofOfDelivery, completeBooking).
CompletedIsProven == transport \in {"DELIVERED", "COMPLETED"} => proof

\* At every moment the crew that is ASSIGNED and the proof of delivery bear out
\* what the booking says (assign, transitionAssignment, completeBooking).
TransportProven == NobodyStranded /\ CompletedIsProven

\* An overdue driver is noticed: unless he reports or the assignment ends, an
\* exception is opened (sweep).
OverdueNoticed ==
    \A l \in Legs : l \in Late ~> overdueOpen[l] > 0 \/ l \notin Late
=============================================================================
