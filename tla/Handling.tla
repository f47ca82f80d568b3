------------------------------- MODULE Handling -------------------------------
(***************************************************************************)
(* What packs and carries freight (InternationalLogisticsRepository):      *)
(* handling units, and the linehauls and postal consignments.  The two     *)
(* share no row.                                                           *)
(***************************************************************************)
EXTENDS Naturals, FiniteSets, Rows

-----------------------------------------------------------------------------
(***************************************************************************)
(* Handling units: one cargo item packed into them and the events that     *)
(* move them (InternationalLogisticsRepository).                           *)
(*                                                                         *)
(* Packing is checked on a read before the write; an event is unique in    *)
(* its unit and external key.                                              *)
(***************************************************************************)
CONSTANTS
    Packings,        \* requests to pack a part of the cargo item
    Packages,        \* [Packings -> Nat]: packageCount
    CargoPackages,   \* packageCount of the cargo item
    HandlingUnits,
    HandlingEvents,  \* requests that record an event
    EventUnit,       \* [HandlingEvents -> HandlingUnits]
    HandlingKey,     \* [HandlingEvents -> externalKey]
    EventStatus,     \* [HandlingEvents -> status the event's type sets]
    Handlers         \* concurrent HTTP requests

ASSUME HandlingAssumption ==
    /\ Packages \in [Packings -> Nat] /\ CargoPackages \in Nat
    /\ EventUnit \in [HandlingEvents -> HandlingUnits]
    /\ DOMAIN HandlingKey = HandlingEvents /\ DOMAIN EventStatus = HandlingEvents
    /\ None \notin Packings \cup HandlingEvents

VARIABLES
    packed,      \* HandlingUnitContent rows
    recorded,    \* HandlingEvent rows
    unitStatus,  \* HandlingUnit.status
    unitVersion, \* HandlingUnit.version
    handler      \* what a caller has read and goes on to write

handlingVars == <<packed, recorded, unitStatus, unitVersion, handler>>

HandlerIdle == [op |-> "idle", on |-> None, rows |-> {}]

HandlingInit ==
    /\ packed = {} /\ recorded = {}
    /\ unitStatus = [u \in HandlingUnits |-> "CREATED"]
    /\ unitVersion = [u \in HandlingUnits |-> 1]
    /\ handler = [c \in Handlers |-> HandlerIdle]

HandlerReads(c, op, x, rows) ==
    /\ handler[c] = HandlerIdle
    /\ handler' = [handler EXCEPT ![c] = [op |-> op, on |-> x, rows |-> rows]]
    /\ UNCHANGED <<packed, recorded, unitStatus, unitVersion>>

HandlerWrites(c, op, x) ==
    /\ handler[c].op = op /\ handler[c].on = x
    /\ handler' = [handler EXCEPT ![c] = HandlerIdle]

-----------------------------------------------------------------------------
\* The packages of some contents, one by one, and how many they are.
Parcels(rows) == UNION {{k} \X (1..Packages[k]) : k \in rows}
PackagesIn(rows) == Cardinality(Parcels(rows))

Packs(rows, k) == PackagesIn(rows) + Packages[k] <= CargoPackages

AddContentRead(c, k) ==
    k \notin packed /\ Packs(packed, k) /\ HandlerReads(c, "content", k, packed)

AddContent(c, k) ==
    /\ HandlerWrites(c, "content", k)
    /\ packed' = packed \cup {k}
    /\ UNCHANGED <<recorded, unitStatus, unitVersion>>

-----------------------------------------------------------------------------
SameEvent(e, r) == EventUnit[r] = EventUnit[e] /\ HandlingKey[r] = HandlingKey[e]

\* The transaction looks for the event first; one it finds is the answer.
HandlingEventRead(c, e) ==
    (\A r \in recorded : ~SameEvent(e, r)) /\ HandlerReads(c, "event", e, {})

\* Mutant: the key is not unique.
EventInsertableAlways(e) == TRUE

EventInsertable(e) == \A r \in recorded : ~SameEvent(e, r)

RecordHandlingEvent(c, e) ==
    /\ HandlerWrites(c, "event", e)
    /\ IF EventInsertable(e)
         THEN /\ recorded' = recorded \cup {e}
              /\ unitStatus' = [unitStatus EXCEPT ![EventUnit[e]] = EventStatus[e]]
              /\ unitVersion' = [unitVersion EXCEPT ![EventUnit[e]] = @ + 1]
         ELSE UNCHANGED <<recorded, unitStatus, unitVersion>>
    /\ UNCHANGED packed

HandlingNext ==
    \E c \in Handlers :
       \/ \E k \in Packings : AddContentRead(c, k) \/ AddContent(c, k)
       \/ \E e \in HandlingEvents : HandlingEventRead(c, e) \/ RecordHandlingEvent(c, e)

HandlingSpec == HandlingInit /\ [][HandlingNext]_handlingVars

-----------------------------------------------------------------------------
(***************************************************************************)
(* Properties.                                                             *)
(***************************************************************************)

\* More of a cargo item is packed than there is only by a request that did not
\* see what another one packed meanwhile (addHandlingContent).
OverpackedOnlyInARace ==
    [][(PackagesIn(packed) <= CargoPackages /\ PackagesIn(packed') > CargoPackages)
       => \E c \in Handlers : handler[c].op = "content" /\ handler[c].rows # packed
      ]_handlingVars

\* However often an event is sent under one key, also at once, it moved its unit
\* once (recordHandlingEvent and the unique key).
HandledOnce ==
    \A u \in HandlingUnits :
       unitVersion[u] =
          1 + Cardinality({HandlingKey[e] : e \in {h \in recorded : EventUnit[h] = u}})

-----------------------------------------------------------------------------
(***************************************************************************)
(* Linehauls and the consolidation plans they carry, postal consignments   *)
(* and the receptacles they carry (InternationalLogisticsRepository:       *)
(* createLinehaul, allocateLinehaul, createPostalConsignment,              *)
(* addReceptacleToConsignment).                                            *)
(*                                                                         *)
(* The capacity left is summed on a read before the allocation is          *)
(* inserted; nothing locks the linehaul.  Mode and route never change.     *)
(***************************************************************************)
CONSTANTS
    Linehauls,        \* linehauls that may be scheduled
    LinehaulPlans,    \* consolidation plans
    Mode,             \* [Linehauls \cup LinehaulPlans -> transport mode]
    LinehaulWeight,   \* maxWeightGrams of a linehaul; volumes are unlimited
    PlanWeight,       \* [LinehaulPlans -> Nat]: allocatedWeightGrams
    PostalRuns,       \* postal consignments that may be created
    PostalReceptacles, \* postal receptacles
    PostalRoute,      \* [PostalRuns \cup PostalReceptacles -> origin and destination]
    PositionOf,       \* [PostalReceptacles -> sequence], the place asked for
    Allocators        \* concurrent HTTP requests

ASSUME LinehaulAssumption ==
    /\ None \notin Linehauls
    /\ LinehaulWeight \in Nat /\ PlanWeight \in [LinehaulPlans -> Nat]

VARIABLES
    linehauls,      \* InternationalLinehaul rows; nothing moves them from SCHEDULED
    allocated,      \* InternationalLinehaulAllocation rows
    postalRuns,     \* PostalConsignment rows
    carried,        \* PostalConsignmentReceptacle rows
    allocator       \* what a caller has read and goes on to write

linehaulVars == <<linehauls, allocated, postalRuns, carried, allocator>>

AllocatorIdle == [linehaul |-> None, plan |-> None, rows |-> {}]

LinehaulInit ==
    /\ linehauls = {} /\ allocated = {} /\ postalRuns = {} /\ carried = {}
    /\ allocator = [c \in Allocators |-> AllocatorIdle]

CreateLinehaul(h) ==
    /\ h \notin linehauls
    /\ linehauls' = linehauls \cup {h}
    /\ UNCHANGED <<allocated, postalRuns, carried, allocator>>

Carries(rows, h) == {r \in rows : r[1] = h}

\* The grams of some allocations, and how many they are.
Grams(rows) == UNION {{r} \X (1..PlanWeight[r[2]]) : r \in rows}
WeightOf(rows) == Cardinality(Grams(rows))

\* Mutant: the capacity is held against the plan alone.
WeightLeftAlone(rows, h, p) == PlanWeight[p] <= LinehaulWeight

WeightLeft(rows, h, p) == WeightOf(Carries(rows, h)) + PlanWeight[p] <= LinehaulWeight

AllocateLinehaulRead(c, h, p) ==
    /\ allocator[c] = AllocatorIdle
    /\ h \in linehauls /\ Mode[h] = Mode[p] /\ WeightLeft(allocated, h, p)
    /\ allocator' = [allocator EXCEPT ![c] = [linehaul |-> h, plan |-> p, rows |-> allocated]]
    /\ UNCHANGED <<linehauls, allocated, postalRuns, carried>>

\* A plan is allocated to a linehaul once. The plan may go on several linehauls:
\* neither its status nor its other allocations are looked at.
AllocateLinehaul(c, h, p) ==
    /\ allocator[c].linehaul = h /\ allocator[c].plan = p
    /\ allocator' = [allocator EXCEPT ![c] = AllocatorIdle]
    /\ allocated' = allocated \cup {<<h, p>>}
    /\ UNCHANGED <<linehauls, postalRuns, carried>>

CreatePostalConsignment(g) ==
    /\ g \notin postalRuns
    /\ postalRuns' = postalRuns \cup {g}
    /\ UNCHANGED <<linehauls, allocated, carried, allocator>>

\* The receptacle is in the consignment once, and so is its sequence.
PlaceFree(g, r) == \A other \in PostalReceptacles : <<g, other>> \in carried =>
                      other # r /\ PositionOf[other] # PositionOf[r]

\* The receptacle's status is not looked at, nor its other consignments.
AddReceptacleToConsignment(g, r) ==
    /\ g \in postalRuns /\ PostalRoute[g] = PostalRoute[r] /\ PlaceFree(g, r)
    /\ carried' = carried \cup {<<g, r>>}
    /\ UNCHANGED <<linehauls, allocated, postalRuns, allocator>>

LinehaulNext ==
    \/ \E h \in Linehauls : CreateLinehaul(h)
    \/ \E c \in Allocators, h \in Linehauls, p \in LinehaulPlans :
          AllocateLinehaulRead(c, h, p) \/ AllocateLinehaul(c, h, p)
    \/ \E g \in PostalRuns : CreatePostalConsignment(g)
    \/ \E g \in PostalRuns, r \in PostalReceptacles : AddReceptacleToConsignment(g, r)

LinehaulSpec == LinehaulInit /\ [][LinehaulNext]_linehaulVars

-----------------------------------------------------------------------------
(***************************************************************************)
(* Properties.                                                             *)
(***************************************************************************)

\* An allocation overloads its linehaul only if another one was inserted after
\* its request had summed them (allocateLinehaul, assertCapacity).
OverloadedOnlyInARace ==
    [][\A h \in Linehauls : Carries(allocated', h) # Carries(allocated, h) =>
          \/ WeightOf(Carries(allocated', h)) <= LinehaulWeight
          \/ \E c \in Allocators : /\ allocator[c].linehaul = h
                                   /\ Carries(allocator[c].rows, h) # Carries(allocated, h)
      ]_linehaulVars
=============================================================================
