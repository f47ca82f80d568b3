----------------------------- MODULE Fulfillment -----------------------------
(***************************************************************************)
(* One fulfillment order from picking to delivery, and the control tower   *)
(* that takes it out of the flow (createException) and puts it back on     *)
(* another facility (execute).                                             *)
(*                                                                         *)
(* Every handler of FulfillmentRepository and NetworkOperationsRepository  *)
(* used here reads the rows it checks outside the transaction in which it  *)
(* writes by id.  A caller of this module has passed the checks of op.     *)
(***************************************************************************)
EXTENDS Naturals, FiniteSets, Rows

CONSTANTS
    PackageCodes,    \* codes of packages; bound: packages ever packed
    TrackingKeys,    \* external keys of carrier events
    TowerExceptions, \* control tower exceptions that may be opened
    Routes,          \* routing recommendations for them
    RouteException,  \* [Routes -> TowerExceptions]
    Floor            \* concurrent HTTP requests

ASSUME FulfillmentAssumption ==
    /\ RouteException \in [Routes -> TowerExceptions]
    /\ None \notin PackageCodes \cup TrackingKeys \cup TowerExceptions \cup Routes

VARIABLES
    order,     \* FulfillmentOrder.status
    packages,  \* codes of its packages
    shipment,  \* Shipment.status of its first package, "NONE" before the row exists
    tracked,   \* keys of the stored tracking events
    tower,     \* ControlTowerException.status, "NONE" before the row exists
    route,     \* RoutingRecommendation.status, "NONE" before the row exists
    floor      \* what a caller has checked and goes on to write

fulfillmentVars == <<order, packages, shipment, tracked, tower, route, floor>>

FloorIdle == [op |-> "idle", about |-> None]

FulfillmentInit ==
    /\ order = "PENDING" /\ packages = {}
    /\ shipment = "NONE" /\ tracked = {}
    /\ tower = [x \in TowerExceptions |-> "NONE"]
    /\ route = [m \in Routes |-> "NONE"]
    /\ floor = [c \in Floor |-> FloorIdle]

Reads(c, op, x) ==
    /\ floor[c] = FloorIdle
    /\ floor' = [floor EXCEPT ![c] = [op |-> op, about |-> x]]
    /\ UNCHANGED <<order, packages, shipment, tracked, tower, route>>

Commits(c, op, x) ==
    /\ floor[c] = [op |-> op, about |-> x]
    /\ floor' = [floor EXCEPT ![c] = FloorIdle]

-----------------------------------------------------------------------------
(***************************************************************************)
(* The warehouse floor.                                                    *)
(***************************************************************************)

Pickable == order \in {"PENDING", "RELEASED", "PICKING"}

PickCheck(c) == Pickable /\ Reads(c, "pick", None)

\* The stock is moved without another look at the order (module Stock has the
\* balances; here there is always enough).
Pick(c) ==
    /\ Commits(c, "pick", None)
    /\ order' = "PICKED"
    /\ UNCHANGED <<packages, shipment, tracked, tower, route>>

PackCheck(c, k) == order = "PICKED" /\ Reads(c, "pack", k)

\* The code of a package is unique.
Pack(c, k) ==
    /\ Commits(c, "pack", k)
    /\ IF k \notin packages
         THEN packages' = packages \cup {k} /\ order' = "PACKED"
         ELSE UNCHANGED <<packages, order>>
    /\ UNCHANGED <<shipment, tracked, tower, route>>

LabelCheck(c) ==
    order = "PACKED" /\ Cardinality(packages) = 1 /\ Reads(c, "buy label", None)

\* The carrier sells a label for a fresh shipment id.
BuyLabel(c) ==
    /\ floor[c].op = "buy label"
    /\ floor' = [floor EXCEPT ![c].op = "label"]
    /\ UNCHANGED <<order, packages, shipment, tracked, tower, route>>

\* The call fails, or the process dies before or after it.
LabelLost(c) ==
    /\ floor[c].op \in {"buy label", "label"}
    /\ floor' = [floor EXCEPT ![c] = FloorIdle]
    /\ UNCHANGED <<order, packages, shipment, tracked, tower, route>>

\* A package has one shipment.
Label(c) ==
    /\ Commits(c, "label", None)
    /\ IF shipment = "NONE"
         THEN shipment' = "LABELED" /\ order' = "LABELED"
         ELSE UNCHANGED <<shipment, order>>
    /\ UNCHANGED <<packages, tracked, tower, route>>

\* Mutant: a packed order can be put on the manifest.
ManifestEarly(from) == IF from = "LABELED" THEN {"PACKED", "LABELED"} ELSE {from}

Expected(from) == {from}

TransitionCheck(c, from, next) ==
    /\ <<from, next>> \in {<<"LABELED", "MANIFESTED">>, <<"MANIFESTED", "DISPATCHED">>}
    /\ order \in Expected(from)
    /\ Reads(c, next, None)

\* Shipments, if any, and order.
Transition(c, next) ==
    /\ next \in {"MANIFESTED", "DISPATCHED"}
    /\ Commits(c, next, None)
    /\ shipment' = IF shipment = "NONE" THEN shipment ELSE next
    /\ order' = next
    /\ UNCHANGED <<packages, tracked, tower, route>>

TrackingCheck(c, k) == shipment # "NONE" /\ k \notin tracked /\ Reads(c, "track", k)

\* Only a DELIVERED event changes the shipment and the order, whatever they are.
Tracking(c, k) ==
    /\ Commits(c, "track", k)
    /\ IF k \notin tracked
         THEN /\ tracked' = tracked \cup {k}
              /\ \/ shipment' = "DELIVERED" /\ order' = "DELIVERED"
                 \/ UNCHANGED <<shipment, order>>
         ELSE UNCHANGED <<tracked, shipment, order>>
    /\ UNCHANGED <<packages, tower, route>>

-----------------------------------------------------------------------------
(***************************************************************************)
(* The control tower.                                                      *)
(***************************************************************************)

\* createException reads no status: any order becomes an EXCEPTION.
OpenException(x) ==
    /\ tower[x] = "NONE"
    /\ tower' = [tower EXCEPT ![x] = "OPEN"]
    /\ order' = "EXCEPTION"
    /\ UNCHANGED <<packages, shipment, tracked, route, floor>>

RecommendCheck(c, m) ==
    tower[RouteException[m]] = "OPEN" /\ route[m] = "NONE" /\ Reads(c, "recommend", m)

\* An upsert on the hash of the recommendation that updates nothing.
Recommend(c, m) ==
    /\ Commits(c, "recommend", m)
    /\ route' = [route EXCEPT ![m] = IF @ = "NONE" THEN "PROPOSED" ELSE @]
    /\ UNCHANGED <<order, packages, shipment, tracked, tower>>

ApproveCheck(c, m) == route[m] = "PROPOSED" /\ Reads(c, "approve", m)

\* The other proposals of the exception are rejected.
ApproveRoute(c, m) ==
    /\ Commits(c, "approve", m)
    /\ route' = [n \in Routes |->
                   IF n = m THEN "APPROVED"
                   ELSE IF RouteException[n] = RouteException[m] /\ route[n] = "PROPOSED"
                     THEN "REJECTED" ELSE route[n]]
    /\ UNCHANGED <<order, packages, shipment, tracked, tower>>

ExecuteCheck(c, m) ==
    route[m] = "APPROVED" /\ order = "EXCEPTION" /\ Reads(c, "execute", m)

\* Lines and order go to the facility of the route; the exception is RESOLVED.
ExecuteRoute(c, m) ==
    /\ Commits(c, "execute", m)
    /\ order' = "RELEASED"
    /\ route' = [route EXCEPT ![m] = "EXECUTED"]
    /\ tower' = [tower EXCEPT ![RouteException[m]] = "RESOLVED"]
    /\ UNCHANGED <<packages, shipment, tracked>>

FloorStep(c) ==
    \/ PickCheck(c) \/ Pick(c)
    \/ \E k \in PackageCodes : PackCheck(c, k) \/ Pack(c, k)
    \/ LabelCheck(c) \/ BuyLabel(c) \/ LabelLost(c) \/ Label(c)
    \/ \E from \in {"LABELED", "MANIFESTED"}, next \in {"MANIFESTED", "DISPATCHED"} :
          TransitionCheck(c, from, next)
    \/ \E next \in {"MANIFESTED", "DISPATCHED"} : Transition(c, next)
    \/ \E k \in TrackingKeys : TrackingCheck(c, k) \/ Tracking(c, k)
    \/ \E m \in Routes :
          \/ RecommendCheck(c, m) \/ Recommend(c, m)
          \/ ApproveCheck(c, m) \/ ApproveRoute(c, m)
          \/ ExecuteCheck(c, m) \/ ExecuteRoute(c, m)

FulfillmentNext ==
    \/ \E c \in Floor : FloorStep(c)
    \/ \E x \in TowerExceptions : OpenException(x)

FulfillmentSpec == FulfillmentInit /\ [][FulfillmentNext]_fulfillmentVars

-----------------------------------------------------------------------------
(***************************************************************************)
(* Properties.                                                             *)
(***************************************************************************)

\* However requests and rerouting overlap, what left the warehouse has a
\* shipment that names its label (label, transition, tracking).
ShippedIsLabeled ==
    order \in {"LABELED", "MANIFESTED", "DISPATCHED", "DELIVERED"} => shipment # "NONE"

\* A reroute that was executed has closed its exception, also when two routes
\* of it were approved at once (approve, execute).
ExecutedIsResolved ==
    \A m \in Routes : route[m] = "EXECUTED" => tower[RouteException[m]] = "RESOLVED"

\* Neither goods nor a rerouting get ahead of the records they rest on (label,
\* transition, execute).
GoodsLeaveInOrder == ShippedIsLabeled /\ ExecutedIsResolved
=============================================================================
