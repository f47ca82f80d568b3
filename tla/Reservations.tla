---------------------------- MODULE Reservations ----------------------------
(***************************************************************************)
(* What buyers and suppliers are promised about reservations, without      *)
(* balances, purchase orders, sweepers or transactions: an order holds all *)
(* of its lines or none, a held line is allocated or given back for good,  *)
(* and the order is confirmed in the very step that allocates its last     *)
(* line, which therefore can never be lost afterwards.                     *)
(***************************************************************************)
CONSTANTS Orders, Lines, LineOrder

VARIABLES
    fate,        \* "none", "held", "allocated" or "released" per line
    confirmed    \* the confirmed orders

LinesOf(o) == {l \in Lines : LineOrder[l] = o}

Turned(L, outcome) == [l \in Lines |-> IF l \in L THEN outcome ELSE fate[l]]

Init ==
    /\ fate = [l \in Lines |-> "none"]
    /\ confirmed = {}

Place(o) ==
    /\ \A l \in LinesOf(o) : fate[l] = "none"
    /\ fate' = Turned(LinesOf(o), "held")
    /\ UNCHANGED confirmed

\* The lines L of one supplier are allocated together.
Allocate(o, L) ==
    /\ \A l \in L : fate[l] = "held"
    /\ fate' = Turned(L, "allocated")
    /\ confirmed' = IF \A l \in LinesOf(o) : fate'[l] = "allocated"
                    THEN confirmed \cup {o} ELSE confirmed

GiveBack(l) ==
    /\ fate[l] = "held"
    /\ fate' = Turned({l}, "released")
    /\ UNCHANGED confirmed

Next ==
    \/ \E o \in Orders : Place(o)
    \/ \E o \in Orders : \E L \in SUBSET LinesOf(o) : L # {} /\ Allocate(o, L)
    \/ \E l \in Lines : GiveBack(l)

Spec == Init /\ [][Next]_<<fate, confirmed>>
=============================================================================
