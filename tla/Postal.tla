-------------------------------- MODULE Postal ---------------------------------
(***************************************************************************)
(* Postal receptacles and dispatches of one route: items put into          *)
(* receptacles, receptacles linked to dispatches, their statuses, and the  *)
(* events reported for the items (InternationalLogisticsRepository).       *)
(*                                                                         *)
(* Contents and links are checked on reads before the write; the           *)
(* transitions compare the version the client read.                        *)
(***************************************************************************)
EXTENDS Naturals, FiniteSets, Rows

CONSTANTS
    Items,           \* postal items
    Receptacles,
    Dispatches,
    PostalEvents,    \* requests that record an event
    EventItem,       \* [PostalEvents -> Items]
    PostalKey,       \* [PostalEvents -> externalKey]
    EventCode,       \* [PostalEvents -> status the code sets]
    Clerks,          \* concurrent HTTP requests
    MaxPostalMoves   \* bound on the versions of receptacles and dispatches

ASSUME PostalAssumption ==
    /\ EventItem \in [PostalEvents -> Items]
    /\ DOMAIN PostalKey = PostalEvents /\ DOMAIN EventCode = PostalEvents
    /\ MaxPostalMoves \in Nat
    /\ None \notin Items \cup Receptacles \cup Dispatches \cup PostalEvents

VARIABLES
    item,        \* PostalItem: status and version, "NONE" before the row exists
    receptacle,  \* PostalReceptacle: status and version
    bagged,      \* PostalReceptacleItem rows, <<receptacle, item>>
    dispatch,    \* PostalDispatch: status and version
    linked,      \* PostalDispatchReceptacle rows, <<dispatch, receptacle>>
    known,    \* PostalEvent rows
    clerk        \* what a caller has read and goes on to write

postalVars == <<item, receptacle, bagged, dispatch, linked, known, clerk>>

Row(status, version) == [status |-> status, version |-> version]
NoRow == Row("NONE", 0)
ClerkIdle == [op |-> "idle", on |-> None, to |-> None, version |-> 0]

PostalInit ==
    /\ item = [i \in Items |-> NoRow] /\ receptacle = [r \in Receptacles |-> NoRow]
    /\ dispatch = [d \in Dispatches |-> NoRow]
    /\ bagged = {} /\ linked = {} /\ known = {}
    /\ clerk = [c \in Clerks |-> ClerkIdle]

\* to: the row or status the request goes on to write.
ClerkReads(c, op, x, to, version) ==
    /\ clerk[c] = ClerkIdle
    /\ clerk' = [clerk EXCEPT ![c] = [op |-> op, on |-> x, to |-> to, version |-> version]]
    /\ UNCHANGED <<item, receptacle, bagged, dispatch, linked, known>>

ClerkWrites(c, op, x, to) ==
    /\ clerk[c].op = op /\ clerk[c].on = x /\ clerk[c].to = to
    /\ clerk' = [clerk EXCEPT ![c] = ClerkIdle]

-----------------------------------------------------------------------------
(***************************************************************************)
(* Items and receptacles.                                                  *)
(***************************************************************************)

\* The S10 identifier is unique.
CreatePostalItem(i) ==
    /\ item[i] = NoRow
    /\ item' = [item EXCEPT ![i] = Row("ACCEPTED", 1)]
    /\ UNCHANGED <<receptacle, bagged, dispatch, linked, known, clerk>>

CreateReceptacle(r) ==
    /\ receptacle[r] = NoRow
    /\ receptacle' = [receptacle EXCEPT ![r] = Row("OPEN", 1)]
    /\ UNCHANGED <<item, bagged, dispatch, linked, known, clerk>>

AddItemRead(c, r, i) ==
    /\ item[i] # NoRow /\ receptacle[r].status = "OPEN"
    /\ ClerkReads(c, "bag", r, i, 0)

AddItem(c, r, i) ==
    /\ ClerkWrites(c, "bag", r, i)
    /\ bagged' = bagged \cup {<<r, i>>}
    /\ UNCHANGED <<item, receptacle, dispatch, linked, known>>

ReceptacleMoves ==
    {<<"OPEN", "CLOSED">>, <<"CLOSED", "DESPATCHED">>, <<"CLOSED", "OPEN">>,
     <<"DESPATCHED", "RECEIVED">>, <<"RECEIVED", "OPENED">>}

Closable(r) == \E i \in Items : <<r, i>> \in bagged

ReceptacleMoveRead(c, r, next) ==
    /\ <<receptacle[r].status, next>> \in ReceptacleMoves
    /\ receptacle[r].version < MaxPostalMoves
    /\ next = "CLOSED" => Closable(r)
    /\ ClerkReads(c, "receptacle", r, next, receptacle[r].version)

Taken(row, c) == row.version = clerk[c].version

MoveReceptacle(c, r, next) ==
    /\ ClerkWrites(c, "receptacle", r, next)
    /\ receptacle' = IF Taken(receptacle[r], c)
                       THEN [receptacle EXCEPT ![r] = Row(next, @.version + 1)] ELSE receptacle
    /\ UNCHANGED <<item, bagged, dispatch, linked, known>>

-----------------------------------------------------------------------------
(***************************************************************************)
(* Dispatches.                                                             *)
(***************************************************************************)

CreateDispatch(d) ==
    /\ dispatch[d] = NoRow
    /\ dispatch' = [dispatch EXCEPT ![d] = Row("OPEN", 1)]
    /\ UNCHANGED <<item, receptacle, bagged, linked, known, clerk>>

AddReceptacleRead(c, d, r) ==
    /\ dispatch[d].status = "OPEN" /\ receptacle[r].status = "CLOSED"
    /\ ClerkReads(c, "link", d, r, 0)

AddReceptacle(c, d, r) ==
    /\ ClerkWrites(c, "link", d, r)
    /\ linked' = linked \cup {<<d, r>>}
    /\ UNCHANGED <<item, receptacle, bagged, dispatch, known>>

DispatchMoves ==
    {<<"OPEN", "CLOSED">>, <<"OPEN", "CANCELLED">>,
     <<"CLOSED", "HANDED_OVER">>, <<"CLOSED", "OPEN">>,
     <<"HANDED_OVER", "IN_TRANSIT">>, <<"HANDED_OVER", "RECEIVED">>,
     <<"IN_TRANSIT", "RECEIVED">>, <<"IN_TRANSIT", "EXCEPTION">>,
     <<"EXCEPTION", "IN_TRANSIT">>, <<"EXCEPTION", "RECEIVED">>,
     <<"RECEIVED", "VERIFIED">>}

LinkedTo(d) == {r \in Receptacles : <<d, r>> \in linked}

DispatchMoveRead(c, d, next) ==
    /\ <<dispatch[d].status, next>> \in DispatchMoves
    /\ dispatch[d].version < MaxPostalMoves
    /\ next = "CLOSED" => LinkedTo(d) # {}
    /\ ClerkReads(c, "dispatch", d, next, dispatch[d].version)

\* The links are read in the transaction; the receptacle's status is not.
HandedOver(d) == LinkedTo(d)

MoveDispatch(c, d, next) ==
    /\ ClerkWrites(c, "dispatch", d, next)
    /\ IF Taken(dispatch[d], c)
         THEN /\ dispatch' = [dispatch EXCEPT ![d] = Row(next, @.version + 1)]
              /\ receptacle' = [r \in Receptacles |->
                    IF next = "HANDED_OVER" /\ r \in HandedOver(d)
                      THEN Row("DESPATCHED", receptacle[r].version + 1) ELSE receptacle[r]]
         ELSE UNCHANGED <<dispatch, receptacle>>
    /\ UNCHANGED <<item, bagged, linked, known>>

-----------------------------------------------------------------------------
(***************************************************************************)
(* Events.                                                                 *)
(***************************************************************************)

KnownIn(rows, e) == \E r \in rows : PostalKey[r] = PostalKey[e]

ReportRead(c, e) ==
    /\ item[EventItem[e]] # NoRow /\ ~KnownIn(known, e)
    /\ ClerkReads(c, "event", e, None, 0)

Unknown(e) == ~KnownIn(known, e)

\* The key is unique: the transaction of a second event rolls back.
Report(c, e) ==
    /\ ClerkWrites(c, "event", e, None)
    /\ IF Unknown(e)
         THEN /\ known' = known \cup {e}
              /\ item' = [item EXCEPT ![EventItem[e]] = Row(EventCode[e], @.version + 1)]
         ELSE UNCHANGED <<known, item>>
    /\ UNCHANGED <<receptacle, bagged, dispatch, linked>>

PostalNext ==
    \/ \E i \in Items : CreatePostalItem(i)
    \/ \E r \in Receptacles : CreateReceptacle(r)
    \/ \E d \in Dispatches : CreateDispatch(d)
    \/ \E c \in Clerks :
          \/ \E e \in PostalEvents : ReportRead(c, e) \/ Report(c, e)
          \/ \E r \in Receptacles :
                \/ \E i \in Items : AddItemRead(c, r, i) \/ AddItem(c, r, i)
                \/ \E d \in Dispatches : AddReceptacleRead(c, d, r) \/ AddReceptacle(c, d, r)
                \/ \E next \in {move[2] : move \in ReceptacleMoves} :
                      ReceptacleMoveRead(c, r, next) \/ MoveReceptacle(c, r, next)
          \/ \E d \in Dispatches, next \in {move[2] : move \in DispatchMoves} :
                DispatchMoveRead(c, d, next) \/ MoveDispatch(c, d, next)

PostalSpec == PostalInit /\ [][PostalNext]_postalVars

-----------------------------------------------------------------------------
(***************************************************************************)
(* Properties.                                                             *)
(***************************************************************************)

\* A receptacle moves as its transitions say, or is handed over with a dispatch,
\* although every transition was checked before its write
\* (transitionReceptacle, transitionPostalDispatch).
ReceptacleFollowsItsTransitions ==
    [][\A r \in Receptacles :
         LET before == receptacle[r].status
             after == receptacle'[r].status IN
         (before \notin {after, "NONE"} /\ <<before, after>> \notin ReceptacleMoves) =>
            \E d \in Dispatches :
               /\ <<d, r>> \in linked /\ dispatch[d].status = "CLOSED"
               /\ dispatch'[d].status = "HANDED_OVER"]_postalVars

\* Handing a dispatch over despatches every receptacle linked to it by then,
\* also one linked after the dispatch was checked and one that has been reopened
\* (transitionPostalDispatch, addPostalReceptacle).
HandedOverIsDespatched ==
    [][\A d \in Dispatches :
         dispatch[d].status # dispatch'[d].status /\ dispatch'[d].status = "HANDED_OVER" =>
            \A r \in LinkedTo(d) : receptacle'[r].status = "DESPATCHED"]_postalVars

\* No dispatch leaves without a receptacle that was closed with an item in it
\* (addPostalItem, addPostalReceptacle, transitionPostalDispatch).
NoEmptyDispatch ==
    \A d \in Dispatches :
       dispatch[d].status \notin {"NONE", "OPEN", "CANCELLED"} =>
          \E r \in Receptacles, i \in Items : <<d, r>> \in linked /\ <<r, i>> \in bagged

\* An event reported again, also at once, moves its item once
\* (recordPostalEvent and the unique key).
ReportedOnce ==
    \A i \in Items :
       item[i] # NoRow =>
          item[i].version =
             1 + Cardinality({PostalKey[e] : e \in {p \in known : EventItem[p] = i}})
=============================================================================
