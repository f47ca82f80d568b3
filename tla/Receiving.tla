------------------------------ MODULE Receiving ------------------------------
(***************************************************************************)
(* The receipt of one advance shipping notice (ASN): dock workers receive  *)
(* and inspect its lines, put the accepted ones away, and the notice is    *)
(* COMPLETED when nothing is left to do.                                   *)
(*                                                                         *)
(* receiveAsn and putaway are transactions at REPEATABLE READ: ...Read     *)
(* takes the snapshot their checks and counts see, ...Commit writes.  A    *)
(* receipt claims the version of the notice; a putaway only changes the    *)
(* version when it completes the notice.                                   *)
(***************************************************************************)
EXTENDS Naturals, FiniteSets, Rows

CONSTANTS
    AsnLines,      \* lines of the notice
    Receipts,      \* concurrent executions of receiveAsn
    ReceiptKey,    \* [Receipts -> Idempotency-Key]
    ReceiptLines,  \* [Receipts -> SUBSET AsnLines], the lines in the request
    Putaways,      \* concurrent requests that put lines away
    MaxPutaways    \* bound: executions of putaway by each

ASSUME ReceivingAssumption ==
    /\ DOMAIN ReceiptKey = Receipts
    /\ ReceiptLines \in [Receipts -> (SUBSET AsnLines) \ {{}}]
    /\ \A r, s \in Receipts : ReceiptKey[r] = ReceiptKey[s] => ReceiptLines[r] = ReceiptLines[s]
    /\ MaxPutaways \in Nat

VARIABLES
    asn,        \* AdvanceShippingNotice.status
    asnVersion, \* AdvanceShippingNotice.version
    asnLine,    \* AsnLine: "PENDING", "ACCEPTED", "REJECTED" or "PUTAWAY"
    commands,   \* idempotency keys of the stored AsnReceiptCommands
    onHand,     \* times the line's quantity was added to ON_HAND and the ledger
    receipt,    \* progress of a receiveAsn
    receiptSeen, \* its snapshot, or None
    putaway,    \* line and snapshot of a putaway, or None
    putaways    \* lines a putaway process has worked on (bounded by MaxPutaways)

receivingVars == <<asn, asnVersion, asnLine, commands, onHand,
                  receipt, receiptSeen, putaway, putaways>>

ReceivingInit ==
    /\ asn = "OPEN" /\ asnVersion = 1
    /\ asnLine = [l \in AsnLines |-> "PENDING"]
    /\ commands = {}
    /\ onHand = [l \in AsnLines |-> 0]
    /\ receipt = [r \in Receipts |-> "new"]
    /\ receiptSeen = [r \in Receipts |-> None]
    /\ putaway = [p \in Putaways |-> None]
    /\ putaways = [p \in Putaways |-> 0]

\* What a transaction's plain reads see.
Snapshot == [status |-> asn, version |-> asnVersion, lines |-> asnLine]

\* Lines that keep the notice from being COMPLETED.
Blockers(lines) == {l \in AsnLines : lines[l] \in {"PENDING", "ACCEPTED"}}

-----------------------------------------------------------------------------
\* A replay is answered; a notice or a line that cannot be received is refused.
ReceiveRead(r) ==
    /\ receipt[r] = "new"
    /\ IF /\ ReceiptKey[r] \notin commands
          /\ asn \in {"OPEN", "IN_PROGRESS"}
          /\ \A l \in ReceiptLines[r] : asnLine[l] = "PENDING"
         THEN /\ receipt' = [receipt EXCEPT ![r] = "checked"]
              /\ receiptSeen' = [receiptSeen EXCEPT ![r] = Snapshot]
         ELSE /\ receipt' = [receipt EXCEPT ![r] = "done"]
              /\ UNCHANGED receiptSeen
    /\ UNCHANGED <<asn, asnVersion, asnLine, commands, onHand, putaway, putaways>>

\* Do the unique key and the version let the transaction commit?
ReceiptClaims(r) ==
    /\ ReceiptKey[r] \notin commands
    /\ asnVersion = receiptSeen[r].version
    /\ asn \in {"OPEN", "IN_PROGRESS"}

\* The accepted lines go on hand, and the notice is COMPLETED if the snapshot
\* with the receipt's own writes has no blockers.
ReceiveCommit(r) ==
    /\ receipt[r] = "checked"
    /\ receipt' = [receipt EXCEPT ![r] = "done"]
    /\ receiptSeen' = [receiptSeen EXCEPT ![r] = None]
    /\ IF ReceiptClaims(r)
         THEN \E accepted \in SUBSET ReceiptLines[r] :
                LET Inspected(lines) ==
                        [l \in AsnLines |-> IF l \in accepted THEN "ACCEPTED"
                                            ELSE IF l \in ReceiptLines[r] THEN "REJECTED"
                                            ELSE lines[l]] IN
                /\ asnLine' = Inspected(asnLine)
                /\ onHand' = [l \in AsnLines |->
                                IF l \in accepted THEN onHand[l] + 1 ELSE onHand[l]]
                /\ asn' = IF Blockers(Inspected(receiptSeen[r].lines)) = {}
                            THEN "COMPLETED" ELSE "IN_PROGRESS"
                /\ asnVersion' = asnVersion + 1
                /\ commands' = commands \cup {ReceiptKey[r]}
         ELSE UNCHANGED <<asn, asnVersion, asnLine, commands, onHand>>
    /\ UNCHANGED <<putaway, putaways>>

-----------------------------------------------------------------------------
\* A line that is put away already is only counted again.
PutawayRead(p, l) ==
    /\ putaway[p] = None /\ putaways[p] < MaxPutaways
    /\ asnLine[l] = "PUTAWAY" \/ (asnLine[l] = "ACCEPTED" /\ asn = "IN_PROGRESS")
    /\ putaway' = [putaway EXCEPT ![p] = [line |-> l, seen |-> Snapshot]]
    /\ putaways' = [putaways EXCEPT ![p] = @ + 1]
    /\ UNCHANGED <<asn, asnVersion, asnLine, commands, onHand, receipt, receiptSeen>>

\* Mutant: only the lines that are not inspected are counted.
RemainingUninspected(p) ==
    {l \in AsnLines : putaway[p].seen.lines[l] = "PENDING"} \ {putaway[p].line}

\* The blockers this putaway counts: its snapshot, with its own write.
Remaining(p) == Blockers(putaway[p].seen.lines) \ {putaway[p].line}

PutawayCommit(p) ==
    /\ putaway[p] # None
    /\ asnLine' = [asnLine EXCEPT ![putaway[p].line] = "PUTAWAY"]
    /\ IF Remaining(p) = {} /\ putaway[p].seen.status = "IN_PROGRESS" /\ asn = "IN_PROGRESS"
         THEN asn' = "COMPLETED" /\ asnVersion' = asnVersion + 1
         ELSE UNCHANGED <<asn, asnVersion>>
    /\ putaway' = [putaway EXCEPT ![p] = None]
    /\ UNCHANGED <<commands, onHand, receipt, receiptSeen, putaways>>

ReceivingNext ==
    \/ \E r \in Receipts : ReceiveRead(r) \/ ReceiveCommit(r)
    \/ \E p \in Putaways : PutawayCommit(p) \/ \E l \in AsnLines : PutawayRead(p, l)

ReceivingSpec == ReceivingInit /\ [][ReceivingNext]_receivingVars

-----------------------------------------------------------------------------
(***************************************************************************)
(* Properties.                                                             *)
(***************************************************************************)

\* A line goes on hand once if it was accepted, and never otherwise, however
\* often it is received, under one key or several (receiveAsn).
ReceivedOnce ==
    \A l \in AsnLines :
        onHand[l] = IF asnLine[l] \in {"ACCEPTED", "PUTAWAY"} THEN 1 ELSE 0

\* Although receipts and putaways count from snapshots, a COMPLETED notice has
\* no line left to inspect or to put away (receiveAsn, putaway).
CompletedIsPutAway == asn = "COMPLETED" => Blockers(asnLine) = {}

\* What a notice announces goes on hand once, and the notice is closed over
\* nothing that is not there (receiveAsn, putaway).
NoticePutAway == ReceivedOnce /\ CompletedIsPutAway
=============================================================================
