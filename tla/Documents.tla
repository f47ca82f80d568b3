------------------------------ MODULE Documents ------------------------------
(***************************************************************************)
(* The upload of one freight document: the client puts it at a staging key *)
(* with a presigned URL, and completion moves it to its final key, scans   *)
(* it and marks the row.  Every call of the object store and every row     *)
(* update is a step of its own, and a completion may fail or die between   *)
(* any two of them; the client then asks for it again.                     *)
(*                                                                         *)
(* An object is "good" if it has the size, type and checksum the row       *)
(* declares and "bad" otherwise.                                           *)
(***************************************************************************)
EXTENDS Rows

CONSTANT Completions    \* concurrent executions of completeDocument

VARIABLES
    document,   \* FreightDocument.scanStatus, "NONE" before the row exists
    objectKey,  \* FreightDocument.objectKey: "staging" or "final"
    object,     \* the object at each key: "none", "good" or "bad"
    putOpen,    \* is the presigned URL still valid?
    infected,   \* would the scanner object to the declared content?
    completion  \* progress of an execution of completeDocument

documentVars == <<document, objectKey, object, putOpen, infected, completion>>

DocumentInit ==
    /\ document = "NONE" /\ objectKey = None
    /\ object = [k \in {"staging", "final"} |-> "none"]
    /\ putOpen = FALSE
    /\ infected \in BOOLEAN
    /\ completion = [c \in Completions |-> "idle"]

\* The row is QUARANTINED and the client gets a URL for the staging key.
RegisterDocument ==
    /\ document = "NONE"
    /\ document' = "QUARANTINED" /\ objectKey' = "staging" /\ putOpen' = TRUE
    /\ UNCHANGED <<object, infected, completion>>

\* The client uploads, possibly more than once, what it declared or not.
ClientPut ==
    /\ putOpen
    /\ \E content \in {"good", "bad"} : object' = [object EXCEPT !["staging"] = content]
    /\ UNCHANGED <<document, objectKey, putOpen, infected, completion>>

PutUrlExpires ==
    /\ putOpen
    /\ putOpen' = FALSE
    /\ UNCHANGED <<document, objectKey, object, infected, completion>>

-----------------------------------------------------------------------------
Drop == [staging |-> "drop staging", final |-> "drop final"]

Goes(c, from, to) ==
    /\ completion[c] = from
    /\ completion' = [completion EXCEPT ![c] = to]

\* Mutant: a document that is being scanned is taken for scanned.
CompleteStartScanned(c) ==
    /\ document \in {"QUARANTINED", "SCANNING"}
    /\ Goes(c, "idle", IF document = "QUARANTINED" THEN "head" ELSE "mark clean")
    /\ UNCHANGED <<document, objectKey, object, putOpen, infected>>

\* CLEAN and REJECTED rows are answered; a SCANNING one is scanned again.
CompleteStart(c) ==
    /\ document \in {"QUARANTINED", "SCANNING"}
    /\ Goes(c, "idle", IF document = "QUARANTINED" THEN "head" ELSE "scan")
    /\ UNCHANGED <<document, objectKey, object, putOpen, infected>>

\* assertObjectMetadata(staging): an object that is not there only fails.
HeadStaging(c) ==
    /\ object["staging"] # "none"
    /\ Goes(c, "head", IF object["staging"] = "good" THEN "copy" ELSE Drop["staging"])
    /\ UNCHANGED <<document, objectKey, object, putOpen, infected>>

\* The object is copied, and deleted at its staging key if the store is willing.
FinalizeUpload(c) ==
    /\ object["staging"] # "none"
    /\ Goes(c, "copy", "head final")
    /\ \E left \in {"none", object["staging"]} :
           object' = [staging |-> left, final |-> object["staging"]]
    /\ UNCHANGED <<document, objectKey, putOpen, infected>>

\* assertObjectMetadata(final): the client may have put another object since.
HeadFinal(c) ==
    /\ object["final"] # "none"
    /\ Goes(c, "head final", IF object["final"] = "good" THEN "mark" ELSE Drop["final"])
    /\ UNCHANGED <<document, objectKey, object, putOpen, infected>>

MarkScanning(c) ==
    /\ Goes(c, "mark", "scan")
    /\ document' = "SCANNING" /\ objectKey' = "final"
    /\ UNCHANGED <<object, putOpen, infected>>

\* The scanner answers for the declared checksum, or its answer is refused.
Scan(c) ==
    /\ object["final"] = "good"
    /\ Goes(c, "scan", IF infected THEN "mark rejected" ELSE "mark clean")
    /\ UNCHANGED <<document, objectKey, object, putOpen, infected>>

MarkClean(c) ==
    /\ Goes(c, "mark clean", "idle")
    /\ document' = "CLEAN"
    /\ UNCHANGED <<objectKey, object, putOpen, infected>>

\* An infected document: first the row, then the object.
MarkRejected(c) ==
    /\ Goes(c, "mark rejected", "drop rejected")
    /\ document' = "REJECTED"
    /\ UNCHANGED <<objectKey, object, putOpen, infected>>

DropRejected(c) ==
    /\ Goes(c, "drop rejected", "idle")
    /\ object' = [object EXCEPT !["final"] = "none"]
    /\ UNCHANGED <<document, objectKey, putOpen, infected>>

\* Wrong metadata: first the object, whose deletion may fail, then the row.
DropObject(c) ==
    /\ \E k \in {"staging", "final"} :
         /\ Goes(c, Drop[k], "mark mismatch")
         /\ object' \in {object, [object EXCEPT ![k] = "none"]}
    /\ UNCHANGED <<document, objectKey, putOpen, infected>>

RejectUploaded(c) ==
    /\ Goes(c, "mark mismatch", "idle")
    /\ document' = "REJECTED"
    /\ UNCHANGED <<objectKey, object, putOpen, infected>>

\* A call fails or the process dies.
CompletionFails(c) ==
    /\ completion[c] # "idle"
    /\ completion' = [completion EXCEPT ![c] = "idle"]
    /\ UNCHANGED <<document, objectKey, object, putOpen, infected>>

DocumentNext ==
    \/ RegisterDocument \/ ClientPut \/ PutUrlExpires
    \/ \E c \in Completions :
         \/ CompleteStart(c) \/ HeadStaging(c) \/ FinalizeUpload(c) \/ HeadFinal(c)
         \/ MarkScanning(c) \/ Scan(c) \/ MarkClean(c) \/ MarkRejected(c)
         \/ DropRejected(c) \/ DropObject(c) \/ RejectUploaded(c) \/ CompletionFails(c)

DocumentSpec == DocumentInit /\ [][DocumentNext]_documentVars

-----------------------------------------------------------------------------
(***************************************************************************)
(* Properties.                                                             *)
(***************************************************************************)

\* The row says CLEAN, or an execution is about to make it so.
Passed == document = "CLEAN" \/ \E c \in Completions : completion[c] = "mark clean"

\* The execution read the row QUARANTINED and another one has marked it since.
Overtaken(c) ==
    /\ completion[c] \in {"head", "copy", "head final", "mark"} \cup {Drop["staging"], Drop["final"]}
    /\ objectKey = "final"

\* What is CLEAN is at its final key and the scanner has passed what the row
\* declares; and the object there is another one, or none, only by a step of an
\* execution that was overtaken: two that overlap copy and delete at the same
\* final key, whoever has scanned it (completeDocument).
UnverifiedOnlyInARace ==
    [][/\ Passed' => objectKey' = "final" /\ ~infected'
       /\ Passed' /\ object'["final"] # "good" =>
            \/ Passed /\ object["final"] # "good"
            \/ \E c \in Completions : Overtaken(c) /\ completion'[c] # completion[c]
      ]_documentVars
=============================================================================
