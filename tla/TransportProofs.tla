--------------------------- MODULE TransportProofs ---------------------------
(***************************************************************************)
(* Proofs about what happens to a booking on its way, about accounts and   *)
(* their sessions and about partners: of each component's own              *)
(* specification, and of the composition the runs check.                   *)
(***************************************************************************)
EXTENDS MCTransport, FiniteSetTheorems, TLAPS

-----------------------------------------------------------------------------
(***************************************************************************)
(* Documents.                                                              *)
(***************************************************************************)

\* What an execution of completeDocument has made sure of by the step it is at,
\* however many of them there are.
CompletionInv ==
    /\ DOMAIN completion = Completions /\ DOMAIN object = {"staging", "final"}
    /\ \A c \in Completions :
         /\ document = "NONE" => completion[c] = "idle"
         /\ completion[c] \in {"scan", "mark clean", "mark rejected", "drop rejected"} =>
              objectKey = "final"
         /\ completion[c] = "mark clean" => ~infected
         /\ completion[c] \in {"mark rejected", "drop rejected"} => infected
    /\ document \in {"SCANNING", "CLEAN"} => objectKey = "final"
    /\ document = "CLEAN" => ~infected

\* A step of an execution that has made sure of what its next one needs.
LEMMA CompletionMoves ==
    ASSUME CompletionInv, NEW c \in Completions, NEW to,
           completion' = [completion EXCEPT ![c] = to],
           infected' = infected, DOMAIN object' = {"staging", "final"}, document' # "NONE",
           objectKey' \in {objectKey, "final"},
           to \in {"scan", "mark clean", "mark rejected", "drop rejected"} => objectKey' = "final",
           to = "mark clean" => ~infected,
           to \in {"mark rejected", "drop rejected"} => infected,
           document' \in {"SCANNING", "CLEAN"} => objectKey' = "final",
           document' = "CLEAN" => ~infected
    PROVE  CompletionInv'
BY DEF CompletionInv

\* Every step keeps what the executions have made sure of.
LEMMA CompletionStep ==
    ASSUME CompletionInv, [DocumentNext]_documentVars PROVE CompletionInv'
<1>1. CASE RegisterDocument
  BY <1>1 DEF RegisterDocument, CompletionInv
<1>2. CASE ClientPut \/ PutUrlExpires
  <2>1. DOMAIN object' = DOMAIN object /\ UNCHANGED <<document, objectKey, infected, completion>>
    BY <1>2 DEF ClientPut, PutUrlExpires
  <2> QED BY <2>1 DEF CompletionInv
<1>3. ASSUME NEW c \in Completions, CompleteStart(c) PROVE CompletionInv'
  <2>1. document \in {"QUARANTINED", "SCANNING"} /\ UNCHANGED <<document, objectKey, object, infected>>
    BY <1>3 DEF CompleteStart
  <2>2. CASE document = "QUARANTINED"
    <3>1. completion' = [completion EXCEPT ![c] = "head"]
      BY <1>3, <2>2 DEF CompleteStart, Goes
    <3> QED BY <2>1, <2>2, <3>1, CompletionMoves DEF CompletionInv
  <2>3. CASE document = "SCANNING"
    <3>1. completion' = [completion EXCEPT ![c] = "scan"]
      BY <1>3, <2>3 DEF CompleteStart, Goes
    <3> QED BY <2>1, <2>3, <3>1, CompletionMoves DEF CompletionInv
  <2> QED BY <2>1, <2>2, <2>3
<1>4. ASSUME NEW c \in Completions,
             \E from \in {"head", "copy", "head final", "mark", "scan", "mark clean",
                          "mark rejected", "drop rejected", "drop staging", "drop final",
                          "mark mismatch"} : completion[c] = from
      PROVE  document # "NONE"
  BY <1>4 DEF CompletionInv
<1>5. ASSUME NEW c \in Completions, HeadStaging(c) PROVE CompletionInv'
  <2>1. PICK to \in {"copy", "drop staging"} : completion' = [completion EXCEPT ![c] = to]
    BY <1>5 DEF HeadStaging, Goes, Drop
  <2>2. completion[c] = "head" /\ UNCHANGED <<document, objectKey, object, infected>>
    BY <1>5 DEF HeadStaging, Goes
  <2> QED BY <1>4, <2>1, <2>2, CompletionMoves DEF CompletionInv
<1>6. ASSUME NEW c \in Completions, FinalizeUpload(c) PROVE CompletionInv'
  <2>1. completion' = [completion EXCEPT ![c] = "head final"] /\ completion[c] = "copy"
    BY <1>6 DEF FinalizeUpload, Goes
  <2>2. UNCHANGED <<document, objectKey, infected>> /\ DOMAIN object' = {"staging", "final"}
    BY <1>6 DEF FinalizeUpload
  <2> QED BY <1>4, <2>1, <2>2, CompletionMoves DEF CompletionInv
<1>7. ASSUME NEW c \in Completions, HeadFinal(c) PROVE CompletionInv'
  <2>1. PICK to \in {"mark", "drop final"} : completion' = [completion EXCEPT ![c] = to]
    BY <1>7 DEF HeadFinal, Goes, Drop
  <2>2. completion[c] = "head final" /\ UNCHANGED <<document, objectKey, object, infected>>
    BY <1>7 DEF HeadFinal, Goes
  <2> QED BY <1>4, <2>1, <2>2, CompletionMoves DEF CompletionInv
<1>8. ASSUME NEW c \in Completions, MarkScanning(c) PROVE CompletionInv'
  <2>1. completion' = [completion EXCEPT ![c] = "scan"] /\ document' = "SCANNING"
        /\ objectKey' = "final" /\ UNCHANGED <<object, infected>>
    BY <1>8 DEF MarkScanning, Goes
  <2> QED BY <2>1, CompletionMoves DEF CompletionInv
<1>9. ASSUME NEW c \in Completions, Scan(c) PROVE CompletionInv'
  <2>1. completion[c] = "scan" /\ UNCHANGED <<document, objectKey, object, infected>>
    BY <1>9 DEF Scan, Goes
  <2>2. objectKey = "final" /\ document # "NONE"
    BY <1>4, <2>1 DEF CompletionInv
  <2>3. PICK to \in {"mark rejected", "mark clean"} :
           completion' = [completion EXCEPT ![c] = to] /\ (to = "mark rejected" <=> infected)
    BY <1>9 DEF Scan, Goes
  <2> QED BY <2>1, <2>2, <2>3, CompletionMoves DEF CompletionInv
<1>10. ASSUME NEW c \in Completions, MarkClean(c) PROVE CompletionInv'
  <2>1. completion' = [completion EXCEPT ![c] = "idle"] /\ completion[c] = "mark clean"
        /\ document' = "CLEAN" /\ UNCHANGED <<objectKey, object, infected>>
    BY <1>10 DEF MarkClean, Goes
  <2> QED BY <2>1, CompletionMoves DEF CompletionInv
<1>11. ASSUME NEW c \in Completions, MarkRejected(c) PROVE CompletionInv'
  <2>1. completion' = [completion EXCEPT ![c] = "drop rejected"] /\ completion[c] = "mark rejected"
        /\ document' = "REJECTED" /\ UNCHANGED <<objectKey, object, infected>>
    BY <1>11 DEF MarkRejected, Goes
  <2> QED BY <2>1, CompletionMoves DEF CompletionInv
<1>12. ASSUME NEW c \in Completions, DropRejected(c) PROVE CompletionInv'
  <2>1. completion' = [completion EXCEPT ![c] = "idle"] /\ completion[c] = "drop rejected"
        /\ DOMAIN object' = DOMAIN object /\ UNCHANGED <<document, objectKey, infected>>
    BY <1>12 DEF DropRejected, Goes
  <2> QED BY <1>4, <2>1, CompletionMoves DEF CompletionInv
<1>13. ASSUME NEW c \in Completions, DropObject(c) PROVE CompletionInv'
  <2>1. PICK k \in {"staging", "final"} :
           Goes(c, Drop[k], "mark mismatch") /\ object' \in {object, [object EXCEPT ![k] = "none"]}
    BY <1>13 DEF DropObject
  <2>2. completion[c] \in {"drop staging", "drop final"}
        /\ completion' = [completion EXCEPT ![c] = "mark mismatch"]
    <3>1. completion[c] = Drop[k] /\ completion' = [completion EXCEPT ![c] = "mark mismatch"]
      BY <2>1 DEF Goes
    <3>2. Drop["staging"] = "drop staging" /\ Drop["final"] = "drop final"
      BY DEF Drop
    <3> QED BY <3>1, <3>2
  <2>3. DOMAIN object' = DOMAIN object /\ UNCHANGED <<document, objectKey, infected>>
    BY <1>13, <2>1 DEF DropObject
  <2> QED BY <1>4, <2>2, <2>3, CompletionMoves DEF CompletionInv
<1>14. ASSUME NEW c \in Completions, RejectUploaded(c) PROVE CompletionInv'
  <2>1. completion' = [completion EXCEPT ![c] = "idle"] /\ document' = "REJECTED"
        /\ UNCHANGED <<objectKey, object, infected>>
    BY <1>14 DEF RejectUploaded, Goes
  <2> QED BY <2>1, CompletionMoves DEF CompletionInv
<1>15. ASSUME NEW c \in Completions, CompletionFails(c) PROVE CompletionInv'
  BY <1>15 DEF CompletionFails, CompletionInv
<1>16. CASE UNCHANGED documentVars
  BY <1>16 DEF documentVars, CompletionInv
<1> QED
  BY <1>1, <1>2, <1>3, <1>5, <1>6, <1>7, <1>8, <1>9, <1>10, <1>11, <1>12, <1>13, <1>14, <1>15,
     <1>16 DEF DocumentNext

\* What is marked CLEAN is the declared content at its final key, and the object
\* there becomes another one only by an execution that was overtaken, for any
\* number of overlapping executions (completeDocument).
THEOREM CleanIsLostOnlyInARace == DocumentSpec => UnverifiedOnlyInARace
<1> DEFINE Vouched ==
             /\ Passed' => objectKey' = "final" /\ ~infected'
             /\ Passed' /\ object'["final"] # "good" =>
                  \/ Passed /\ object["final"] # "good"
                  \/ \E c \in Completions : Overtaken(c) /\ completion'[c] # completion[c]
<1>1. DocumentInit => CompletionInv
  BY DEF DocumentInit, CompletionInv
<1>2. CompletionInv /\ [DocumentNext]_documentVars => CompletionInv'
  BY CompletionStep
<1>3. CompletionInv => (Passed => objectKey = "final" /\ ~infected)
  BY DEF CompletionInv, Passed
<1>4. ASSUME CompletionInv, CompletionInv', [DocumentNext]_documentVars PROVE Vouched
  <2>1. Passed' => objectKey' = "final" /\ ~infected'
    BY <1>4 DEF CompletionInv, Passed
  <2>2. ASSUME Passed', object'["final"] # "good", ~(Passed /\ object["final"] # "good"),
               NEW c \in Completions,
               FinalizeUpload(c) \/ Goes(c, Drop["final"], "mark mismatch"),
               UNCHANGED <<document, objectKey>>
        PROVE  Overtaken(c) /\ completion'[c] # completion[c]
    <3>1. \/ completion[c] = "copy" /\ completion'[c] = "head final"
          \/ completion[c] = "drop final" /\ completion'[c] = "mark mismatch"
      <4>1. Drop["final"] = "drop final"
        BY DEF Drop
      <4>2. DOMAIN completion = Completions
        BY <1>4 DEF CompletionInv
      <4>3. CASE FinalizeUpload(c)
        BY <4>2, <4>3 DEF FinalizeUpload, Goes
      <4>4. CASE Goes(c, "drop final", "mark mismatch")
        BY <4>2, <4>4 DEF Goes
      <4> QED BY <2>2, <4>1, <4>3, <4>4
    <3>2. objectKey = "final"
      BY <2>1, <2>2
    <3> QED BY <3>1, <3>2 DEF Overtaken, Drop
  <2>3. ASSUME object'["final"] # object["final"]
        PROVE  \/ infected'
               \/ \E c \in Completions :
                    /\ FinalizeUpload(c) \/ Goes(c, Drop["final"], "mark mismatch")
                    /\ UNCHANGED <<document, objectKey>>
    <3>1. CASE \E c \in Completions : DropRejected(c)
      <4>1. PICK c \in Completions : completion[c] = "drop rejected" /\ UNCHANGED infected
        BY <3>1 DEF DropRejected, Goes
      <4> QED BY <1>4, <4>1 DEF CompletionInv
    <3>2. ASSUME NEW c \in Completions, DropObject(c)
          PROVE  Goes(c, Drop["final"], "mark mismatch") /\ UNCHANGED <<document, objectKey>>
      <4>1. PICK k \in {"staging", "final"} :
               Goes(c, Drop[k], "mark mismatch") /\ object' \in {object, [object EXCEPT ![k] = "none"]}
        BY <3>2 DEF DropObject
      <4>2. k = "final"
        BY <1>4, <2>3, <4>1 DEF CompletionInv
      <4> QED BY <3>2, <4>1, <4>2 DEF DropObject
    <3>3. CASE \E c \in Completions : FinalizeUpload(c)
      BY <3>3 DEF FinalizeUpload
    <3>4. (\E c \in Completions : DropRejected(c) \/ DropObject(c) \/ FinalizeUpload(c))
      BY <1>4, <2>3
         DEF DocumentNext, documentVars, CompletionInv, RegisterDocument, ClientPut, PutUrlExpires,
             CompleteStart, HeadStaging, HeadFinal, MarkScanning, Scan, MarkClean, MarkRejected,
             RejectUploaded, CompletionFails
    <3> QED BY <3>1, <3>2, <3>3, <3>4
  <2>4. ASSUME Passed', ~Passed PROVE object'["final"] = "good"
    <3>1. PICK c \in Completions : MarkClean(c) \/ completion'[c] = "mark clean"
      BY <1>4, <2>4
         DEF Passed, DocumentNext, documentVars, RegisterDocument, ClientPut, PutUrlExpires,
             CompleteStart, HeadStaging, FinalizeUpload, HeadFinal, MarkScanning, Scan,
             MarkRejected, DropRejected, DropObject, RejectUploaded, CompletionFails
    <3> QED
      BY <1>4, <2>4, <3>1
         DEF Passed, Goes, Drop, CompletionInv, DocumentNext, documentVars, RegisterDocument,
             ClientPut, PutUrlExpires, CompleteStart, HeadStaging, FinalizeUpload, HeadFinal,
             MarkScanning, Scan, MarkClean, MarkRejected, DropRejected, DropObject,
             RejectUploaded, CompletionFails
  <2> QED BY <2>1, <2>2, <2>3, <2>4
<1> HIDE DEF Vouched
<1>5. DocumentSpec => [][Vouched]_documentVars
  BY <1>1, <1>2, <1>4, PTL DEF DocumentSpec
<1>6. [][Vouched]_documentVars => UnverifiedOnlyInARace
  BY PTL DEF Vouched, UnverifiedOnlyInARace
<1> QED BY <1>5, <1>6
-----------------------------------------------------------------------------
(***************************************************************************)
(* Dispatch.                                                               *)
(***************************************************************************)

\* Beside the property: a completion under way has seen the proof of delivery, which
\* is never taken back.
DispatchInv ==
    /\ DOMAIN assignment = Legs /\ DOMAIN crew = Legs /\ DOMAIN desk = Dispatchers
    /\ proof \in BOOLEAN
    /\ \A c \in Dispatchers : desk[c].op = "complete" => proof
    /\ TransportProven

\* A check leaves everything but the caller's own memory alone.
LEMMA ChecksKeepProof ==
    ASSUME DispatchInv, NEW c \in Dispatchers, NEW op, NEW x, NEW team,
           Requires(c, op, x, team), op = "complete" => proof
    PROVE  DispatchInv'
BY DEF Requires, DispatchInv, TransportProven, NobodyStranded, CompletedIsProven,
       bookingVars, assignmentVars, checkInVars

\* A write ends what its caller had checked.
LEMMA WritersDone ==
    ASSUME DispatchInv, NEW c \in Dispatchers, NEW op, NEW x, Writes(c, op, x),
           proof' \in BOOLEAN, proof => proof'
    PROVE  /\ DOMAIN desk' = Dispatchers
           /\ \A o \in Dispatchers : desk'[o].op = "complete" => proof'
BY DEF Writes, DispatchInv, DeskIdle

\* Whoever is ASSIGNED has an assignment that is not over, and what is DELIVERED or
\* COMPLETED is proven (assign, transitionAssignment, proofOfDelivery,
\* completeBooking).
THEOREM TransportsProven == DispatchSpec => []TransportProven
<1>1. DispatchInit => DispatchInv
  <2> SUFFICES ASSUME DispatchInit PROVE DispatchInv
    OBVIOUS
  <2>1. \A c \in Dispatchers : desk[c].op = "idle"
    BY DEF DispatchInit, DeskIdle
  <2>2. transport = "CONFIRMED" /\ proof = FALSE /\ engaged = {} /\ DOMAIN assignment = Legs
        /\ DOMAIN crew = Legs /\ DOMAIN desk = Dispatchers
    BY DEF DispatchInit
  <2> QED BY <2>1, <2>2 DEF DispatchInv, TransportProven, NobodyStranded, CompletedIsProven
<1>2. DispatchInv /\ [DispatchNext]_dispatchVars => DispatchInv'
  <2> SUFFICES ASSUME DispatchInv, [DispatchNext]_dispatchVars PROVE DispatchInv'
    OBVIOUS
  <2>1. ASSUME NEW c \in Dispatchers, NEW l \in Legs,
               AddLegCheck(c, l) \/ AssignCheck(c, l) \/ StartCheck(c, l) \/ FinishCheck(c, l)
        PROVE  DispatchInv'
    <3>1. \E op, x, team : Requires(c, op, x, team) /\ op # "complete"
      <4>1. CASE AddLegCheck(c, l)
        BY <4>1 DEF AddLegCheck
      <4>2. CASE AssignCheck(c, l)
        BY <4>2 DEF AssignCheck
      <4>3. CASE StartCheck(c, l)
        BY <4>3 DEF StartCheck
      <4>4. CASE FinishCheck(c, l)
        <5>1. PICK op \in {"COMPLETED", "CANCELLED"} : Requires(c, op, l, {})
          BY <4>4 DEF FinishCheck
        <5> QED BY <5>1
      <4> QED BY <2>1, <4>1, <4>2, <4>3, <4>4
    <3> QED BY <3>1, ChecksKeepProof
  <2>2. ASSUME NEW c \in Dispatchers, NEW l \in Legs, NEW k \in CheckIns, CheckInCheck(c, l, k)
        PROVE  DispatchInv'
    BY <2>2, ChecksKeepProof DEF CheckInCheck
  <2>3. ASSUME NEW c \in Dispatchers, ProofCheck(c) PROVE DispatchInv'
    BY <2>3, ChecksKeepProof DEF ProofCheck
  <2>4. ASSUME NEW c \in Dispatchers, CompleteCheck(c) PROVE DispatchInv'
    BY <2>4, ChecksKeepProof
       DEF CompleteCheck, DispatchInv, TransportProven, CompletedIsProven
  <2>5. ASSUME NEW c \in Dispatchers, NEW l \in Legs, AddLeg(c, l) PROVE DispatchInv'
    <3>1. /\ UNCHANGED <<proof, assignment, crew, engaged>>
          /\ transport' = "PLANNED" \/ UNCHANGED transport
      BY <2>5 DEF AddLeg, assignmentVars
    <3>2. Writes(c, "leg", l)
      BY <2>5 DEF AddLeg
    <3> QED BY <3>1, <3>2, WritersDone
            DEF DispatchInv, TransportProven, NobodyStranded, CompletedIsProven
  <2>6. ASSUME NEW c \in Dispatchers, NEW l \in Legs, Assign(c, l) PROVE DispatchInv'
    <3>1. UNCHANGED <<proof, transport>> /\ Writes(c, "assign", l)
      BY <2>6 DEF Assign, bookingVars
    <3>2. CASE assignment[l] = "NONE"
      <4>1. /\ assignment' = [assignment EXCEPT ![l] = "ASSIGNED"]
            /\ crew' = [crew EXCEPT ![l] = desk[c].crew]
            /\ engaged' = engaged \cup desk[c].crew
        BY <2>6, <3>2 DEF Assign
      <4>2. NobodyStranded'
        BY <3>2, <4>1 DEF DispatchInv, TransportProven, NobodyStranded
      <4> QED BY <3>1, <4>1, <4>2, WritersDone
              DEF DispatchInv, TransportProven, CompletedIsProven
    <3>3. CASE assignment[l] # "NONE"
      <4>1. UNCHANGED <<assignment, crew, engaged>>
        BY <2>6, <3>3 DEF Assign, assignmentVars
      <4> QED BY <3>1, <4>1, WritersDone
              DEF DispatchInv, TransportProven, NobodyStranded, CompletedIsProven
    <3> QED BY <3>2, <3>3
  <2>7. ASSUME NEW c \in Dispatchers, NEW l \in Legs, Start(c, l) PROVE DispatchInv'
    <3>1. /\ UNCHANGED <<proof, crew, engaged>> /\ transport' = "IN_TRANSIT"
          /\ assignment' = [assignment EXCEPT ![l] = "IN_TRANSIT"]
          /\ Writes(c, "start", l)
      BY <2>7 DEF Start
    <3>2. NobodyStranded'
      BY <3>1 DEF DispatchInv, TransportProven, NobodyStranded
    <3> QED BY <3>1, <3>2, WritersDone DEF DispatchInv, TransportProven, CompletedIsProven
  <2>8. ASSUME NEW c \in Dispatchers, NEW l \in Legs, FinishAssignment(c, l) PROVE DispatchInv'
    <3>1. PICK op \in {"COMPLETED", "CANCELLED"} :
            /\ Writes(c, op, l)
            /\ assignment' = [assignment EXCEPT ![l] = op]
            /\ engaged' = engaged \ crew[l]
            /\ UNCHANGED <<transport, proof, crew>>
      BY <2>8 DEF FinishAssignment
    <3>2. NobodyStranded'
      BY <3>1 DEF DispatchInv, TransportProven, NobodyStranded
    <3> QED BY <3>1, <3>2, WritersDone DEF DispatchInv, TransportProven, CompletedIsProven
  <2>9. ASSUME NEW c \in Dispatchers, NEW l \in Legs, NEW k \in CheckIns, CheckIn(c, l, k)
        PROVE  DispatchInv'
    <3>1. UNCHANGED <<proof, transport, assignment, crew, engaged>>
          /\ Writes(c, "checkin", <<l, k>>)
      BY <2>9 DEF CheckIn, bookingVars, assignmentVars
    <3> QED BY <3>1, WritersDone
            DEF DispatchInv, TransportProven, NobodyStranded, CompletedIsProven
  <2>10. ASSUME NEW c \in Dispatchers, ProofOfDelivery(c) PROVE DispatchInv'
    <3>1. /\ UNCHANGED <<assignment, crew, engaged>> /\ Writes(c, "proof", None)
          /\ proof' = TRUE
          /\ transport' \in {transport, "DELIVERED"}
      BY <2>10 DEF ProofOfDelivery, assignmentVars, DispatchInv
    <3> QED BY <3>1, WritersDone
            DEF DispatchInv, TransportProven, NobodyStranded, CompletedIsProven
  <2>11. ASSUME NEW c \in Dispatchers, CompleteBooking(c) PROVE DispatchInv'
    <3>1. /\ UNCHANGED <<proof, assignment, crew, engaged>> /\ Writes(c, "complete", None)
          /\ transport' = "COMPLETED"
      BY <2>11 DEF CompleteBooking, assignmentVars
    <3>2. proof
      BY <3>1 DEF Writes, DispatchInv
    <3> QED BY <3>1, <3>2, WritersDone
            DEF DispatchInv, TransportProven, NobodyStranded, CompletedIsProven
  <2>12. ASSUME NEW w \in Sweeping, SweeperStep(w) PROVE DispatchInv'
    <3>1. /\ UNCHANGED <<proof, assignment, crew, engaged, desk>>
          /\ transport' \in {transport, "EXCEPTION"}
      BY <2>12 DEF SweeperStep, SweepStart, SweepLook, SweepOpen, bookingVars, assignmentVars
    <3> QED BY <3>1 DEF DispatchInv, TransportProven, NobodyStranded, CompletedIsProven
  <2>13. ASSUME NEW l \in Legs, CheckInDue(l) PROVE DispatchInv'
    BY <2>13 DEF CheckInDue, bookingVars, assignmentVars, DispatchInv, TransportProven,
                 NobodyStranded, CompletedIsProven
  <2>14. CASE UNCHANGED dispatchVars
    BY <2>14 DEF dispatchVars, bookingVars, assignmentVars, DispatchInv, TransportProven,
                 NobodyStranded, CompletedIsProven
  <2> QED
    BY <2>1, <2>2, <2>3, <2>4, <2>5, <2>6, <2>7, <2>8, <2>9, <2>10, <2>11, <2>12, <2>13, <2>14
       DEF DispatchNext, DeskStep
<1>3. DispatchInv => TransportProven
  BY DEF DispatchInv
<1> QED BY <1>1, <1>2, <1>3, PTL DEF DispatchSpec
-----------------------------------------------------------------------------
(***************************************************************************)
(* The limit on attempts.                                                  *)
(***************************************************************************)

\* What was let through in a window was counted in it.
CountersInv ==
    /\ count \in [Keys -> Nat] /\ admitted \in [Keys -> Nat]
    /\ DOMAIN attempt = Attempts
    /\ \A k \in Keys : admitted[k] <= count[k] /\ admitted[k] <= Maximum

\* A counter that is consumed lets its attempt through within the limit only.
LEMMA ConsumedWithinLimit ==
    ASSUME CountersInv, NEW k \in Keys, Consume(k),
           \/ WithinLimit(count'[k]) /\ admitted' = [admitted EXCEPT ![k] = @ + 1]
           \/ UNCHANGED admitted
    PROVE  /\ count' \in [Keys -> Nat] /\ admitted' \in [Keys -> Nat]
           /\ \A j \in Keys : admitted'[j] <= count'[j] /\ admitted'[j] <= Maximum
BY ThrottleAssumption DEF CountersInv, Consume, WithinLimit

\* In one window no more attempts are let through than the limit (consume).
THEOREM AttemptsLimited == ThrottleSpec => []AdmittedWithinLimit
<1>1. ThrottleInit => CountersInv
  BY ThrottleAssumption DEF ThrottleInit, CountersInv
<1>2. CountersInv /\ [ThrottleNext]_throttleVars => CountersInv'
  <2> SUFFICES ASSUME CountersInv, [ThrottleNext]_throttleVars PROVE CountersInv'
    OBVIOUS
  <2>1. ASSUME NEW c \in Attempts, NEW a \in Accounts, NEW i \in Addresses,
               ConsumeAccount(c, a, i)
        PROVE  CountersInv'
    <3>1. Consume(a) /\ a \in Keys /\ DOMAIN attempt' = Attempts
      BY <2>1 DEF ConsumeAccount, Keys, CountersInv
    <3>2. \/ WithinLimit(count'[a]) /\ admitted' = [admitted EXCEPT ![a] = @ + 1]
          \/ UNCHANGED admitted
      BY <2>1 DEF ConsumeAccount
    <3> QED BY <3>1, <3>2, ConsumedWithinLimit DEF CountersInv
  <2>2. ASSUME NEW c \in Attempts, NEW a \in Accounts, NEW i \in Addresses,
               ConsumeAddress(c, a, i)
        PROVE  CountersInv'
    <3>1. Consume(i) /\ i \in Keys /\ DOMAIN attempt' = Attempts
      BY <2>2 DEF ConsumeAddress, Keys, CountersInv
    <3>2. \/ WithinLimit(count'[i]) /\ admitted' = [admitted EXCEPT ![i] = @ + 1]
          \/ UNCHANGED admitted
      BY <2>2 DEF ConsumeAddress
    <3> QED BY <3>1, <3>2, ConsumedWithinLimit DEF CountersInv
  <2>3. ASSUME NEW c \in Attempts, Unavailable(c) PROVE CountersInv'
    BY <2>3 DEF Unavailable, CountersInv
  <2>4. ASSUME NEW k \in Keys, Expires(k) PROVE CountersInv'
    BY <2>4, ThrottleAssumption DEF Expires, CountersInv
  <2>5. CASE UNCHANGED throttleVars
    BY <2>5 DEF throttleVars, CountersInv
  <2> QED BY <2>1, <2>2, <2>3, <2>4, <2>5 DEF ThrottleNext
<1>3. CountersInv => AdmittedWithinLimit
  BY DEF CountersInv, AdmittedWithinLimit
<1> QED BY <1>1, <1>2, <1>3, PTL DEF ThrottleSpec
-----------------------------------------------------------------------------
(***************************************************************************)
(* Second factors.                                                         *)
(***************************************************************************)

CredentialRows ==
    [secret : Secrets \cup {None}, pending : Secrets \cup {None}, timely : BOOLEAN,
     confirmed : BOOLEAN]

DeviceRows ==
    [op : {"idle", "enroll", "clear", "confirm"}, secret : Secrets \cup {None},
     seen : CredentialRows]

EnrolmentTyped ==
    /\ credential \in CredentialRows /\ recovery \in BOOLEAN
    /\ device \in [Devices -> DeviceRows]
    /\ \A c \in Devices : device[c].op = "enroll" => device[c].secret \in Secrets

\* The secret a code was checked against is the one that was read.
CheckedAsRead ==
    \A c \in Devices :
        device[c].op = "confirm" =>
            device[c].secret = IF device[c].seen.pending # None THEN device[c].seen.pending
                               ELSE device[c].seen.secret

EnrolmentInv == EnrolmentTyped /\ CheckedAsRead /\ UnconfirmedHasNoCodes

\* The invariant holds at the start.
LEMMA EnrolmentStarts == EnrolmentInit => EnrolmentInv
<1> SUFFICES ASSUME EnrolmentInit PROVE EnrolmentInv
  OBVIOUS
<1>1. credential = NoCredential /\ recovery = FALSE /\ device = [c \in Devices |-> DeviceIdle]
  BY DEF EnrolmentInit
<1>2. NoCredential \in CredentialRows
  BY DEF NoCredential, CredentialRows
<1>3. DeviceIdle \in DeviceRows /\ DeviceIdle.op = "idle"
  BY <1>2 DEF DeviceIdle, DeviceRows
<1> QED
  BY <1>1, <1>2, <1>3 DEF EnrolmentInv, EnrolmentTyped, CheckedAsRead, UnconfirmedHasNoCodes

\* Every step keeps it.
LEMMA EnrolmentKept ==
    ASSUME EnrolmentInv, [EnrolmentNext]_enrolmentVars
    PROVE  EnrolmentInv'
<1>1. ASSUME NEW c \in Devices, NEW x \in Secrets, EnrollRead(c, x) PROVE EnrolmentInv'
  <2> DEFINE row == [op |-> "enroll", secret |-> x, seen |-> credential]
  <2>1. row \in DeviceRows /\ row.op = "enroll" /\ row.secret = x
    BY DEF EnrolmentInv, EnrolmentTyped, DeviceRows
  <2>2. device' = [device EXCEPT ![c] = row] /\ device[c] = DeviceIdle
        /\ UNCHANGED <<credential, recovery>>
    BY <1>1 DEF EnrollRead
  <2> HIDE DEF row
  <2>3. UnconfirmedHasNoCodes'
    BY <2>1, <2>2 DEF EnrolmentInv, EnrolmentTyped, UnconfirmedHasNoCodes, DeviceIdle
  <2> QED BY <2>1, <2>2, <2>3 DEF EnrolmentInv, EnrolmentTyped, CheckedAsRead
<1>2. ASSUME NEW c \in Devices, EnrollUpsert(c) PROVE EnrolmentInv'
  <2>1. device[c] \in DeviceRows /\ device[c].op = "enroll" /\ device[c].secret \in Secrets
        /\ device[c].seen.confirmed \in BOOLEAN
    BY <1>2 DEF EnrollUpsert, EnrolmentInv, EnrolmentTyped, DeviceRows, CredentialRows
  <2>2. CASE device[c].seen.confirmed
    <3> DEFINE row == [credential EXCEPT !.pending = device[c].secret, !.timely = TRUE]
    <3>1. credential' = row /\ device' = [device EXCEPT ![c] = DeviceIdle] /\ UNCHANGED recovery
      BY <1>2, <2>2 DEF EnrollUpsert, Enrolled
    <3>2. row \in CredentialRows /\ row.confirmed = credential.confirmed
      BY <2>1 DEF EnrolmentInv, EnrolmentTyped, CredentialRows
    <3>3. DeviceIdle \in DeviceRows /\ DeviceIdle.op = "idle"
      BY DEF DeviceIdle, DeviceRows, NoCredential, CredentialRows
    <3> HIDE DEF row
    <3>4. UnconfirmedHasNoCodes'
      BY <2>1, <3>1, <3>2 DEF EnrolmentInv, EnrolmentTyped, UnconfirmedHasNoCodes
    <3> QED BY <3>1, <3>2, <3>3, <3>4 DEF EnrolmentInv, EnrolmentTyped, CheckedAsRead
  <2>3. CASE ~device[c].seen.confirmed
    <3> DEFINE row == [device[c] EXCEPT !.op = "clear"]
               cred == [secret |-> device[c].secret, pending |-> None, timely |-> FALSE,
                        confirmed |-> FALSE]
    <3>1. credential' = cred /\ device' = [device EXCEPT ![c] = row] /\ UNCHANGED recovery
      BY <1>2, <2>3 DEF EnrollUpsert, Enrolled
    <3>2. cred \in CredentialRows
      BY <2>1 DEF CredentialRows
    <3>3. row \in DeviceRows /\ row.op = "clear"
      BY <2>1 DEF DeviceRows
    <3> HIDE DEF row, cred
    <3>4. UnconfirmedHasNoCodes'
      BY <3>1, <3>3 DEF EnrolmentInv, EnrolmentTyped, UnconfirmedHasNoCodes
    <3> QED BY <3>1, <3>2, <3>3, <3>4 DEF EnrolmentInv, EnrolmentTyped, CheckedAsRead
  <2> QED BY <2>1, <2>2, <2>3
<1>3. ASSUME NEW c \in Devices, EnrollClear(c) PROVE EnrolmentInv'
  <2>1. DeviceIdle \in DeviceRows /\ DeviceIdle.op = "idle"
    BY DEF DeviceIdle, DeviceRows, NoCredential, CredentialRows
  <2>2. device' = [device EXCEPT ![c] = DeviceIdle] /\ recovery' = FALSE /\ UNCHANGED credential
    BY <1>3 DEF EnrollClear, CodesCleared
  <2> QED
    BY <2>1, <2>2
       DEF EnrolmentInv, EnrolmentTyped, CheckedAsRead, UnconfirmedHasNoCodes
<1>4. ASSUME NEW c \in Devices, ConfirmRead(c) PROVE EnrolmentInv'
  <2> DEFINE row == [op |-> "confirm", secret |-> Candidate, seen |-> credential]
  <2>1. row \in DeviceRows /\ row.op = "confirm"
    BY DEF EnrolmentInv, EnrolmentTyped, DeviceRows, Candidate, CredentialRows
  <2>2. row.secret = IF row.seen.pending # None THEN row.seen.pending ELSE row.seen.secret
    BY DEF Candidate
  <2>3. device' = [device EXCEPT ![c] = row] /\ device[c] = DeviceIdle
        /\ UNCHANGED <<credential, recovery>>
    BY <1>4 DEF ConfirmRead
  <2> HIDE DEF row
  <2>4. UnconfirmedHasNoCodes'
    BY <2>1, <2>3 DEF EnrolmentInv, EnrolmentTyped, UnconfirmedHasNoCodes, DeviceIdle
  <2> QED BY <2>1, <2>2, <2>3, <2>4 DEF EnrolmentInv, EnrolmentTyped, CheckedAsRead
<1>5. ASSUME NEW c \in Devices, Confirm(c) PROVE EnrolmentInv'
  <2> DEFINE cred == [secret |-> IF device[c].seen.pending # None THEN device[c].seen.pending
                                 ELSE credential.secret,
                      pending |-> None, timely |-> FALSE, confirmed |-> TRUE]
  <2>1. cred \in CredentialRows /\ cred.confirmed = TRUE
    BY DEF EnrolmentInv, EnrolmentTyped, DeviceRows, CredentialRows
  <2>2. DeviceIdle \in DeviceRows /\ DeviceIdle.op = "idle"
    BY DEF DeviceIdle, DeviceRows, NoCredential, CredentialRows
  <2>3. device' = [device EXCEPT ![c] = DeviceIdle] /\ recovery' = TRUE /\ credential' = cred
    BY <1>5 DEF Confirm
  <2> HIDE DEF cred
  <2> QED
    BY <2>1, <2>2, <2>3
       DEF EnrolmentInv, EnrolmentTyped, CheckedAsRead, UnconfirmedHasNoCodes
<1>6. CASE PendingExpires
  <2> DEFINE cred == [credential EXCEPT !.timely = FALSE]
  <2>1. cred \in CredentialRows /\ cred.confirmed = credential.confirmed
    BY DEF EnrolmentInv, EnrolmentTyped, CredentialRows
  <2>2. credential' = cred /\ UNCHANGED <<recovery, device>>
    BY <1>6 DEF PendingExpires
  <2> HIDE DEF cred
  <2> QED
    BY <2>1, <2>2
       DEF EnrolmentInv, EnrolmentTyped, CheckedAsRead, UnconfirmedHasNoCodes
<1>7. ASSUME UNCHANGED <<credential, recovery, device>> PROVE EnrolmentInv'
  BY <1>7 DEF EnrolmentInv, EnrolmentTyped, CheckedAsRead, UnconfirmedHasNoCodes
<1>8. ASSUME NEW r \in Registrations, Register(r) PROVE EnrolmentInv'
  BY <1>7, <1>8 DEF Register
<1>9. ASSUME NEW t \in MailTokens, RequestVerification(t) \/ VerifyEmail(t) PROVE EnrolmentInv'
  BY <1>7, <1>9 DEF RequestVerification, VerifyEmail
<1>10. CASE UNCHANGED enrolmentVars
  BY <1>7, <1>10 DEF enrolmentVars
<1> QED
  BY <1>1, <1>2, <1>3, <1>4, <1>5, <1>6, <1>8, <1>9, <1>10 DEF EnrolmentNext

\* The invariant holds throughout.
LEMMA EnrolmentHolds == EnrolmentSpec => []EnrolmentInv
BY EnrolmentStarts, EnrolmentKept, PTL DEF EnrolmentSpec

\* The recovery codes of a credential that is not confirmed are about to be cleared
\* (enroll).
THEOREM CodesGoWithTheirFactor == EnrolmentSpec => []UnconfirmedHasNoCodes
BY EnrolmentHolds, PTL DEF EnrolmentInv

\* Only an enrolment that had read the factor before it was confirmed switches it off
\* (enroll).
THEOREM FactorsStayOn == EnrolmentSpec => SwitchedOffOnlyInARace
<1>1. EnrolmentInv /\ [EnrolmentNext]_enrolmentVars =>
        [credential.confirmed =>
            /\ Enrolling' \subseteq Enrolling
            /\ Enrolling = {} => credential'.confirmed]_enrolmentVars
  <2> SUFFICES ASSUME EnrolmentInv, EnrolmentNext, credential.confirmed
               PROVE  /\ Enrolling' \subseteq Enrolling
                      /\ Enrolling = {} => credential'.confirmed
    OBVIOUS
  <2>1. ASSUME UNCHANGED credential, NEW c \in Devices, NEW row,
               device' = [device EXCEPT ![c] = row],
               row.op # "enroll" \/ row.seen = credential
        PROVE  Enrolling' \subseteq Enrolling /\ credential'.confirmed
    BY <2>1 DEF Enrolling, EnrolmentInv, EnrolmentTyped
  <2>2. ASSUME NEW c \in Devices, NEW x \in Secrets, EnrollRead(c, x)
        PROVE  Enrolling' \subseteq Enrolling /\ credential'.confirmed
    <3> DEFINE row == [op |-> "enroll", secret |-> x, seen |-> credential]
    <3>1. row.seen = credential
      OBVIOUS
    <3>2. UNCHANGED credential /\ device' = [device EXCEPT ![c] = row]
      BY <2>2 DEF EnrollRead
    <3> HIDE DEF row
    <3> QED BY <2>1, <3>1, <3>2
  <2>3. ASSUME NEW c \in Devices, EnrollUpsert(c)
        PROVE  /\ Enrolling' \subseteq Enrolling
               /\ Enrolling = {} => credential'.confirmed
    <3>1. device[c].op = "enroll" /\ device[c] \in DeviceRows
      BY <2>3 DEF EnrollUpsert, EnrolmentInv, EnrolmentTyped
    <3>2. CASE device[c].seen.confirmed
      <4>1. credential' = [credential EXCEPT !.pending = device[c].secret, !.timely = TRUE]
            /\ device' = [device EXCEPT ![c] = DeviceIdle]
        BY <2>3, <3>2 DEF EnrollUpsert, Enrolled
      <4>2. credential'.confirmed = credential.confirmed
        BY <4>1 DEF EnrolmentInv, EnrolmentTyped, CredentialRows
      <4>3. DeviceIdle.op = "idle"
        BY DEF DeviceIdle
      <4> QED BY <4>1, <4>2, <4>3 DEF Enrolling, EnrolmentInv, EnrolmentTyped
    <3>3. CASE ~device[c].seen.confirmed
      <4> DEFINE row == [device[c] EXCEPT !.op = "clear"]
      <4>1. device' = [device EXCEPT ![c] = row]
        BY <2>3, <3>3 DEF EnrollUpsert
      <4>2. row.op = "clear"
        BY <3>1 DEF DeviceRows
      <4>3. c \in Enrolling
        BY <3>1, <3>3 DEF Enrolling
      <4> HIDE DEF row
      <4> QED BY <4>1, <4>2, <4>3 DEF Enrolling, EnrolmentInv, EnrolmentTyped
    <3> QED BY <3>2, <3>3
  <2>4. ASSUME NEW c \in Devices, EnrollClear(c)
        PROVE  Enrolling' \subseteq Enrolling /\ credential'.confirmed
    BY <2>1, <2>4 DEF EnrollClear, DeviceIdle
  <2>5. ASSUME NEW c \in Devices, ConfirmRead(c)
        PROVE  Enrolling' \subseteq Enrolling /\ credential'.confirmed
    <3> DEFINE row == [op |-> "confirm", secret |-> Candidate, seen |-> credential]
    <3>1. row.op # "enroll"
      OBVIOUS
    <3>2. UNCHANGED credential /\ device' = [device EXCEPT ![c] = row]
      BY <2>5 DEF ConfirmRead
    <3> HIDE DEF row
    <3> QED BY <2>1, <3>1, <3>2
  <2>6. ASSUME NEW c \in Devices, Confirm(c)
        PROVE  Enrolling' \subseteq Enrolling /\ credential'.confirmed
    <3>1. device' = [device EXCEPT ![c] = DeviceIdle] /\ DeviceIdle.op = "idle"
          /\ credential'.confirmed = TRUE
      BY <2>6 DEF Confirm, DeviceIdle
    <3> QED BY <3>1 DEF Enrolling, EnrolmentInv, EnrolmentTyped
  <2>7. CASE PendingExpires
    <3>1. credential'.confirmed = credential.confirmed /\ UNCHANGED device
      BY <2>7 DEF PendingExpires, EnrolmentInv, EnrolmentTyped, CredentialRows
    <3> QED BY <3>1 DEF Enrolling
  <2>8. ASSUME UNCHANGED <<credential, device>>
        PROVE  Enrolling' \subseteq Enrolling /\ credential'.confirmed
    BY <2>8 DEF Enrolling
  <2>9. ASSUME NEW r \in Registrations, Register(r)
        PROVE  Enrolling' \subseteq Enrolling /\ credential'.confirmed
    BY <2>8, <2>9 DEF Register
  <2>10. ASSUME NEW t \in MailTokens, RequestVerification(t) \/ VerifyEmail(t)
         PROVE  Enrolling' \subseteq Enrolling /\ credential'.confirmed
    BY <2>8, <2>10 DEF RequestVerification, VerifyEmail
  <2> QED BY <2>2, <2>3, <2>4, <2>5, <2>6, <2>7, <2>9, <2>10 DEF EnrolmentNext
<1> QED BY <1>1, EnrolmentHolds, PTL DEF EnrolmentSpec, SwitchedOffOnlyInARace

\* What counts as confirmed was shown a code of, unless the secret was replaced after
\* the code was checked (confirm).
THEOREM FactorsProven == EnrolmentSpec => ConfirmedIsProven
<1>1. EnrolmentInv /\ [EnrolmentNext]_enrolmentVars =>
        [\A c \in Devices :
            device[c].op = "confirm" /\ device'[c].op # "confirm" =>
               \/ credential'.secret = device[c].secret
               \/ credential # device[c].seen]_enrolmentVars
  <2> SUFFICES ASSUME EnrolmentInv, EnrolmentNext, NEW d \in Devices,
                      device[d].op = "confirm", device'[d].op # "confirm",
                      credential = device[d].seen
               PROVE  credential'.secret = device[d].secret
    OBVIOUS
  <2>1. ASSUME NEW c \in Devices, NEW row, device' = [device EXCEPT ![c] = row] PROVE c = d
    BY <2>1 DEF EnrolmentInv, EnrolmentTyped
  <2>2. ASSUME NEW c \in Devices, NEW x \in Secrets, EnrollRead(c, x) PROVE FALSE
    BY <2>1, <2>2 DEF EnrollRead, DeviceIdle
  <2>3. ASSUME NEW c \in Devices, EnrollUpsert(c) \/ EnrollClear(c) \/ ConfirmRead(c) PROVE FALSE
    BY <2>1, <2>3 DEF EnrollUpsert, EnrollClear, ConfirmRead, DeviceIdle
  <2>4. ASSUME NEW c \in Devices, Confirm(c) PROVE credential'.secret = device[d].secret
    <3>1. c = d
      BY <2>1, <2>4 DEF Confirm
    <3>2. credential'.secret = IF device[d].seen.pending # None THEN device[d].seen.pending
                               ELSE credential.secret
      BY <2>4, <3>1 DEF Confirm
    <3> QED BY <3>2 DEF EnrolmentInv, CheckedAsRead
  <2>5. UNCHANGED device => FALSE
    OBVIOUS
  <2>6. CASE PendingExpires
    BY <2>5, <2>6 DEF PendingExpires
  <2>7. ASSUME NEW r \in Registrations, Register(r) PROVE FALSE
    BY <2>5, <2>7 DEF Register
  <2>8. ASSUME NEW t \in MailTokens, RequestVerification(t) \/ VerifyEmail(t) PROVE FALSE
    BY <2>5, <2>8 DEF RequestVerification, VerifyEmail
  <2> QED BY <2>2, <2>3, <2>4, <2>6, <2>7, <2>8 DEF EnrolmentNext
<1> QED BY <1>1, EnrolmentHolds, PTL DEF EnrolmentSpec, ConfirmedIsProven
-----------------------------------------------------------------------------
(***************************************************************************)
(* Partner credentials, their calls and notices.                           *)
(***************************************************************************)

\* What was let through in a minute was counted in it.
WindowsInv ==
    /\ window \in [ApiKeys -> Nat] /\ passed \in [ApiKeys -> Nat]
    /\ called \in [ApiCalls -> ApiKeys \cup {None}]
    /\ \A k \in ApiKeys : passed[k] <= window[k] /\ passed[k] <= PerMinute

\* Calls leave it as it is, whatever key they count.
LEMMA CallsKeepWindows ==
    ASSUME WindowsInv, CallNext
    PROVE  WindowsInv'
<1>1. ASSUME NEW c \in ApiCalls, NEW k \in ApiKeys, LookUpKey(c, k) PROVE WindowsInv'
  BY <1>1 DEF LookUpKey, WindowsInv
<1>2. ASSUME NEW c \in ApiCalls, ConsumeRate(c) PROVE WindowsInv'
  <2> DEFINE k == called[c]
  <2>1. k \in ApiKeys
    BY <1>2 DEF ConsumeRate, WindowsInv
  <2>2. window' = [window EXCEPT ![k] = @ + 1] /\ called' = [called EXCEPT ![c] = None]
        /\ \/ window'[k] <= PerMinute /\ passed' = [passed EXCEPT ![k] = @ + 1]
           \/ UNCHANGED passed
    BY <1>2 DEF ConsumeRate, WithinRate
  <2> HIDE DEF k
  <2> QED BY <2>1, <2>2, PartnerKeysAssumption DEF WindowsInv
<1>3. CASE NextMinute
  BY <1>3, PartnerKeysAssumption DEF NextMinute, WindowsInv
<1> QED BY <1>1, <1>2, <1>3 DEF CallNext

\* In one minute no more calls of a credential are let through than its limit
\* (consumeRate).
THEOREM CallsLimited == PartnerKeysSpec => []CallsWithinRate
<1>1. PartnerKeysInit => WindowsInv
  BY PartnerKeysAssumption DEF PartnerKeysInit, WindowsInv
<1>2. WindowsInv /\ [PartnerKeysNext]_partnerKeysVars => WindowsInv'
  <2>1. RotationNext \/ NoticeNext => UNCHANGED callVars
    BY DEF RotationNext, NoticeNext, CreateKey, RevokeKey, RotateKeyRead, RotateKeyIssue,
           RotateKeyRevoke, RotateKeyStops, ReceiveRead, ReceiveNotice
  <2>2. WindowsInv /\ UNCHANGED callVars => WindowsInv'
    BY DEF WindowsInv, callVars
  <2> QED BY <2>1, <2>2, CallsKeepWindows DEF PartnerKeysNext, partnerKeysVars
<1>3. WindowsInv => CallsWithinRate
  BY DEF WindowsInv, CallsWithinRate
<1> QED BY <1>1, <1>2, <1>3, PTL DEF PartnerKeysSpec

\* What is answered as new has its row, and an event has one row.
NoticesInv ==
    /\ DOMAIN notice = Notices
    /\ \A n \in Notices : notice[n] = "fresh" => n \in receipts
    /\ receipts \subseteq Notices
    /\ \A n, o \in receipts : NoticeOf[n] = NoticeOf[o] => n = o

\* One event is answered as new once, however its requests overlap (receiveWebhook).
THEOREM NoticesOnce == PartnerKeysSpec => []NoticedOnce
<1>1. PartnerKeysInit => NoticesInv
  BY DEF PartnerKeysInit, NoticesInv
<1>2. NoticesInv /\ [PartnerKeysNext]_partnerKeysVars => NoticesInv'
  <2> SUFFICES ASSUME NoticesInv, [PartnerKeysNext]_partnerKeysVars PROVE NoticesInv'
    OBVIOUS
  <2>1. ASSUME NEW n \in Notices, ReceiveRead(n) PROVE NoticesInv'
    BY <2>1 DEF ReceiveRead, NoticesInv
  <2>2. ASSUME NEW n \in Notices, ReceiveNotice(n) PROVE NoticesInv'
    <3>1. CASE ReceiptInsertable(n)
      <4>1. notice' = [notice EXCEPT ![n] = "fresh"] /\ receipts' = receipts \cup {n}
        BY <2>2, <3>1 DEF ReceiveNotice
      <4>2. \A o \in receipts : NoticeOf[o] # NoticeOf[n]
        BY <3>1 DEF ReceiptInsertable, Receipted
      <4> QED BY <4>1, <4>2 DEF NoticesInv
    <3>2. CASE ~ReceiptInsertable(n)
      BY <2>2, <3>2 DEF ReceiveNotice, NoticesInv
    <3> QED BY <3>1, <3>2
  <2>3. RotationNext \/ CallNext => UNCHANGED noticeVars
    BY DEF RotationNext, CallNext, CreateKey, RevokeKey, RotateKeyRead, RotateKeyIssue,
           RotateKeyRevoke, RotateKeyStops, LookUpKey, ConsumeRate, NextMinute
  <2>4. UNCHANGED noticeVars => NoticesInv'
    BY DEF NoticesInv, noticeVars
  <2> QED BY <2>1, <2>2, <2>3, <2>4 DEF PartnerKeysNext, NoticeNext, partnerKeysVars
<1>3. NoticesInv => NoticedOnce
  BY DEF NoticesInv, NoticedOnce
<1> QED BY <1>1, <1>2, <1>3, PTL DEF PartnerKeysSpec

RotationRows ==
    [step : {"idle", "read", "issued", "answered", "stopped"},
     prior : ApiKeys \cup {None}, next : ApiKeys \cup {None}]

RotationsTyped ==
    /\ apiKey \in [ApiKeys -> {"NONE", "LIVE", "REVOKED"}]
    /\ rotatedFrom \in [ApiKeys -> ApiKeys \cup {None}]
    /\ rotation \in [Rotators -> RotationRows]
    /\ \A c \in Rotators :
          rotation[c].step \in {"read", "issued", "answered"} =>
             rotation[c].prior \in ApiKeys /\ apiKey[rotation[c].prior] # "NONE"
    /\ \A n \in ApiKeys : apiKey[n] = "NONE" => rotatedFrom[n] = None

AnsweredIsRevoked ==
    \A c \in Rotators :
       rotation[c].step = "answered" => apiKey[rotation[c].prior] = "REVOKED"

\* One rotation of a key is under way at a time and stores one successor, which it
\* has by the time the key is revoked; a key an administrator revoked has none.
OneRotation(k) ==
    /\ \A c, o \in Rotating(k) : c = o
    /\ \A c \in Rotating(k) : rotation[c].step = "read" => Successors(k) = {}
    /\ \A n, m \in Successors(k) : n = m
    /\ Successors(k) # {} =>
          apiKey[k] = "REVOKED" \/ \E c \in Rotating(k) : rotation[c].step = "issued"
    /\ k \in withdrawn => apiKey[k] = "REVOKED" /\ Rotating(k) = {} /\ Successors(k) = {}

RotationsInv ==
    RotationsTyped /\ AnsweredIsRevoked /\ \A k \in ApiKeys \ troubled : OneRotation(k)

\* A key that is created is nobody's successor.
LEMMA CreationKeepsRotations ==
    ASSUME RotationsInv, NEW k \in ApiKeys, CreateKey(k)
    PROVE  RotationsInv'
<1>1. /\ apiKey[k] = "NONE" /\ apiKey' = [apiKey EXCEPT ![k] = "LIVE"]
      /\ rotatedFrom' = [rotatedFrom EXCEPT ![k] = None]
      /\ UNCHANGED <<rotation, withdrawn, troubled>>
  BY DEF CreateKey, IssueKey
<1>2. RotationsTyped'
  BY <1>1 DEF RotationsInv, RotationsTyped
<1>3. UNCHANGED rotatedFrom
  BY <1>1 DEF RotationsInv, RotationsTyped
<1>4. AnsweredIsRevoked'
  BY <1>1 DEF RotationsInv, RotationsTyped, AnsweredIsRevoked
<1>5. ASSUME NEW j \in ApiKeys \ troubled PROVE OneRotation(j)'
  <2>1. Rotating(j)' = Rotating(j) /\ Successors(j)' = Successors(j)
    BY <1>1, <1>3 DEF Rotating, Successors
  <2>2. apiKey[j] = "REVOKED" => apiKey'[j] = "REVOKED"
    BY <1>1 DEF RotationsInv, RotationsTyped
  <2>3. OneRotation(j)
    BY DEF RotationsInv
  <2> QED BY <1>1, <2>1, <2>2, <2>3 DEF OneRotation
<1> QED BY <1>1, <1>2, <1>4, <1>5 DEF RotationsInv

\* A revocation that overlaps a rotation of its key troubles the key.
LEMMA RevocationKeepsRotations ==
    ASSUME RotationsInv, NEW k \in ApiKeys, RevokeKey(k)
    PROVE  RotationsInv'
<1>1. /\ apiKey[k] = "LIVE" /\ apiKey' = [apiKey EXCEPT ![k] = "REVOKED"]
      /\ withdrawn' = withdrawn \cup {k}
      /\ troubled' = IF Rotating(k) # {} THEN troubled \cup {k} ELSE troubled
      /\ UNCHANGED <<rotatedFrom, rotation>>
  BY DEF RevokeKey
<1>2. RotationsTyped'
  BY <1>1 DEF RotationsInv, RotationsTyped
<1>3. AnsweredIsRevoked'
  BY <1>1 DEF RotationsInv, RotationsTyped, AnsweredIsRevoked
<1>4. ASSUME NEW j \in ApiKeys \ troubled' PROVE OneRotation(j)'
  <2>1. Rotating(j)' = Rotating(j) /\ Successors(j)' = Successors(j)
    BY <1>1 DEF Rotating, Successors
  <2>2. apiKey[j] = "REVOKED" => apiKey'[j] = "REVOKED"
    BY <1>1 DEF RotationsInv, RotationsTyped
  <2>3. OneRotation(j)
    BY <1>1 DEF RotationsInv
  <2>4. j = k => Rotating(k) = {} /\ apiKey'[k] = "REVOKED"
    BY <1>1 DEF RotationsInv, RotationsTyped
  <2>5. j = k => Successors(k) = {}
    BY <1>1, <2>3, <2>4 DEF OneRotation
  <2> QED BY <1>1, <2>1, <2>2, <2>3, <2>4, <2>5 DEF OneRotation
<1> QED BY <1>2, <1>3, <1>4 DEF RotationsInv

\* A rotation begins with a key that is not revoked, and so has no successor unless
\* another rotation of it is under way.
LEMMA ReadingKeepsRotations ==
    ASSUME RotationsInv, NEW c \in Rotators, NEW k \in ApiKeys, RotateKeyRead(c, k)
    PROVE  RotationsInv'
<1> DEFINE row == [step |-> "read", prior |-> k, next |-> None]
<1>1. /\ apiKey[k] = "LIVE" /\ rotation[c].step = "idle"
      /\ rotation' = [rotation EXCEPT ![c] = row]
      /\ troubled' = IF Rotating(k) # {} THEN troubled \cup {k} ELSE troubled
      /\ UNCHANGED <<apiKey, rotatedFrom, withdrawn>>
  BY DEF RotateKeyRead, Rotatable
<1>2. row \in RotationRows /\ row.step = "read" /\ row.prior = k
  BY DEF RotationRows
<1> HIDE DEF row
<1>3. RotationsTyped'
  BY <1>1, <1>2 DEF RotationsInv, RotationsTyped
<1>4. AnsweredIsRevoked'
  BY <1>1, <1>2 DEF RotationsInv, RotationsTyped, AnsweredIsRevoked
<1>5. ASSUME NEW j \in ApiKeys \ troubled' PROVE OneRotation(j)'
  <2>1. Successors(j)' = Successors(j)
    BY <1>1 DEF Successors
  <2>2. Rotating(j)' = IF j = k THEN Rotating(j) \cup {c} ELSE Rotating(j)
    BY <1>1, <1>2 DEF Rotating, RotationsInv, RotationsTyped
  <2>3. OneRotation(j)
    BY <1>1 DEF RotationsInv
  <2>4. CASE j = k
    <3>1. Rotating(k) = {}
      BY <1>1, <2>4
    <3>2. Successors(k) = {} /\ k \notin withdrawn
      BY <1>1, <2>3, <2>4, <3>1 DEF OneRotation
    <3> QED BY <1>1, <2>1, <2>2, <2>3, <2>4, <3>1, <3>2 DEF OneRotation
  <2>5. CASE j # k
    <3>1. \A o \in Rotating(j) : rotation'[o] = rotation[o]
      BY <1>1 DEF Rotating
    <3> QED BY <1>1, <2>1, <2>2, <2>3, <2>5, <3>1 DEF OneRotation
  <2> QED BY <2>4, <2>5
<1> QED BY <1>3, <1>4, <1>5 DEF RotationsInv

\* The one rotation under way stores the one successor.
LEMMA IssueKeepsRotations ==
    ASSUME RotationsInv, NEW c \in Rotators, NEW k \in ApiKeys, RotateKeyIssue(c, k)
    PROVE  RotationsInv'
<1> DEFINE row == [rotation[c] EXCEPT !.step = "issued", !.next = k]
<1>1. /\ apiKey[k] = "NONE" /\ apiKey' = [apiKey EXCEPT ![k] = "LIVE"]
      /\ rotatedFrom' = [rotatedFrom EXCEPT ![k] = rotation[c].prior]
      /\ rotation[c].step = "read"
      /\ UNCHANGED <<withdrawn, troubled>>
  BY DEF RotateKeyIssue, IssueKey
<1>2. /\ rotation[c] \in RotationRows /\ rotation[c].prior \in ApiKeys
      /\ apiKey[rotation[c].prior] # "NONE" /\ rotation[c].prior # k
  BY <1>1 DEF RotationsInv, RotationsTyped
<1>3. rotation' = [rotation EXCEPT ![c] = row]
  BY DEF RotateKeyIssue, RotationsInv, RotationsTyped
<1>4. row \in RotationRows /\ row.step = "issued" /\ row.prior = rotation[c].prior
  BY <1>2 DEF RotationRows
<1> HIDE DEF row
<1>5. RotationsTyped'
  BY <1>1, <1>2, <1>3, <1>4 DEF RotationsInv, RotationsTyped
<1>6. AnsweredIsRevoked'
  BY <1>1, <1>2, <1>3, <1>4 DEF RotationsInv, RotationsTyped, AnsweredIsRevoked
<1>7. ASSUME NEW j \in ApiKeys \ troubled PROVE OneRotation(j)'
  <2>1. OneRotation(j)
    BY DEF RotationsInv
  <2>2. Rotating(j)' = Rotating(j)
    BY <1>1, <1>3, <1>4 DEF Rotating, RotationsInv, RotationsTyped
  <2>3. apiKey[j] = "REVOKED" => apiKey'[j] = "REVOKED"
    BY <1>1 DEF RotationsInv, RotationsTyped
  <2>4. CASE j = rotation[c].prior
    <3>1. c \in Rotating(j)
      BY <1>1, <2>4 DEF Rotating
    <3>2. Rotating(j) = {c} /\ Successors(j) = {} /\ j \notin withdrawn
      BY <1>1, <2>1, <3>1 DEF OneRotation
    <3>3. Successors(j)' = {k}
      BY <1>1, <2>4, <3>2 DEF Successors, RotationsInv, RotationsTyped
    <3>4. rotation'[c].step = "issued"
      BY <1>3, <1>4 DEF RotationsInv, RotationsTyped
    <3> QED BY <1>1, <2>2, <3>2, <3>3, <3>4 DEF OneRotation
  <2>5. CASE j # rotation[c].prior
    <3>1. Successors(j)' = Successors(j)
      BY <1>1, <2>5, PartnerKeysAssumption DEF Successors, RotationsInv, RotationsTyped
    <3>2. \A o \in Rotating(j) : rotation'[o] = rotation[o]
      BY <1>3, <2>5 DEF Rotating, RotationsInv, RotationsTyped
    <3> QED BY <1>1, <2>1, <2>2, <2>3, <3>1, <3>2 DEF OneRotation
  <2> QED BY <2>4, <2>5
<1> QED BY <1>1, <1>5, <1>6, <1>7 DEF RotationsInv

\* A rotation ends with its key revoked, or troubles it.
LEMMA EndKeepsRotations ==
    ASSUME RotationsInv, NEW c \in Rotators, RotateKeyRevoke(c) \/ RotateKeyStops(c)
    PROVE  RotationsInv'
<1>1. CASE RotateKeyRevoke(c)
  <2> DEFINE row == [rotation[c] EXCEPT !.step = "answered"]
  <2>1. /\ rotation[c].step = "issued"
        /\ apiKey' = [apiKey EXCEPT ![rotation[c].prior] = "REVOKED"]
        /\ UNCHANGED <<rotatedFrom, withdrawn, troubled>>
    BY <1>1 DEF RotateKeyRevoke
  <2>2. rotation[c] \in RotationRows /\ rotation[c].prior \in ApiKeys
        /\ apiKey[rotation[c].prior] # "NONE"
    BY <2>1 DEF RotationsInv, RotationsTyped
  <2>3. rotation' = [rotation EXCEPT ![c] = row]
    BY <1>1 DEF RotateKeyRevoke, RotationsInv, RotationsTyped
  <2>4. row \in RotationRows /\ row.step = "answered" /\ row.prior = rotation[c].prior
    BY <2>2 DEF RotationRows
  <2> HIDE DEF row
  <2>5. RotationsTyped'
    BY <2>1, <2>2, <2>3, <2>4 DEF RotationsInv, RotationsTyped
  <2>6. AnsweredIsRevoked'
    BY <2>1, <2>2, <2>3, <2>4 DEF RotationsInv, RotationsTyped, AnsweredIsRevoked
  <2>7. ASSUME NEW j \in ApiKeys \ troubled PROVE OneRotation(j)'
    <3>1. OneRotation(j)
      BY DEF RotationsInv
    <3>2. Rotating(j)' = Rotating(j) \ {c}
      BY <2>3, <2>4 DEF Rotating, RotationsInv, RotationsTyped
    <3>3. Successors(j)' = Successors(j)
      BY <2>1 DEF Successors
    <3>4. \A o \in Rotating(j)' : rotation'[o] = rotation[o]
      BY <2>3, <3>2 DEF Rotating, RotationsInv, RotationsTyped
    <3>5. /\ apiKey[j] = "REVOKED" => apiKey'[j] = "REVOKED"
          /\ j = rotation[c].prior => apiKey'[j] = "REVOKED"
      BY <2>1, <2>2 DEF RotationsInv, RotationsTyped
    <3>6. c \in Rotating(j) => j = rotation[c].prior
      BY DEF Rotating
    <3> QED BY <2>1, <3>1, <3>2, <3>3, <3>4, <3>5, <3>6 DEF OneRotation
  <2> QED BY <2>1, <2>5, <2>6, <2>7 DEF RotationsInv
<1>2. CASE RotateKeyStops(c)
  <2> DEFINE row == [rotation[c] EXCEPT !.step = "stopped"]
  <2>1. /\ rotation[c].step \in {"read", "issued"}
        /\ troubled' = troubled \cup {rotation[c].prior}
        /\ UNCHANGED <<apiKey, rotatedFrom, withdrawn>>
    BY <1>2 DEF RotateKeyStops
  <2>2. rotation[c] \in RotationRows
    BY <2>1 DEF RotationsInv, RotationsTyped
  <2>3. rotation' = [rotation EXCEPT ![c] = row]
    BY <1>2 DEF RotateKeyStops, RotationsInv, RotationsTyped
  <2>4. row \in RotationRows /\ row.step = "stopped" /\ row.prior = rotation[c].prior
    BY <2>2 DEF RotationRows
  <2> HIDE DEF row
  <2>5. RotationsTyped'
    BY <2>1, <2>3, <2>4 DEF RotationsInv, RotationsTyped
  <2>6. AnsweredIsRevoked'
    BY <2>1, <2>3, <2>4 DEF RotationsInv, RotationsTyped, AnsweredIsRevoked
  <2>7. ASSUME NEW j \in ApiKeys \ troubled' PROVE OneRotation(j)'
    <3>1. OneRotation(j) /\ j # rotation[c].prior
      BY <2>1 DEF RotationsInv
    <3>2. Rotating(j)' = Rotating(j)
      BY <2>3, <2>4, <3>1 DEF Rotating, RotationsInv, RotationsTyped
    <3>3. Successors(j)' = Successors(j)
      BY <2>1 DEF Successors
    <3>4. \A o \in Rotating(j) : rotation'[o] = rotation[o]
      BY <2>3, <3>1 DEF Rotating, RotationsInv, RotationsTyped
    <3> QED BY <2>1, <3>1, <3>2, <3>3, <3>4 DEF OneRotation
  <2> QED BY <2>5, <2>6, <2>7 DEF RotationsInv
<1> QED BY <1>1, <1>2

\* A key has one successor, and none if an administrator revoked it, unless its
\* rotation was overlapped or stopped half-way; and whoever has been answered a new
\* key has lost the old one (rotateCredential, revokeCredential).
THEOREM KeysSucceedOnce == PartnerKeysSpec => []OneSuccessorUnlessTroubled
<1>1. PartnerKeysInit => RotationsInv
  <2> SUFFICES ASSUME PartnerKeysInit PROVE RotationsInv
    OBVIOUS
  <2>1. \A c \in Rotators : rotation[c].step = "idle"
    BY DEF PartnerKeysInit, RotationIdle
  <2>2. RotationsTyped
    BY <2>1 DEF PartnerKeysInit, RotationsTyped, RotationIdle, RotationRows
  <2>3. \A k \in ApiKeys : Rotating(k) = {} /\ Successors(k) = {} /\ k \notin withdrawn
    BY <2>1, PartnerKeysAssumption DEF PartnerKeysInit, Rotating, Successors
  <2> QED BY <2>1, <2>2, <2>3 DEF RotationsInv, AnsweredIsRevoked, OneRotation
<1>2. RotationsInv /\ [PartnerKeysNext]_partnerKeysVars => RotationsInv'
  <2> SUFFICES ASSUME RotationsInv, [PartnerKeysNext]_partnerKeysVars PROVE RotationsInv'
    OBVIOUS
  <2>1. CASE RotationNext
    BY <2>1, CreationKeepsRotations, RevocationKeepsRotations, ReadingKeepsRotations,
       IssueKeepsRotations, EndKeepsRotations
       DEF RotationNext
  <2>2. CallNext \/ NoticeNext => UNCHANGED rotationVars
    BY DEF CallNext, NoticeNext, LookUpKey, ConsumeRate, NextMinute, ReceiveRead, ReceiveNotice
  <2>3. UNCHANGED rotationVars => RotationsInv'
    BY DEF rotationVars, RotationsInv, RotationsTyped, AnsweredIsRevoked, OneRotation, Rotating,
           Successors
  <2> QED BY <2>1, <2>2, <2>3 DEF PartnerKeysNext, partnerKeysVars
<1>3. RotationsInv => OneSuccessorUnlessTroubled
  <2> SUFFICES ASSUME RotationsInv PROVE OneSuccessorUnlessTroubled
    OBVIOUS
  <2>1. ASSUME NEW k \in ApiKeys \ troubled
        PROVE  Cardinality(Successors(k)) <= IF k \in withdrawn THEN 0 ELSE 1
    <3> DEFINE heirs == Successors(k)
    <3>1. (\A n, m \in heirs : n = m) /\ (k \in withdrawn => heirs = {})
      BY DEF RotationsInv, OneRotation
    <3> HIDE DEF heirs
    <3>2. heirs = {} \/ \E n : heirs = {n}
      BY <3>1
    <3>3. heirs = {} => Cardinality(heirs) = 0
      BY FS_EmptySet
    <3>4. (\E n : heirs = {n}) => Cardinality(heirs) = 1
      BY FS_Singleton
    <3>5. Cardinality(heirs) <= IF k \in withdrawn THEN 0 ELSE 1
      BY <3>1, <3>2, <3>3, <3>4
    <3> QED BY <3>5 DEF heirs
  <2> QED BY <2>1 DEF RotationsInv, AnsweredIsRevoked, OneSuccessorUnlessTroubled
<1> QED BY <1>1, <1>2, <1>3, PTL DEF PartnerKeysSpec
-----------------------------------------------------------------------------
(***************************************************************************)
(* Rights and machine credentials.                                         *)
(***************************************************************************)

ClientRows ==
    [op : {"idle", "login", "refresh", "key"}, on : Logins \cup Credentials \cup {None},
     rights : SUBSET Permissions]

AccessTyped ==
    /\ granted \in [Roles -> SUBSET Permissions]
    /\ holds \in [Users -> SUBSET Roles]
    /\ login \in [Logins -> {"NONE", "LIVE", "REVOKED"}]
    /\ claims \in [Logins -> SUBSET SUBSET Permissions]
    /\ DOMAIN key = Credentials
    /\ client \in [Requesters -> ClientRows]
    /\ \A c \in Requesters : client[c].op \in {"login", "refresh"} => client[c].on \in Logins

\* The first token of a session is signed as it is opened.
NoTokenBeforeLogin == \A s \in Logins : login[s] = "NONE" => claims[s] = {}

\* A refresh that may still sign a token for a live session has read no more than
\* the rights its user has now: whoever takes one away ends the session.
RefreshesCurrent ==
    \A c \in Requesters :
       client[c].op = "refresh" =>
          /\ login[client[c].on] # "NONE"
          /\ login[client[c].on] = "LIVE" =>
                client[c].rights \subseteq Rights(UserOf[client[c].on])

AccessInv == AccessTyped /\ NoTokenBeforeLogin /\ RefreshesCurrent

\* What a user may do are permissions.
LEMMA RightsArePermissions ==
    ASSUME AccessTyped, NEW u \in Users
    PROVE  Rights(u) \subseteq Permissions
BY DEF AccessTyped, Rights

\* A change of rights ends the sessions of everybody whose rights it changes.
LEMMA ChangesEndSessions ==
    ASSUME AccessInv, NEW affected \in SUBSET Users, RightsChanged(affected),
           granted' \in [Roles -> SUBSET Permissions], holds' \in [Users -> SUBSET Roles],
           \A u \in Users \ affected : Rights(u)' = Rights(u)
    PROVE  /\ AccessInv'
           /\ \A s \in Logins : Excess(s)' \subseteq Excess(s)
<1>1. login' = Ended(affected) /\ UNCHANGED <<claims, key, client>>
  BY DEF RightsChanged
<1>2. \A s \in Logins :
         /\ login'[s] = "LIVE" => login[s] = "LIVE" /\ UserOf[s] \in Users \ affected
         /\ login'[s] = "NONE" <=> login[s] = "NONE"
         /\ login'[s] \in {"NONE", "LIVE", "REVOKED"}
  BY <1>1, AccessAssumption DEF Ended, AccessInv, AccessTyped
<1>3. login' \in [Logins -> {"NONE", "LIVE", "REVOKED"}]
  BY <1>1, <1>2 DEF Ended
<1>4. AccessTyped'
  BY <1>1, <1>3 DEF AccessInv, AccessTyped
<1>5. NoTokenBeforeLogin'
  BY <1>1, <1>2 DEF AccessInv, NoTokenBeforeLogin
<1>6. RefreshesCurrent'
  BY <1>1, <1>2 DEF AccessInv, AccessTyped, RefreshesCurrent
<1>7. \A s \in Logins : Excess(s)' \subseteq Excess(s)
  BY <1>1, <1>2 DEF Excess, Allowed
<1> QED BY <1>4, <1>5, <1>6, <1>7 DEF AccessInv

\* A read remembers the rights as they are.
LEMMA ReadsKeepAccess ==
    ASSUME AccessInv, NEW c \in Requesters, NEW row \in ClientRows,
           client' = [client EXCEPT ![c] = row],
           UNCHANGED <<granted, holds, login, claims, key>>,
           row.op \in {"login", "refresh"} => row.on \in Logins,
           row.op = "refresh" => /\ login[row.on] # "NONE"
                                 /\ row.rights \subseteq Rights(UserOf[row.on])
    PROVE  /\ AccessInv'
           /\ \A s \in Logins : Excess(s)' = Excess(s)
<1>1. \A u \in Users : Rights(u)' = Rights(u)
  BY DEF Rights
<1>2. AccessTyped' /\ NoTokenBeforeLogin'
  BY DEF AccessInv, AccessTyped, NoTokenBeforeLogin
<1>3. RefreshesCurrent'
  <2> SUFFICES ASSUME NEW o \in Requesters, client'[o].op = "refresh"
               PROVE  /\ login[client'[o].on] # "NONE"
                      /\ login[client'[o].on] = "LIVE" =>
                           client'[o].rights \subseteq Rights(UserOf[client'[o].on])
    BY DEF RefreshesCurrent, Rights
  <2>1. client'[o] = IF o = c THEN row ELSE client[o]
    BY DEF AccessInv, AccessTyped
  <2> QED BY <2>1 DEF AccessInv, RefreshesCurrent
<1>4. \A s \in Logins : Excess(s)' = Excess(s)
  BY <1>1, AccessAssumption DEF Excess, Allowed
<1> QED BY <1>2, <1>3, <1>4 DEF AccessInv

\* A signed token adds the rights its request has read.
LEMMA TokensKeepAccess ==
    ASSUME AccessInv, NEW c \in Requesters, NEW s \in Logins,
           OpenLogin(c, s) \/ Refresh(c, s)
    PROVE  /\ AccessInv'
           /\ \A q \in Logins :
                 Excess(q)' # {} =>
                    \/ Excess(q) # {}
                    \/ \E o \in Requesters : /\ client[o].op = "login" /\ client[o].on = q
                                             /\ ~(client[o].rights \subseteq Rights(UserOf[q]))
<1>1. /\ claims' = [claims EXCEPT ![s] = @ \cup {client[c].rights}]
      /\ client' = [client EXCEPT ![c] = ClientIdle] /\ client[c].on = s
      /\ UNCHANGED <<granted, holds, key>>
  BY DEF OpenLogin, Refresh, ClientWrites
<1>2. \/ /\ client[c].op = "login" /\ login[s] = "NONE"
         /\ login' = [login EXCEPT ![s] = "LIVE"]
      \/ client[c].op = "refresh" /\ UNCHANGED login
  BY DEF OpenLogin, Refresh, ClientWrites
<1>3. ClientIdle \in ClientRows /\ ClientIdle.op = "idle"
  BY DEF ClientIdle, ClientRows
<1>4. client[c].rights \in SUBSET Permissions
  BY DEF AccessInv, AccessTyped, ClientRows
<1>5. \A q \in Logins : claims'[q] = IF q = s THEN claims[q] \cup {client[c].rights} ELSE claims[q]
  BY <1>1 DEF AccessInv, AccessTyped
<1>6. \A q \in Logins : q # s => login'[q] = login[q]
  BY <1>2 DEF AccessInv, AccessTyped
<1>7. \A u \in Users : Rights(u)' = Rights(u)
  BY <1>1 DEF Rights
<1>8. AccessTyped'
  <2>1. claims' \in [Logins -> SUBSET SUBSET Permissions]
    BY <1>1, <1>4 DEF AccessInv, AccessTyped
  <2>2. login' \in [Logins -> {"NONE", "LIVE", "REVOKED"}]
    BY <1>2 DEF AccessInv, AccessTyped
  <2>3. client' \in [Requesters -> ClientRows]
    BY <1>1, <1>3 DEF AccessInv, AccessTyped
  <2> QED BY <1>1, <1>3, <2>1, <2>2, <2>3 DEF AccessInv, AccessTyped
<1>9. login'[s] # "NONE"
  BY <1>1, <1>2 DEF AccessInv, AccessTyped, RefreshesCurrent
<1>10. NoTokenBeforeLogin'
  BY <1>5, <1>6, <1>9 DEF AccessInv, NoTokenBeforeLogin
<1>11. RefreshesCurrent'
  <2> SUFFICES ASSUME NEW o \in Requesters, client'[o].op = "refresh"
               PROVE  /\ login'[client'[o].on] # "NONE"
                      /\ login'[client'[o].on] = "LIVE" =>
                           client'[o].rights \subseteq Rights(UserOf[client'[o].on])
    BY <1>1 DEF RefreshesCurrent, Rights
  <2>1. client'[o] = client[o] /\ client[o].op = "refresh"
    BY <1>1, <1>3 DEF AccessInv, AccessTyped
  <2>2. client[o].on \in Logins /\ UserOf[client[o].on] \in Users
    BY <2>1, AccessAssumption DEF AccessInv, AccessTyped
  <2>3. /\ login[client[o].on] # "NONE"
        /\ login[client[o].on] = "LIVE" =>
             client[o].rights \subseteq Rights(UserOf[client[o].on])
    BY <2>1 DEF AccessInv, RefreshesCurrent
  <2>4. login'[client[o].on] = login[client[o].on]
    BY <1>2, <1>6, <2>2, <2>3
  <2> QED BY <2>1, <2>2, <2>3, <2>4
<1>12. ASSUME NEW q \in Logins, Excess(q)' # {}, Excess(q) = {}
       PROVE  \E o \in Requesters : /\ client[o].op = "login" /\ client[o].on = q
                                    /\ ~(client[o].rights \subseteq Rights(UserOf[q]))
  <2>1. UserOf[q] \in Users
    BY AccessAssumption
  <2>2. Rights(UserOf[q])' = Rights(UserOf[q])
    BY <1>7, <2>1
  <2>3. q = s
    BY <1>5, <1>6, <1>12, <2>2 DEF Excess, Allowed
  <2>4. PICK p \in Permissions : Allowed(s, p)' /\ p \notin Rights(UserOf[s])
    BY <1>12, <2>2, <2>3 DEF Excess
  <2>5. p \notin Rights(UserOf[s]) /\ ~Allowed(s, p)
    BY <1>12, <2>3, <2>4 DEF Excess
  <2>6. CASE client[c].op = "login" /\ login[s] = "NONE"
    <3>1. claims[s] = {}
      BY <2>6 DEF AccessInv, NoTokenBeforeLogin
    <3>2. p \in client[c].rights
      BY <1>5, <2>4, <3>1 DEF Allowed
    <3> QED BY <1>1, <2>3, <2>5, <2>6, <3>2
  <2>7. CASE client[c].op = "refresh" /\ UNCHANGED login
    <3>1. login[s] = "LIVE"
      BY <2>4, <2>7 DEF Allowed
    <3>2. client[c].rights \subseteq Rights(UserOf[s])
      BY <1>1, <2>7, <3>1 DEF AccessInv, RefreshesCurrent
    <3> QED BY <1>5, <2>4, <2>5, <3>1, <3>2 DEF Allowed
  <2> QED BY <1>2, <2>6, <2>7
<1> QED BY <1>8, <1>10, <1>11, <1>12 DEF AccessInv

\* A step of the component explains every excess it brings about.
ExcessExplainedNow ==
    \A s \in Logins :
       Excess(s)' # {} =>
          \/ Excess(s) # {}
          \/ \E c \in Requesters : /\ client[c].op = "login" /\ client[c].on = s
                                   /\ ~(client[c].rights \subseteq Rights(UserOf[s]))

\* Every step keeps the invariant and explains its excess.
LEMMA AccessSteps ==
    ASSUME AccessInv, [AccessNext]_accessVars
    PROVE  AccessInv' /\ ExcessExplainedNow
<1>0. ASSUME UNCHANGED <<granted, holds, login, claims, client>>, DOMAIN key' = DOMAIN key
      PROVE  AccessInv' /\ ExcessExplainedNow
  BY <1>0, AccessAssumption
     DEF AccessInv, AccessTyped, NoTokenBeforeLogin, RefreshesCurrent, Rights,
         ExcessExplainedNow, Excess, Allowed
<1>1. ASSUME NEW r \in Roles, CreateRole(r) PROVE AccessInv' /\ ExcessExplainedNow
  BY <1>0, <1>1 DEF CreateRole
<1>2. ASSUME NEW r \in Roles, NEW permissions \in SUBSET Permissions,
             SetPermissions(r, permissions)
      PROVE  AccessInv' /\ ExcessExplainedNow
  <2> DEFINE affected == {u \in Users : r \in holds[u]}
  <2>1. granted' = [granted EXCEPT ![r] = permissions] /\ UNCHANGED holds
        /\ RightsChanged(affected)
    BY <1>2 DEF SetPermissions
  <2>2. \A u \in Users \ affected : Rights(u)' = Rights(u)
    <3> SUFFICES ASSUME NEW u \in Users \ affected PROVE Rights(u)' = Rights(u)
      OBVIOUS
    <3>1. r \notin holds[u] /\ holds'[u] = holds[u]
      BY <2>1
    <3>2. \A j \in holds[u] : granted'[j] = granted[j]
      BY <2>1, <3>1 DEF AccessInv, AccessTyped
    <3> QED BY <3>1, <3>2 DEF Rights
  <2>3. granted' \in [Roles -> SUBSET Permissions] /\ holds' \in [Users -> SUBSET Roles]
    BY <2>1 DEF AccessInv, AccessTyped
  <2>4. affected \in SUBSET Users
    OBVIOUS
  <2> HIDE DEF affected
  <2> QED BY <2>1, <2>2, <2>3, <2>4, ChangesEndSessions DEF ExcessExplainedNow
<1>3. ASSUME NEW u \in Users, NEW chosen \in SUBSET Roles, SetUserRoles(u, chosen)
      PROVE  AccessInv' /\ ExcessExplainedNow
  <2>1. holds' = [holds EXCEPT ![u] = chosen] /\ UNCHANGED granted /\ RightsChanged({u})
    BY <1>3 DEF SetUserRoles
  <2>2. \A v \in Users \ {u} : Rights(v)' = Rights(v)
    BY <2>1 DEF Rights, AccessInv, AccessTyped
  <2>3. granted' \in [Roles -> SUBSET Permissions] /\ holds' \in [Users -> SUBSET Roles]
    BY <2>1 DEF AccessInv, AccessTyped
  <2> QED BY <2>1, <2>2, <2>3, ChangesEndSessions DEF ExcessExplainedNow
<1>4. ASSUME NEW c \in Requesters, NEW s \in Logins, LoginRead(c, s) \/ RefreshRead(c, s)
      PROVE  AccessInv' /\ ExcessExplainedNow
  <2> DEFINE row(op) == [op |-> op, on |-> s, rights |-> Rights(UserOf[s])]
  <2>1. Rights(UserOf[s]) \in SUBSET Permissions
    BY RightsArePermissions, AccessAssumption DEF AccessInv
  <2>2. CASE LoginRead(c, s)
    <3>1. row("login") \in ClientRows /\ row("login").op = "login" /\ row("login").on \in Logins
      BY <2>1 DEF ClientRows
    <3>2. client' = [client EXCEPT ![c] = row("login")]
          /\ UNCHANGED <<granted, holds, login, claims, key>>
      BY <2>2 DEF LoginRead, ClientReads
    <3> HIDE DEF row
    <3> QED BY <3>1, <3>2, ReadsKeepAccess DEF ExcessExplainedNow
  <2>3. CASE RefreshRead(c, s)
    <3>1. row("refresh") \in ClientRows /\ row("refresh").on = s
          /\ row("refresh").rights = Rights(UserOf[s])
      BY <2>1 DEF ClientRows
    <3>2. client' = [client EXCEPT ![c] = row("refresh")] /\ login[s] = "LIVE"
          /\ UNCHANGED <<granted, holds, login, claims, key>>
      BY <2>3 DEF RefreshRead, ClientReads
    <3> HIDE DEF row
    <3> QED BY <3>1, <3>2, ReadsKeepAccess DEF ExcessExplainedNow
  <2> QED BY <1>4, <2>2, <2>3
<1>5. ASSUME NEW c \in Requesters, NEW s \in Logins, OpenLogin(c, s) \/ Refresh(c, s)
      PROVE  AccessInv' /\ ExcessExplainedNow
  BY <1>5, TokensKeepAccess DEF ExcessExplainedNow
<1>6. ASSUME NEW s \in Logins, NEW k \in SUBSET Permissions, TokenExpires(s, k)
      PROVE  AccessInv' /\ ExcessExplainedNow
  <2>1. claims' = [claims EXCEPT ![s] = @ \ {k}]
        /\ UNCHANGED <<granted, holds, login, key, client>>
    BY <1>6 DEF TokenExpires
  <2>2. claims' \in [Logins -> SUBSET SUBSET Permissions]
        /\ \A q \in Logins : claims'[q] \subseteq claims[q]
    BY <2>1 DEF AccessInv, AccessTyped
  <2>3. AccessInv'
    BY <2>1, <2>2 DEF AccessInv, AccessTyped, NoTokenBeforeLogin, RefreshesCurrent, Rights
  <2>4. \A q \in Logins : Excess(q)' \subseteq Excess(q)
    BY <2>1, <2>2, AccessAssumption DEF Excess, Allowed, Rights
  <2> QED BY <2>3, <2>4 DEF ExcessExplainedNow
<1>7. ASSUME NEW s \in Logins, Logout(s) PROVE AccessInv' /\ ExcessExplainedNow
  <2>1. login' = [login EXCEPT ![s] = "REVOKED"] /\ login[s] = "LIVE"
        /\ UNCHANGED <<granted, holds, claims, key, client>>
    BY <1>7 DEF Logout
  <2>2. /\ login' \in [Logins -> {"NONE", "LIVE", "REVOKED"}]
        /\ \A q \in Logins : /\ login'[q] = "LIVE" => login[q] = "LIVE"
                             /\ login'[q] = "NONE" <=> login[q] = "NONE"
    BY <2>1 DEF AccessInv, AccessTyped
  <2>3. AccessInv'
    BY <2>1, <2>2 DEF AccessInv, AccessTyped, NoTokenBeforeLogin, RefreshesCurrent, Rights
  <2>4. \A q \in Logins : Excess(q)' \subseteq Excess(q)
    BY <2>1, <2>2, AccessAssumption DEF Excess, Allowed, Rights
  <2> QED BY <2>3, <2>4 DEF ExcessExplainedNow
<1>8. ASSUME NEW k \in Credentials, CreateCredential(k) \/ RevokeCredential(k)
      PROVE  AccessInv' /\ ExcessExplainedNow
  BY <1>0, <1>8 DEF CreateCredential, RevokeCredential
<1>9. ASSUME NEW c \in Requesters, NEW k \in Credentials, UseCredentialRead(c, k)
      PROVE  AccessInv' /\ ExcessExplainedNow
  <2> DEFINE row == [op |-> "key", on |-> k, rights |-> {}]
  <2>1. row \in ClientRows /\ row.op = "key"
    BY DEF ClientRows
  <2>2. client' = [client EXCEPT ![c] = row]
        /\ UNCHANGED <<granted, holds, login, claims, key>>
    BY <1>9 DEF UseCredentialRead, ClientReads
  <2> HIDE DEF row
  <2> QED BY <2>1, <2>2, ReadsKeepAccess DEF ExcessExplainedNow
<1>10. ASSUME NEW c \in Requesters, NEW k \in Credentials, UseCredential(c, k)
       PROVE  AccessInv' /\ ExcessExplainedNow
  <2>1. ClientIdle \in ClientRows /\ ClientIdle.op = "idle"
    BY DEF ClientIdle, ClientRows
  <2>2. client' = [client EXCEPT ![c] = ClientIdle]
        /\ UNCHANGED <<granted, holds, login, claims, key>>
    BY <1>10 DEF UseCredential, ClientWrites
  <2> QED BY <2>1, <2>2, ReadsKeepAccess DEF ExcessExplainedNow
<1>11. CASE UNCHANGED accessVars
  BY <1>0, <1>11 DEF accessVars
<1> QED
  BY <1>1, <1>2, <1>3, <1>4, <1>5, <1>6, <1>7, <1>8, <1>9, <1>10, <1>11 DEF AccessNext

\* The invariant holds throughout.
LEMMA AccessHolds == AccessSpec => []AccessInv
<1>1. AccessInit => AccessInv
  <2> SUFFICES ASSUME AccessInit PROVE AccessInv
    OBVIOUS
  <2>1. ClientIdle \in ClientRows /\ ClientIdle.op = "idle"
    BY DEF ClientIdle, ClientRows
  <2> QED BY <2>1 DEF AccessInit, AccessInv, AccessTyped, NoTokenBeforeLogin, RefreshesCurrent
<1> QED BY <1>1, AccessSteps, PTL DEF AccessSpec

\* A session goes beyond its user's rights only by a login that had read them before
\* they were taken away (setPermissions, setUserRoles, issue, AuthGuard).
THEOREM ExcessExplained == AccessSpec => ExcessOnlyByAnOldLogin
<1>1. AccessInv /\ [AccessNext]_accessVars =>
        [\A s \in Logins :
            Excess(s)' # {} =>
               \/ Excess(s) # {}
               \/ \E c \in Requesters : /\ client[c].op = "login" /\ client[c].on = s
                                        /\ ~(client[c].rights \subseteq Rights(UserOf[s]))
        ]_accessVars
  BY AccessSteps DEF ExcessExplainedNow
<1> QED BY <1>1, AccessHolds, PTL DEF AccessSpec, ExcessOnlyByAnOldLogin

\* A revoked machine credential is accepted only by a request that had looked it up
\* before (MachineAuthGuard).
THEOREM RevokedKeysRefused == AccessSpec => RevokedKeyIsRefused
<1>1. AccessInv /\ [AccessNext]_accessVars =>
        [\A k \in Credentials : key[k] = "REVOKED" => Using(k)' \subseteq Using(k)]_accessVars
  <2> SUFFICES ASSUME AccessInv, AccessNext, NEW k \in Credentials, key[k] = "REVOKED"
               PROVE  Using(k)' \subseteq Using(k)
    OBVIOUS
  <2>1. UNCHANGED client => Using(k)' \subseteq Using(k)
    BY DEF Using
  <2>2. ASSUME NEW c \in Requesters, NEW row, client' = [client EXCEPT ![c] = row],
               row.op # "key" \/ row.on # k
        PROVE  Using(k)' \subseteq Using(k)
    BY <2>2 DEF Using, AccessInv, AccessTyped
  <2>3. ASSUME NEW c \in Requesters, NEW s \in Logins, LoginRead(c, s) \/ RefreshRead(c, s)
        PROVE  Using(k)' \subseteq Using(k)
    <3>1. CASE LoginRead(c, s)
      BY <2>2, <3>1 DEF LoginRead, ClientReads
    <3>2. CASE RefreshRead(c, s)
      BY <2>2, <3>2 DEF RefreshRead, ClientReads
    <3> QED BY <2>3, <3>1, <3>2
  <2>4. ASSUME NEW c \in Requesters, NEW s \in Logins, OpenLogin(c, s) \/ Refresh(c, s)
        PROVE  Using(k)' \subseteq Using(k)
    BY <2>2, <2>4 DEF OpenLogin, Refresh, ClientWrites, ClientIdle
  <2>5. ASSUME NEW c \in Requesters, NEW j \in Credentials, UseCredentialRead(c, j)
        PROVE  Using(k)' \subseteq Using(k)
    <3> DEFINE row == [op |-> "key", on |-> j, rights |-> {}]
    <3>1. row.on # k /\ client' = [client EXCEPT ![c] = row]
      BY <2>5 DEF UseCredentialRead, Known, ClientReads
    <3> HIDE DEF row
    <3> QED BY <2>2, <3>1
  <2>6. ASSUME NEW c \in Requesters, NEW j \in Credentials, UseCredential(c, j)
        PROVE  Using(k)' \subseteq Using(k)
    BY <2>2, <2>6 DEF UseCredential, ClientWrites, ClientIdle
  <2>7. ASSUME NEW r \in Roles, CreateRole(r) PROVE Using(k)' \subseteq Using(k)
    BY <2>1, <2>7 DEF CreateRole
  <2>8. ASSUME NEW r \in Roles, NEW permissions \in SUBSET Permissions,
               SetPermissions(r, permissions)
        PROVE  Using(k)' \subseteq Using(k)
    BY <2>1, <2>8 DEF SetPermissions, RightsChanged
  <2>9. ASSUME NEW u \in Users, NEW chosen \in SUBSET Roles, SetUserRoles(u, chosen)
        PROVE  Using(k)' \subseteq Using(k)
    BY <2>1, <2>9 DEF SetUserRoles, RightsChanged
  <2>10. ASSUME NEW s \in Logins,
                Logout(s) \/ \E rights \in SUBSET Permissions : TokenExpires(s, rights)
         PROVE  Using(k)' \subseteq Using(k)
    BY <2>1, <2>10 DEF Logout, TokenExpires
  <2>11. ASSUME NEW j \in Credentials, CreateCredential(j) \/ RevokeCredential(j)
         PROVE  Using(k)' \subseteq Using(k)
    BY <2>1, <2>11 DEF CreateCredential, RevokeCredential
  <2> QED
    BY <2>3, <2>4, <2>5, <2>6, <2>7, <2>8, <2>9, <2>10, <2>11 DEF AccessNext
<1> QED BY <1>1, AccessHolds, PTL DEF AccessSpec, RevokedKeyIsRefused
-----------------------------------------------------------------------------
(***************************************************************************)
(* Sessions.                                                               *)
(***************************************************************************)

TokenRows == [of : Sessions \cup {None}, consumed : BOOLEAN, revoked : BOOLEAN]

AgentOps ==
    {"idle", "code", "open", "rotate", "reused", "revoke", "revokeAll", "reset", "password"}

\* What an operation is about.
AgentOn(row) ==
    /\ row.op \in {"code", "open"} => row.on \in Codes
    /\ row.op \in {"rotate", "reused"} => row.on \in Tokens
    /\ row.op = "revoke" => row.on \in Sessions
    /\ row.op \in {"reset", "password"} => row.on \in ResetTokens
    /\ row.seen \in SUBSET Sessions

SessionsTyped ==
    /\ password \in Nat
    /\ session \in [Sessions -> {"NONE", "LIVE", "REVOKED"}]
    /\ openedBy \in [Sessions -> Codes \cup {None}]
    /\ token \in [Tokens -> TokenRows]
    /\ spent \in SUBSET Codes
    /\ resetToken \in [ResetTokens -> {"NONE", "SENT", "CONSUMED"}]
    /\ resets \in [ResetTokens -> Nat]
    /\ DOMAIN agent = Agents
    /\ \A c \in Agents : agent[c].op \in AgentOps /\ AgentOn(agent[c])

\* An idle request is about nothing.
LEMMA IdleAgents == AgentIdle.op = "idle" /\ AgentOn(AgentIdle)
BY DEF AgentIdle, AgentOn

\* Revoking the tokens of some sessions does nothing else.
LEMMA TokensOfEndedRevoked ==
    ASSUME SessionsTyped, NEW ended
    PROVE  /\ TokensRevoked(ended) \in [Tokens -> TokenRows]
           /\ \A t \in Tokens :
                 /\ TokensRevoked(ended)[t].of = token[t].of
                 /\ TokensRevoked(ended)[t].consumed = token[t].consumed
                 /\ TokensRevoked(ended)[t].revoked <=>
                       token[t].revoked \/ token[t].of \in ended
<1> SUFFICES ASSUME NEW t \in Tokens
             PROVE  /\ TokensRevoked(ended)[t] \in TokenRows
                    /\ TokensRevoked(ended)[t].of = token[t].of
                    /\ TokensRevoked(ended)[t].consumed = token[t].consumed
                    /\ TokensRevoked(ended)[t].revoked <=>
                          token[t].revoked \/ token[t].of \in ended
  BY DEF TokensRevoked
<1>1. token[t] \in TokenRows
  BY DEF SessionsTyped
<1> DEFINE row == [token[t] EXCEPT !.revoked = @ \/ token[t].of \in ended]
<1>2. TokensRevoked(ended)[t] = row
  BY DEF TokensRevoked
<1>3. row \in TokenRows /\ row.of = token[t].of /\ row.consumed = token[t].consumed
      /\ (row.revoked <=> token[t].revoked \/ token[t].of \in ended)
  BY <1>1 DEF TokenRows
<1> HIDE DEF row
<1> QED BY <1>2, <1>3

\* The step of one request, the types of what it writes given.
LEMMA AgentsTyped ==
    ASSUME SessionsTyped, NEW c \in Agents, NEW row, agent' = [agent EXCEPT ![c] = row],
           row.op \in AgentOps, AgentOn(row),
           password' \in Nat,
           session' \in [Sessions -> {"NONE", "LIVE", "REVOKED"}],
           openedBy' \in [Sessions -> Codes \cup {None}],
           token' \in [Tokens -> TokenRows],
           spent' \in SUBSET Codes,
           resetToken' \in [ResetTokens -> {"NONE", "SENT", "CONSUMED"}],
           resets' \in [ResetTokens -> Nat]
    PROVE  SessionsTyped'
<1>1. \A o \in Agents : agent'[o] = IF o = c THEN row ELSE agent[o]
  BY DEF SessionsTyped
<1>2. \A o \in Agents : agent'[o].op \in AgentOps /\ AgentOn(agent'[o])
  BY <1>1 DEF SessionsTyped
<1>3. \A o \in Agents : AgentOn(agent[o])'
  BY <1>2 DEF AgentOn
<1> QED BY <1>2, <1>3 DEF SessionsTyped

\* A read of what exists.
LEMMA ReadsTyped ==
    ASSUME SessionsTyped, NEW c \in Agents, NEW op \in AgentOps, NEW x, NEW seen \in SUBSET Sessions,
           AgentReads(c, op, x, seen),
           AgentOn([op |-> op, on |-> x, seen |-> seen])
    PROVE  SessionsTyped'
<1> DEFINE row == [op |-> op, on |-> x, seen |-> seen]
<1>1. row.op \in AgentOps /\ AgentOn(row) /\ agent' = [agent EXCEPT ![c] = row]
  BY DEF AgentReads
<1> HIDE DEF row
<1> QED BY <1>1, AgentsTyped DEF AgentReads, SessionsTyped

\* Whoever writes becomes idle.
LEMMA WritersBecomeIdle ==
    ASSUME NEW c, NEW op, NEW x, AgentWrites(c, op, x)
    PROVE  /\ agent[c].op = op /\ agent[c].on = x
           /\ agent' = [agent EXCEPT ![c] = AgentIdle]
BY DEF AgentWrites, AgentGoesOn

\* Every step keeps the types.
LEMMA SessionsStayTyped ==
    ASSUME SessionsTyped, [SessionsNext]_sessionsVars
    PROVE  SessionsTyped'
<1> USE DEF AgentOps
<1>1. ASSUME NEW r \in ResetTokens, RequestReset(r) PROVE SessionsTyped'
  BY <1>1 DEF RequestReset, SessionsTyped, AgentOn
<1>2. ASSUME NEW c \in Agents, NEW code \in Codes, Login(c, code) PROVE SessionsTyped'
  <2>1. AgentOn([op |-> "code", on |-> code, seen |-> {}])
    BY DEF AgentOn
  <2> QED BY <1>2, <2>1, ReadsTyped DEF Login
<1>3. ASSUME NEW c \in Agents, NEW code \in Codes, ClaimCode(c, code) PROVE SessionsTyped'
  <2> DEFINE row == [op |-> "open", on |-> code, seen |-> {}]
  <2>1. row.op \in AgentOps /\ AgentOn(row) /\ agent' = [agent EXCEPT ![c] = row]
    BY <1>3 DEF ClaimCode, AgentGoesOn, AgentOn
  <2> HIDE DEF row
  <2> QED BY <1>3, <2>1, AgentsTyped DEF ClaimCode, SessionsTyped
<1>4. ASSUME NEW c \in Agents, NEW code \in Codes, CodeRefused(c, code) PROVE SessionsTyped'
  BY <1>4, WritersBecomeIdle, IdleAgents, AgentsTyped DEF CodeRefused, SessionsTyped
<1>5. ASSUME NEW c \in Agents, NEW code \in Codes, NEW s \in Sessions, NEW t \in Tokens,
             CreateSession(c, code, s, t)
      PROVE  SessionsTyped'
  <2>1. /\ session' = [session EXCEPT ![s] = "LIVE"]
        /\ openedBy' = [openedBy EXCEPT ![s] = code]
        /\ token' = [token EXCEPT ![t].of = s]
        /\ agent' = [agent EXCEPT ![c] = AgentIdle]
        /\ UNCHANGED <<password, spent, resetToken, resets>>
    BY <1>5, WritersBecomeIdle DEF CreateSession
  <2>2. token' \in [Tokens -> TokenRows]
    BY <2>1 DEF SessionsTyped, TokenRows
  <2>3. session' \in [Sessions -> {"NONE", "LIVE", "REVOKED"}]
        /\ openedBy' \in [Sessions -> Codes \cup {None}]
    BY <2>1 DEF SessionsTyped
  <2> QED BY <2>1, <2>2, <2>3, IdleAgents, AgentsTyped DEF SessionsTyped
<1>6. ASSUME NEW c \in Agents, NEW t \in Tokens, RotateRead(c, t) PROVE SessionsTyped'
  <2>1. AgentOn([op |-> "reused", on |-> t, seen |-> {}])
        /\ AgentOn([op |-> "rotate", on |-> t, seen |-> {}])
    BY DEF AgentOn
  <2>2. \E op \in {"reused", "rotate"} : AgentReads(c, op, t, {})
    BY <1>6 DEF RotateRead
  <2> QED BY <2>1, <2>2, ReadsTyped
<1>7. ASSUME NEW c \in Agents, NEW ended, NEW gone,
             agent' = [agent EXCEPT ![c] = AgentIdle],
             token' = TokensRevoked(ended),
             session' = session \/ session' = SessionsRevoked(gone),
             password' \in Nat, UNCHANGED <<openedBy, spent, resetToken>>,
             resets' \in [ResetTokens -> Nat]
      PROVE  SessionsTyped'
  <2>1. SessionsRevoked(gone) \in [Sessions -> {"NONE", "LIVE", "REVOKED"}]
    BY DEF SessionsRevoked, SessionsTyped
  <2> QED BY <1>7, <2>1, TokensOfEndedRevoked, IdleAgents, AgentsTyped DEF SessionsTyped
<1>8. ASSUME NEW c \in Agents, NEW t \in Tokens, RotateReused(c, t) \/ RotateLost(c, t)
      PROVE  SessionsTyped'
  <2>1. agent' = [agent EXCEPT ![c] = AgentIdle] /\ EndFamily(t)
    BY <1>8, WritersBecomeIdle DEF RotateReused, RotateLost
  <2> QED BY <1>7, <2>1 DEF EndFamily, SessionsTyped
<1>9. ASSUME NEW c \in Agents, NEW t \in Tokens, NEW new \in Tokens, RotateClaimed(c, t, new)
      PROVE  SessionsTyped'
  <2>1. /\ token' = [token EXCEPT ![t].consumed = TRUE, ![new].of = token[t].of]
        /\ agent' = [agent EXCEPT ![c] = AgentIdle]
        /\ UNCHANGED <<password, session, openedBy, spent, resetToken, resets>>
    BY <1>9, WritersBecomeIdle DEF RotateClaimed
  <2>2. token' \in [Tokens -> TokenRows]
    <3> DEFINE once == [token EXCEPT ![t].consumed = TRUE]
    <3>1. once \in [Tokens -> TokenRows] /\ token[t].of \in Sessions \cup {None}
      BY DEF SessionsTyped, TokenRows
    <3>2. token' = [once EXCEPT ![new].of = token[t].of]
      BY <2>1
    <3> HIDE DEF once
    <3> QED BY <3>1, <3>2 DEF TokenRows
  <2> QED BY <2>1, <2>2, IdleAgents, AgentsTyped DEF SessionsTyped
<1>10. ASSUME NEW c \in Agents, NEW s \in Sessions, Revoke(c, s) PROVE SessionsTyped'
  <2> DEFINE row == [op |-> "revoke", on |-> s, seen |-> {}]
  <2>1. row.op \in AgentOps /\ AgentOn(row) /\ agent' = [agent EXCEPT ![c] = row]
    BY <1>10 DEF Revoke, AgentOn
  <2>2. session' \in [Sessions -> {"NONE", "LIVE", "REVOKED"}]
    BY <1>10 DEF Revoke, SessionsTyped
  <2> HIDE DEF row
  <2> QED BY <1>10, <2>1, <2>2, AgentsTyped DEF Revoke, SessionsTyped
<1>11. ASSUME NEW c \in Agents, NEW s \in Sessions, RevokeTokens(c, s) PROVE SessionsTyped'
  <2>1. agent' = [agent EXCEPT ![c] = AgentIdle]
    BY <1>11, WritersBecomeIdle DEF RevokeTokens
  <2> QED BY <1>7, <1>11, <2>1 DEF RevokeTokens, SessionsTyped
<1>12. ASSUME NEW c \in Agents, RevokeAllRead(c) PROVE SessionsTyped'
  <2>1. LiveSessions \in SUBSET Sessions
    BY DEF LiveSessions
  <2>2. AgentOn([op |-> "revokeAll", on |-> None, seen |-> LiveSessions])
    BY <2>1 DEF AgentOn
  <2> QED BY <1>12, <2>1, <2>2, ReadsTyped DEF RevokeAllRead
<1>13. ASSUME NEW c \in Agents, RevokeAll(c) PROVE SessionsTyped'
  <2>1. agent' = [agent EXCEPT ![c] = AgentIdle]
    BY <1>13, WritersBecomeIdle DEF RevokeAll
  <2> QED BY <1>7, <1>13, <2>1 DEF RevokeAll, SessionsTyped
<1>14. ASSUME NEW c \in Agents, NEW r \in ResetTokens, ResetRead(c, r) PROVE SessionsTyped'
  <2>1. AgentOn([op |-> "reset", on |-> r, seen |-> {}])
    BY DEF AgentOn
  <2> QED BY <1>14, <2>1, ReadsTyped DEF ResetRead
<1>15. ASSUME NEW c \in Agents, NEW r \in ResetTokens, ResetClaim(c, r) PROVE SessionsTyped'
  <2> DEFINE row == IF ResetClaimable(r) THEN [op |-> "password", on |-> r, seen |-> {}]
                    ELSE AgentIdle
  <2>1. row.op \in AgentOps /\ AgentOn(row)
    BY IdleAgents DEF AgentOn
  <2>2. agent' = [agent EXCEPT ![c] = row]
    BY <1>15 DEF ResetClaim, AgentGoesOn
  <2>3. resetToken' \in [ResetTokens -> {"NONE", "SENT", "CONSUMED"}]
    BY <1>15 DEF ResetClaim, SessionsTyped
  <2> HIDE DEF row
  <2> QED BY <1>15, <2>1, <2>2, <2>3, AgentsTyped DEF ResetClaim, SessionsTyped
<1>16. ASSUME NEW c \in Agents, NEW r \in ResetTokens, ResetPassword(c, r) PROVE SessionsTyped'
  <2>1. agent' = [agent EXCEPT ![c] = AgentIdle]
    BY <1>16, WritersBecomeIdle DEF ResetPassword
  <2>2. resets' \in [ResetTokens -> Nat] /\ password' \in Nat
    BY <1>16 DEF ResetPassword, SessionsTyped
  <2> QED BY <1>7, <1>16, <2>1, <2>2 DEF ResetPassword
<1>17. CASE UNCHANGED sessionsVars
  BY <1>17 DEF sessionsVars, SessionsTyped, AgentOn
<1> QED
  BY <1>1, <1>2, <1>3, <1>4, <1>5, <1>6, <1>8, <1>9, <1>10, <1>11, <1>12, <1>13, <1>14,
     <1>15, <1>16, <1>17 DEF SessionsNext
-----------------------------------------------------------------------------
\* A token belongs to a session that was opened, of the usable ones of a session there
\* is one, and one of a revoked session is about to be revoked; a rotation under way
\* is about a token that was issued.
TokensInv ==
    /\ \A t \in Tokens : token[t].of # None => session[token[t].of] # "NONE"
    /\ \A t, u \in Tokens : Usable(t) /\ Usable(u) /\ token[t].of = token[u].of => t = u
    /\ RevokedHasNoToken
    /\ \A c \in Agents : agent[c].op \in {"rotate", "reused"} => token[agent[c].on].of # None

\* A step that leaves tokens and sessions alone and ends no revocation.
LEMMA OthersKeepTokens ==
    ASSUME SessionsTyped, TokensInv, UNCHANGED <<token, session>>,
           NEW c \in Agents, NEW row, agent' = [agent EXCEPT ![c] = row],
           agent[c].op # "revoke",
           row.op \in {"rotate", "reused"} => token[row.on].of # None
    PROVE  TokensInv'
<1>1. \A o \in Agents : agent'[o] = IF o = c THEN row ELSE agent[o]
  BY DEF SessionsTyped
<1>2. \A t \in Tokens : Usable(t)' = Usable(t)
  BY DEF Usable
<1>3. RevokedHasNoToken'
  BY <1>1, <1>2 DEF TokensInv, RevokedHasNoToken
<1> QED BY <1>1, <1>2, <1>3 DEF TokensInv

\* Ending sessions together with their tokens.
LEMMA EndsKeepTokens ==
    ASSUME SessionsTyped, TokensInv, NEW c \in Agents, NEW ended, NEW gone \in SUBSET ended,
           agent' = [agent EXCEPT ![c] = AgentIdle],
           token' = TokensRevoked(ended),
           \A s \in Sessions : session'[s] = IF s \in gone THEN "REVOKED" ELSE session[s],
           agent[c].op = "revoke" => agent[c].on \in ended
    PROVE  TokensInv'
<1>1. \A o \in Agents : o # c => agent'[o] = agent[o]
  BY DEF SessionsTyped
<1>2. agent'[c].op = "idle"
  BY IdleAgents DEF SessionsTyped
<1>3. \A t \in Tokens : token'[t].of = token[t].of
                        /\ (Usable(t)' => Usable(t) /\ token[t].of \notin ended)
  BY TokensOfEndedRevoked DEF Usable
<1>4. \A t \in Tokens : token[t].of \in Sessions \cup {None}
  BY DEF SessionsTyped, TokenRows
<1>5. RevokedHasNoToken'
  <2> SUFFICES ASSUME NEW t \in Tokens, Usable(t)', session'[token'[t].of] = "REVOKED"
               PROVE  \E o \in Agents : agent'[o].op = "revoke" /\ agent'[o].on = token'[t].of
    BY DEF RevokedHasNoToken
  <2>1. Usable(t) /\ token[t].of \notin ended /\ token'[t].of = token[t].of
    BY <1>3
  <2>2. token[t].of \in Sessions
    BY <1>4, <2>1 DEF Usable
  <2>3. session[token[t].of] = "REVOKED"
    BY <2>1, <2>2
  <2>4. PICK o \in Agents : agent[o].op = "revoke" /\ agent[o].on = token[t].of
    BY <2>1, <2>3 DEF TokensInv, RevokedHasNoToken
  <2>5. o # c
    BY <2>1, <2>4
  <2> QED BY <1>1, <2>1, <2>4, <2>5
<1>6. \A t \in Tokens : token'[t].of # None => session'[token'[t].of] # "NONE"
  <2> SUFFICES ASSUME NEW t \in Tokens, token'[t].of # None
               PROVE  session'[token'[t].of] # "NONE"
    OBVIOUS
  <2>1. token'[t].of = token[t].of /\ token[t].of \in Sessions
    BY <1>3, <1>4
  <2> QED BY <2>1 DEF TokensInv
<1>7. \A o \in Agents : agent'[o].op \in {"rotate", "reused"} => token'[agent'[o].on].of # None
  <2> SUFFICES ASSUME NEW o \in Agents, agent'[o].op \in {"rotate", "reused"}
               PROVE  token'[agent'[o].on].of # None
    OBVIOUS
  <2>1. agent'[o] = agent[o]
    BY <1>1, <1>2
  <2>2. agent[o].on \in Tokens
    BY <2>1 DEF SessionsTyped, AgentOn
  <2> QED BY <1>3, <2>1, <2>2 DEF TokensInv
<1>8. \A t, u \in Tokens : Usable(t)' /\ Usable(u)' /\ token'[t].of = token'[u].of => t = u
  BY <1>3 DEF TokensInv
<1> QED BY <1>5, <1>6, <1>7, <1>8 DEF TokensInv

\* A new session has no token but its first.
LEMMA OpeningKeepsTokens ==
    ASSUME SessionsTyped, TokensInv, NEW c \in Agents, NEW code \in Codes,
           NEW s \in Sessions, NEW t \in Tokens, CreateSession(c, code, s, t)
    PROVE  TokensInv'
<1>1. /\ session[s] = "NONE" /\ token[t] = NoToken
      /\ session' = [session EXCEPT ![s] = "LIVE"]
      /\ token' = [token EXCEPT ![t].of = s]
      /\ agent[c].op = "open" /\ agent' = [agent EXCEPT ![c] = AgentIdle]
  BY WritersBecomeIdle DEF CreateSession
<1>2. token[t].of = None /\ s # None
  BY <1>1, SessionsAssumption DEF NoToken
<1>3. \A o \in Agents : agent'[o] = IF o = c THEN AgentIdle ELSE agent[o]
  BY <1>1 DEF SessionsTyped
<1>4. /\ token'[t].of = s
      /\ \A u \in Tokens : u # t => token'[u] = token[u] /\ (Usable(u)' <=> Usable(u))
  BY <1>1 DEF SessionsTyped, TokenRows, Usable
<1>5. \A q \in Sessions : session'[q] = IF q = s THEN "LIVE" ELSE session[q]
  BY <1>1 DEF SessionsTyped
<1>6. \A u \in Tokens : token[u].of # s /\ token[u].of \in Sessions \cup {None}
  BY <1>1, <1>2 DEF TokensInv, SessionsTyped, TokenRows
<1>7. \A u \in Tokens : token'[u].of # None => session'[token'[u].of] # "NONE"
  BY <1>4, <1>5, <1>6 DEF TokensInv
<1>8. \A u, v \in Tokens : Usable(u)' /\ Usable(v)' /\ token'[u].of = token'[v].of => u = v
  BY <1>4, <1>6 DEF TokensInv
<1>9. RevokedHasNoToken'
  <2> SUFFICES ASSUME NEW u \in Tokens, Usable(u)', session'[token'[u].of] = "REVOKED"
               PROVE  \E o \in Agents : agent'[o].op = "revoke" /\ agent'[o].on = token'[u].of
    BY DEF RevokedHasNoToken
  <2>1. u # t
    BY <1>4, <1>5
  <2>2. Usable(u) /\ token'[u] = token[u] /\ token[u].of \in Sessions
    BY <1>4, <1>6, <2>1 DEF Usable
  <2>3. session[token[u].of] = "REVOKED"
    BY <1>5, <1>6, <2>2
  <2>4. PICK o \in Agents : agent[o].op = "revoke" /\ agent[o].on = token[u].of
    BY <2>2, <2>3 DEF TokensInv, RevokedHasNoToken
  <2> QED BY <1>1, <1>3, <2>2, <2>4
<1>10. \A o \in Agents : agent'[o].op \in {"rotate", "reused"} => token'[agent'[o].on].of # None
  <2> SUFFICES ASSUME NEW o \in Agents, agent'[o].op \in {"rotate", "reused"}
               PROVE  token'[agent'[o].on].of # None
    OBVIOUS
  <2>1. agent'[o] = agent[o]
    BY <1>3, IdleAgents
  <2>2. agent[o].on \in Tokens /\ token[agent[o].on].of # None
    BY <2>1 DEF SessionsTyped, AgentOn, TokensInv
  <2> QED BY <1>2, <1>4, <2>1, <2>2
<1> QED BY <1>7, <1>8, <1>9, <1>10 DEF TokensInv

\* A rotation puts one usable token in the place of another.
LEMMA RotationKeepsTokens ==
    ASSUME SessionsTyped, TokensInv, NEW c \in Agents, NEW t \in Tokens, NEW new \in Tokens,
           RotateClaimed(c, t, new)
    PROVE  TokensInv'
<1> DEFINE mine == token[t].of
<1>1. /\ Usable(t) /\ token[new] = NoToken
      /\ token' = [token EXCEPT ![t].consumed = TRUE, ![new].of = token[t].of]
      /\ agent[c].op = "rotate" /\ agent' = [agent EXCEPT ![c] = AgentIdle]
      /\ UNCHANGED session
  BY WritersBecomeIdle DEF RotateClaimed, Claimable
<1>2. t # new /\ token[t].of # None
  BY <1>1 DEF Usable, NoToken
<1>3. /\ token'[t].of = token[t].of /\ token'[t].consumed = TRUE
      /\ token'[new].of = token[t].of
      /\ \A u \in Tokens : u # t /\ u # new => token'[u] = token[u]
  <2>1. token[t] \in TokenRows /\ token[new] \in TokenRows
    BY DEF SessionsTyped
  <2>2. /\ token'[t] = [token[t] EXCEPT !.consumed = TRUE]
        /\ token'[new] = [token[new] EXCEPT !.of = token[t].of]
        /\ \A u \in Tokens : u # t /\ u # new => token'[u] = token[u]
    BY <1>1, <1>2 DEF SessionsTyped
  <2> QED BY <2>1, <2>2 DEF TokenRows
<1>4. ~Usable(t)' /\ \A u \in Tokens : u # t /\ u # new => (Usable(u)' <=> Usable(u))
  BY <1>3 DEF Usable
<1>5. \A u \in Tokens : u # new => token'[u].of = token[u].of
  BY <1>3
<1>6. \A o \in Agents : agent'[o] = IF o = c THEN AgentIdle ELSE agent[o]
  BY <1>1 DEF SessionsTyped
<1>7. \A u \in Tokens : token'[u].of # None => session'[token'[u].of] # "NONE"
  BY <1>1, <1>2, <1>3, <1>5 DEF TokensInv
<1>8. \A u, v \in Tokens : Usable(u)' /\ Usable(v)' /\ token'[u].of = token'[v].of => u = v
  <2>1. \A u \in Tokens : u # t /\ u # new /\ Usable(u) => token[u].of # token[t].of
    BY <1>1 DEF TokensInv
  <2> QED BY <1>3, <1>4, <1>5, <2>1 DEF TokensInv
<1>9. RevokedHasNoToken'
  <2> SUFFICES ASSUME NEW u \in Tokens, Usable(u)', session'[token'[u].of] = "REVOKED"
               PROVE  \E o \in Agents : agent'[o].op = "revoke" /\ agent'[o].on = token'[u].of
    BY DEF RevokedHasNoToken
  <2>1. \E v \in Tokens : Usable(v) /\ token[v].of = token'[u].of
    BY <1>1, <1>3, <1>4, <1>5
  <2>2. PICK o \in Agents : agent[o].op = "revoke" /\ agent[o].on = token'[u].of
    BY <1>1, <2>1 DEF TokensInv, RevokedHasNoToken
  <2> QED BY <1>1, <1>6, <2>2
<1>10. \A o \in Agents : agent'[o].op \in {"rotate", "reused"} => token'[agent'[o].on].of # None
  <2> SUFFICES ASSUME NEW o \in Agents, agent'[o].op \in {"rotate", "reused"}
               PROVE  token'[agent'[o].on].of # None
    OBVIOUS
  <2>1. agent'[o] = agent[o]
    BY <1>6, IdleAgents
  <2>2. agent[o].on \in Tokens /\ token[agent[o].on].of # None
    BY <2>1 DEF SessionsTyped, AgentOn, TokensInv
  <2> QED BY <1>2, <1>3, <1>5, <2>1, <2>2
<1> QED BY <1>7, <1>8, <1>9, <1>10 DEF TokensInv

\* A session is revoked by a request that goes on to revoke its tokens.
LEMMA RevocationKeepsTokens ==
    ASSUME SessionsTyped, TokensInv, NEW c \in Agents, NEW s \in Sessions, Revoke(c, s)
    PROVE  TokensInv'
<1> DEFINE row == [op |-> "revoke", on |-> s, seen |-> {}]
<1>1. /\ session' = [session EXCEPT ![s] = "REVOKED"] /\ UNCHANGED token
      /\ agent' = [agent EXCEPT ![c] = row] /\ agent[c].op = "idle"
  BY IdleAgents DEF Revoke
<1>2. row.op = "revoke" /\ row.on = s
  OBVIOUS
<1> HIDE DEF row
<1>3. \A o \in Agents : agent'[o] = IF o = c THEN row ELSE agent[o]
  BY <1>1 DEF SessionsTyped
<1>4. \A q \in Sessions : session'[q] = IF q = s THEN "REVOKED" ELSE session[q]
  BY <1>1 DEF SessionsTyped
<1>5. \A t \in Tokens : Usable(t)' = Usable(t) /\ token[t].of \in Sessions \cup {None}
  BY <1>1 DEF Usable, SessionsTyped, TokenRows
<1>6. RevokedHasNoToken'
  <2> SUFFICES ASSUME NEW t \in Tokens, Usable(t), session'[token[t].of] = "REVOKED"
               PROVE  \E o \in Agents : agent'[o].op = "revoke" /\ agent'[o].on = token[t].of
    BY <1>1, <1>5 DEF RevokedHasNoToken
  <2>1. CASE token[t].of = s
    BY <1>2, <1>3, <2>1
  <2>2. CASE token[t].of # s
    <3>1. session[token[t].of] = "REVOKED"
      BY <1>4, <1>5, <2>2 DEF Usable
    <3>2. PICK o \in Agents : agent[o].op = "revoke" /\ agent[o].on = token[t].of
      BY <3>1 DEF TokensInv, RevokedHasNoToken
    <3> QED BY <1>1, <1>3, <3>2
  <2> QED BY <2>1, <2>2
<1>7. \A t \in Tokens : token[t].of # None => session'[token[t].of] # "NONE"
  BY <1>4, <1>5 DEF TokensInv
<1>8. \A o \in Agents : agent'[o].op \in {"rotate", "reused"} => token[agent'[o].on].of # None
  BY <1>2, <1>3 DEF TokensInv
<1> QED BY <1>1, <1>5, <1>6, <1>7, <1>8 DEF TokensInv

\* Every step keeps the tokens' invariant.
LEMMA TokensKept ==
    ASSUME SessionsTyped, TokensInv, [SessionsNext]_sessionsVars
    PROVE  TokensInv'
<1>0. ASSUME UNCHANGED <<token, session, agent>> PROVE TokensInv'
  BY <1>0 DEF TokensInv, RevokedHasNoToken, Usable
<1>1. ASSUME NEW r \in ResetTokens, RequestReset(r) PROVE TokensInv'
  BY <1>0, <1>1 DEF RequestReset
<1>2. ASSUME NEW c \in Agents, NEW op, NEW x, NEW seen, AgentReads(c, op, x, seen),
             op \in {"rotate", "reused"} => token[x].of # None
      PROVE  TokensInv'
  <2> DEFINE row == [op |-> op, on |-> x, seen |-> seen]
  <2>1. /\ agent' = [agent EXCEPT ![c] = row] /\ agent[c].op = "idle"
        /\ row.op \in {"rotate", "reused"} => token[row.on].of # None
        /\ UNCHANGED <<token, session>>
    BY <1>2, IdleAgents DEF AgentReads
  <2> HIDE DEF row
  <2> QED BY <2>1, OthersKeepTokens
<1>3. ASSUME NEW c \in Agents, NEW code \in Codes, Login(c, code) PROVE TokensInv'
  BY <1>2, <1>3 DEF Login
<1>4. ASSUME NEW c \in Agents, NEW code \in Codes, ClaimCode(c, code) PROVE TokensInv'
  <2> DEFINE row == [op |-> "open", on |-> code, seen |-> {}]
  <2>1. /\ agent' = [agent EXCEPT ![c] = row] /\ agent[c].op = "code" /\ row.op = "open"
        /\ UNCHANGED <<token, session>>
    BY <1>4 DEF ClaimCode, AgentGoesOn
  <2> HIDE DEF row
  <2> QED BY <2>1, OthersKeepTokens
<1>5. ASSUME NEW c \in Agents, NEW code \in Codes, CodeRefused(c, code) PROVE TokensInv'
  BY <1>5, WritersBecomeIdle, IdleAgents, OthersKeepTokens DEF CodeRefused
<1>6. ASSUME NEW c \in Agents, NEW t \in Tokens, RotateRead(c, t) PROVE TokensInv'
  <2>1. token[t].of # None /\ \E op \in {"rotate", "reused"} : AgentReads(c, op, t, {})
    BY <1>6 DEF RotateRead
  <2> QED BY <1>2, <2>1
<1>7. ASSUME NEW c \in Agents, NEW t \in Tokens, RotateReused(c, t) \/ RotateLost(c, t)
      PROVE  TokensInv'
  <2> DEFINE ended == {token[t].of}
  <2>1. agent' = [agent EXCEPT ![c] = AgentIdle] /\ agent[c].op # "revoke"
        /\ token' = TokensRevoked(ended) /\ session' = SessionsRevoked(ended)
    BY <1>7, WritersBecomeIdle DEF RotateReused, RotateLost, EndFamily
  <2>2. \A s \in Sessions : session'[s] = IF s \in ended THEN "REVOKED" ELSE session[s]
    BY <2>1 DEF SessionsRevoked
  <2> HIDE DEF ended
  <2> QED BY <2>1, <2>2, EndsKeepTokens
<1>8. ASSUME NEW c \in Agents, NEW s \in Sessions, RevokeTokens(c, s) PROVE TokensInv'
  <2> DEFINE ended == {s}
             gone == {}
  <2>1. agent' = [agent EXCEPT ![c] = AgentIdle] /\ s \in ended /\ agent[c].on = s
        /\ token' = TokensRevoked(ended)
    BY <1>8, WritersBecomeIdle DEF RevokeTokens
  <2>2. \A q \in Sessions : session'[q] = IF q \in gone THEN "REVOKED" ELSE session[q]
    BY <1>8 DEF RevokeTokens
  <2>3. gone \in SUBSET ended
    OBVIOUS
  <2> HIDE DEF ended, gone
  <2> QED BY <2>1, <2>2, <2>3, EndsKeepTokens
<1>9. ASSUME NEW c \in Agents, RevokeAll(c) PROVE TokensInv'
  <2> DEFINE ended == agent[c].seen
  <2>1. agent' = [agent EXCEPT ![c] = AgentIdle] /\ agent[c].op = "revokeAll"
        /\ token' = TokensRevoked(ended) /\ session' = SessionsRevoked(ended)
    BY <1>9, WritersBecomeIdle DEF RevokeAll
  <2>2. \A s \in Sessions : session'[s] = IF s \in ended THEN "REVOKED" ELSE session[s]
    BY <2>1 DEF SessionsRevoked
  <2> HIDE DEF ended
  <2> QED BY <2>1, <2>2, EndsKeepTokens
<1>10. ASSUME NEW c \in Agents, NEW r \in ResetTokens, ResetPassword(c, r) PROVE TokensInv'
  <2>1. agent' = [agent EXCEPT ![c] = AgentIdle] /\ agent[c].op = "password"
        /\ token' = TokensRevoked(Sessions) /\ session' = SessionsRevoked(LiveSessions)
    BY <1>10, WritersBecomeIdle DEF ResetPassword
  <2>2. \A s \in Sessions : session'[s] = IF s \in LiveSessions THEN "REVOKED" ELSE session[s]
    BY <2>1 DEF SessionsRevoked
  <2>3. LiveSessions \in SUBSET Sessions
    BY DEF LiveSessions
  <2> QED BY <2>1, <2>2, <2>3, EndsKeepTokens
<1>11. ASSUME NEW c \in Agents, RevokeAllRead(c) PROVE TokensInv'
  BY <1>2, <1>11 DEF RevokeAllRead
<1>12. ASSUME NEW c \in Agents, NEW r \in ResetTokens, ResetRead(c, r) PROVE TokensInv'
  BY <1>2, <1>12 DEF ResetRead
<1>13. ASSUME NEW c \in Agents, NEW r \in ResetTokens, ResetClaim(c, r) PROVE TokensInv'
  <2> DEFINE row == IF ResetClaimable(r) THEN [op |-> "password", on |-> r, seen |-> {}]
                    ELSE AgentIdle
  <2>1. /\ agent' = [agent EXCEPT ![c] = row] /\ agent[c].op = "reset"
        /\ row.op \in {"password", "idle"} /\ UNCHANGED <<token, session>>
    BY <1>13, IdleAgents DEF ResetClaim, AgentGoesOn
  <2> HIDE DEF row
  <2> QED BY <2>1, OthersKeepTokens
<1>14. CASE UNCHANGED sessionsVars
  BY <1>0, <1>14 DEF sessionsVars
<1> QED
  BY <1>1, <1>3, <1>4, <1>5, <1>6, <1>7, <1>8, <1>9, <1>10, <1>11, <1>12, <1>13, <1>14,
     OpeningKeepsTokens, RotationKeepsTokens, RevocationKeepsTokens
     DEF SessionsNext
-----------------------------------------------------------------------------
\* A code was spent before a session is opened with it, by one request, for one
\* session.
CodesInv ==
    /\ \A c \in Agents : agent[c].op = "open" =>
          /\ agent[c].on \in spent
          /\ \A s \in Sessions : openedBy[s] # agent[c].on
          /\ \A o \in Agents : agent[o].op = "open" /\ agent[o].on = agent[c].on => o = c
    /\ \A s \in Sessions : openedBy[s] # None => openedBy[s] \in spent
    /\ CodeOpensOneSession

\* A step that opens nothing and claims no code.
LEMMA OthersKeepCodes ==
    ASSUME SessionsTyped, CodesInv, UNCHANGED <<spent, openedBy>>,
           \A c \in Agents : agent'[c].op = "open" => agent'[c] = agent[c]
    PROVE  CodesInv'
<1>1. CodeOpensOneSession'
  BY DEF CodesInv, CodeOpensOneSession
<1>2. \A c \in Agents : agent'[c].op = "open" =>
          /\ agent'[c].on \in spent
          /\ \A s \in Sessions : openedBy[s] # agent'[c].on
          /\ \A o \in Agents : agent'[o].op = "open" /\ agent'[o].on = agent'[c].on => o = c
  BY DEF CodesInv
<1> QED BY <1>1, <1>2 DEF CodesInv

\* A password reset token that is claimed has not changed the password yet, and one
\* request holds it; one that has is consumed.
ResetsInv ==
    /\ \A c \in Agents : agent[c].op = "password" =>
          /\ resets[agent[c].on] = 0 /\ resetToken[agent[c].on] = "CONSUMED"
          /\ \A o \in Agents : agent[o].op = "password" /\ agent[o].on = agent[c].on => o = c
    /\ \A r \in ResetTokens : resets[r] # 0 => resetToken[r] = "CONSUMED"
    /\ ResetOnce

\* A step that claims no reset token and changes no password.
LEMMA OthersKeepResets ==
    ASSUME SessionsTyped, ResetsInv, UNCHANGED <<resetToken, resets>>,
           \A c \in Agents : agent'[c].op = "password" => agent'[c] = agent[c]
    PROVE  ResetsInv'
<1>1. \A c \in Agents : agent'[c].op = "password" =>
          /\ resets[agent'[c].on] = 0 /\ resetToken[agent'[c].on] = "CONSUMED"
          /\ \A o \in Agents : agent'[o].op = "password" /\ agent'[o].on = agent'[c].on => o = c
  BY DEF ResetsInv
<1> QED BY <1>1 DEF ResetsInv, ResetOnce

\* What a step of one request leaves of the others, by the operation it goes on to.
LEMMA OneAgentSteps ==
    ASSUME SessionsTyped, NEW c \in Agents, NEW row, agent' = [agent EXCEPT ![c] = row],
           NEW op, row.op # op
    PROVE  \A o \in Agents : agent'[o].op = op => agent'[o] = agent[o]
BY DEF SessionsTyped

\* Steps that neither claim nor use a code or a reset token.
OtherSteps ==
    \/ \E c \in Agents, code \in Codes : Login(c, code) \/ CodeRefused(c, code)
    \/ \E c \in Agents, t \in Tokens :
          \/ RotateRead(c, t) \/ RotateReused(c, t) \/ RotateLost(c, t)
          \/ \E new \in Tokens : RotateClaimed(c, t, new)
    \/ \E c \in Agents, s \in Sessions : Revoke(c, s) \/ RevokeTokens(c, s)
    \/ \E c \in Agents : RevokeAllRead(c) \/ RevokeAll(c)
    \/ \E c \in Agents, r \in ResetTokens : ResetRead(c, r)
    \/ UNCHANGED sessionsVars

\* No code and no reset token is claimed or used.
ClaimsAlone ==
    /\ UNCHANGED <<spent, openedBy, resetToken, resets>>
    /\ \A o \in Agents : agent'[o].op \in {"open", "password"} => agent'[o] = agent[o]

\* They leave both alone.
LEMMA OtherStepsKeep ==
    ASSUME SessionsTyped, OtherSteps
    PROVE  ClaimsAlone
<1>1. ASSUME NEW c \in Agents, NEW row, agent' = [agent EXCEPT ![c] = row],
             row.op \notin {"open", "password"},
             UNCHANGED <<spent, openedBy, resetToken, resets>>
      PROVE  ClaimsAlone
  BY <1>1, OneAgentSteps DEF ClaimsAlone
<1>2. ASSUME NEW c \in Agents, NEW op, NEW x, NEW seen, AgentReads(c, op, x, seen),
             op \notin {"open", "password"}
      PROVE  ClaimsAlone
  BY <1>1, <1>2 DEF AgentReads
<1>3. ASSUME NEW c \in Agents, agent' = [agent EXCEPT ![c] = AgentIdle],
             UNCHANGED <<spent, openedBy, resetToken, resets>>
      PROVE  ClaimsAlone
  BY <1>1, <1>3, IdleAgents
<1>4. ASSUME NEW c \in Agents, NEW code \in Codes, Login(c, code) \/ CodeRefused(c, code)
      PROVE  ClaimsAlone
  BY <1>2, <1>3, <1>4, WritersBecomeIdle DEF Login, CodeRefused
<1>5. ASSUME NEW c \in Agents, NEW t \in Tokens, RotateRead(c, t) PROVE ClaimsAlone
  BY <1>2, <1>5 DEF RotateRead
<1>6. ASSUME NEW c \in Agents, NEW t \in Tokens, RotateReused(c, t) \/ RotateLost(c, t)
      PROVE  ClaimsAlone
  BY <1>3, <1>6, WritersBecomeIdle DEF RotateReused, RotateLost, EndFamily
<1>7. ASSUME NEW c \in Agents, NEW t \in Tokens, NEW new \in Tokens, RotateClaimed(c, t, new)
      PROVE  ClaimsAlone
  BY <1>3, <1>7, WritersBecomeIdle DEF RotateClaimed
<1>8. ASSUME NEW c \in Agents, NEW s \in Sessions, Revoke(c, s) PROVE ClaimsAlone
  BY <1>1, <1>8 DEF Revoke
<1>9. ASSUME NEW c \in Agents, NEW s \in Sessions, RevokeTokens(c, s) PROVE ClaimsAlone
  BY <1>3, <1>9, WritersBecomeIdle DEF RevokeTokens
<1>10. ASSUME NEW c \in Agents, RevokeAllRead(c) \/ RevokeAll(c) PROVE ClaimsAlone
  BY <1>2, <1>3, <1>10, WritersBecomeIdle DEF RevokeAllRead, RevokeAll
<1>11. ASSUME NEW c \in Agents, NEW r \in ResetTokens, ResetRead(c, r) PROVE ClaimsAlone
  BY <1>2, <1>11 DEF ResetRead
<1>12. CASE UNCHANGED sessionsVars
  BY <1>12 DEF sessionsVars, ClaimsAlone
<1> QED
  BY <1>4, <1>5, <1>6, <1>7, <1>8, <1>9, <1>10, <1>11, <1>12 DEF OtherSteps

\* Every step keeps both invariants.
LEMMA ClaimsKept ==
    ASSUME SessionsTyped, CodesInv, ResetsInv, [SessionsNext]_sessionsVars
    PROVE  CodesInv' /\ ResetsInv'
<1>1. CASE OtherSteps
  BY <1>1, OtherStepsKeep, OthersKeepCodes, OthersKeepResets DEF ClaimsAlone
<1>2. ASSUME NEW c \in Agents, NEW code \in Codes, ClaimCode(c, code)
      PROVE  CodesInv' /\ ResetsInv'
  <2> DEFINE row == [op |-> "open", on |-> code, seen |-> {}]
  <2>1. /\ agent' = [agent EXCEPT ![c] = row] /\ row.op = "open" /\ row.on = code
        /\ code \notin spent /\ spent' = spent \cup {code}
        /\ UNCHANGED <<openedBy, resetToken, resets>>
    BY <1>2 DEF ClaimCode, AgentGoesOn, Unspent
  <2> HIDE DEF row
  <2>2. \A o \in Agents : agent'[o] = IF o = c THEN row ELSE agent[o]
    BY <2>1 DEF SessionsTyped
  <2>3. CodesInv'
    <3>1. CodeOpensOneSession'
      BY <2>1 DEF CodesInv, CodeOpensOneSession
    <3>2. \A s \in Sessions : openedBy[s] # code
      BY <2>1, SessionsAssumption DEF CodesInv
    <3>3. \A o \in Agents : agent[o].op = "open" => agent[o].on # code
      BY <2>1 DEF CodesInv
    <3> QED BY <2>1, <2>2, <3>1, <3>2, <3>3 DEF CodesInv
  <2>4. ResetsInv'
    <3>1. \A o \in Agents : agent'[o].op = "password" => agent'[o] = agent[o]
      BY <2>1, <2>2
    <3> QED BY <2>1, <3>1, OthersKeepResets
  <2> QED BY <2>3, <2>4
<1>3. ASSUME NEW c \in Agents, NEW code \in Codes, NEW s \in Sessions, NEW t \in Tokens,
             CreateSession(c, code, s, t)
      PROVE  CodesInv' /\ ResetsInv'
  <2>1. /\ openedBy' = [openedBy EXCEPT ![s] = code]
        /\ agent[c].op = "open" /\ agent[c].on = code
        /\ agent' = [agent EXCEPT ![c] = AgentIdle]
        /\ UNCHANGED <<spent, resetToken, resets>>
    BY <1>3, WritersBecomeIdle DEF CreateSession
  <2>2. \A o \in Agents : agent'[o] = IF o = c THEN AgentIdle ELSE agent[o]
    BY <2>1 DEF SessionsTyped
  <2>3. \A q \in Sessions : openedBy'[q] = IF q = s THEN code ELSE openedBy[q]
    BY <2>1 DEF SessionsTyped
  <2>4. code \in spent /\ \A q \in Sessions : openedBy[q] # code
    BY <2>1 DEF CodesInv
  <2>5. CodesInv'
    <3>1. CodeOpensOneSession'
      BY <2>3, <2>4 DEF CodesInv, CodeOpensOneSession
    <3>2. \A o \in Agents : agent'[o].op = "open" => agent'[o] = agent[o] /\ agent[o].on # code
      BY <2>1, <2>2, IdleAgents DEF CodesInv
    <3>3. \A o \in Agents : agent'[o].op = "open" =>
             /\ agent'[o].on \in spent
             /\ \A q \in Sessions : openedBy'[q] # agent'[o].on
             /\ \A p \in Agents : agent'[p].op = "open" /\ agent'[p].on = agent'[o].on => p = o
      BY <2>3, <3>2 DEF CodesInv
    <3> QED BY <2>1, <2>3, <2>4, <3>1, <3>3 DEF CodesInv
  <2>6. ResetsInv'
    <3>1. \A o \in Agents : agent'[o].op = "password" => agent'[o] = agent[o]
      BY <2>2, IdleAgents
    <3> QED BY <2>1, <3>1, OthersKeepResets
  <2> QED BY <2>5, <2>6
<1>4. ASSUME NEW r \in ResetTokens, RequestReset(r) PROVE CodesInv' /\ ResetsInv'
  <2>1. /\ resetToken[r] = "NONE"
        /\ \A x \in ResetTokens :
              /\ resetToken[x] = "CONSUMED" => resetToken'[x] = "CONSUMED"
        /\ UNCHANGED <<openedBy, spent, resets, agent>>
    BY <1>4 DEF RequestReset
  <2>2. \A c \in Agents : agent[c].op = "password" => agent[c].on \in ResetTokens
    BY DEF SessionsTyped, AgentOn
  <2>3. ResetsInv'
    BY <2>1, <2>2 DEF ResetsInv, ResetOnce
  <2> QED BY <2>1, <2>3, OthersKeepCodes
<1>5. ASSUME NEW c \in Agents, NEW r \in ResetTokens, ResetClaim(c, r)
      PROVE  CodesInv' /\ ResetsInv'
  <2> DEFINE row == IF ResetClaimable(r) THEN [op |-> "password", on |-> r, seen |-> {}]
                    ELSE AgentIdle
  <2>1. /\ agent' = [agent EXCEPT ![c] = row] /\ agent[c].op = "reset"
        /\ resetToken' = [resetToken EXCEPT ![r] = "CONSUMED"]
        /\ row.op # "open"
        /\ row.op = "password" => row.on = r /\ resetToken[r] = "SENT"
        /\ UNCHANGED <<openedBy, spent, resets>>
    BY <1>5, IdleAgents DEF ResetClaim, AgentGoesOn, ResetClaimable
  <2> HIDE DEF row
  <2>2. \A o \in Agents : agent'[o] = IF o = c THEN row ELSE agent[o]
    BY <2>1 DEF SessionsTyped
  <2>3. CodesInv'
    BY <2>1, OneAgentSteps, OthersKeepCodes
  <2>4. \A x \in ResetTokens : resetToken'[x] = IF x = r THEN "CONSUMED" ELSE resetToken[x]
    BY <2>1 DEF SessionsTyped
  <2>5. \A o \in Agents : agent[o].op = "password" => agent[o].on \in ResetTokens
    BY DEF SessionsTyped, AgentOn
  <2>6. row.op = "password" =>
           resets[r] = 0 /\ \A o \in Agents : agent[o].op = "password" => agent[o].on # r
    BY <2>1 DEF ResetsInv
  <2>7. ResetsInv'
    BY <2>1, <2>2, <2>4, <2>5, <2>6 DEF ResetsInv, ResetOnce
  <2> QED BY <2>3, <2>7
<1>6. ASSUME NEW c \in Agents, NEW r \in ResetTokens, ResetPassword(c, r)
      PROVE  CodesInv' /\ ResetsInv'
  <2>1. /\ agent' = [agent EXCEPT ![c] = AgentIdle]
        /\ agent[c].op = "password" /\ agent[c].on = r
        /\ resets' = [resets EXCEPT ![r] = @ + 1]
        /\ UNCHANGED <<openedBy, spent, resetToken>>
    BY <1>6, WritersBecomeIdle DEF ResetPassword
  <2>2. \A o \in Agents : agent'[o] = IF o = c THEN AgentIdle ELSE agent[o]
    BY <2>1 DEF SessionsTyped
  <2>3. CodesInv'
    BY <2>1, IdleAgents, OneAgentSteps, OthersKeepCodes
  <2>4. resets[r] = 0 /\ resetToken[r] = "CONSUMED"
    BY <2>1 DEF ResetsInv
  <2>5. \A x \in ResetTokens : resets'[x] = IF x = r THEN 1 ELSE resets[x]
    BY <2>1, <2>4 DEF SessionsTyped
  <2>6. \A o \in Agents : agent'[o].op = "password" =>
           agent'[o] = agent[o] /\ agent[o].on # r /\ agent[o].on \in ResetTokens
    BY <2>1, <2>2, IdleAgents DEF ResetsInv, SessionsTyped, AgentOn
  <2>7. ResetsInv'
    BY <2>1, <2>4, <2>5, <2>6 DEF ResetsInv, ResetOnce
  <2> QED BY <2>3, <2>7
<1> QED BY <1>1, <1>2, <1>3, <1>4, <1>5, <1>6 DEF SessionsNext, OtherSteps

SessionsInv == SessionsTyped /\ TokensInv /\ CodesInv /\ ResetsInv

\* The invariant holds throughout.
LEMMA SessionsHold == SessionsSpec => []SessionsInv
<1>1. SessionsInit => SessionsInv
  <2> SUFFICES ASSUME SessionsInit PROVE SessionsInv
    OBVIOUS
  <2>1. \A c \in Agents : agent[c] = AgentIdle
    BY DEF SessionsInit
  <2>2. \A t \in Tokens : token[t] = NoToken /\ NoToken.of = None /\ NoToken \in TokenRows
    BY DEF SessionsInit, NoToken, TokenRows
  <2>3. SessionsTyped
    BY <2>1, <2>2, IdleAgents DEF SessionsInit, SessionsTyped, AgentOps
  <2>4. TokensInv
    BY <2>1, <2>2, IdleAgents DEF TokensInv, RevokedHasNoToken, Usable
  <2>5. CodesInv
    BY <2>1, IdleAgents DEF SessionsInit, CodesInv, CodeOpensOneSession
  <2>6. ResetsInv
    BY <2>1, IdleAgents DEF SessionsInit, ResetsInv, ResetOnce
  <2> QED BY <2>3, <2>4, <2>5, <2>6 DEF SessionsInv
<1>2. SessionsInv /\ [SessionsNext]_sessionsVars => SessionsInv'
  BY SessionsStayTyped, TokensKept, ClaimsKept DEF SessionsInv
<1> QED BY <1>1, <1>2, PTL DEF SessionsSpec

\* Every secret that opens an account is good once (rotateRefreshToken, revokeSession,
\* assertLogin, resetPassword).
THEOREM SessionsAreSound == SessionsSpec => []SessionsSound
<1>1. SessionsInv => SessionsSound
  <2> SUFFICES ASSUME SessionsInv PROVE SessionsSound
    OBVIOUS
  <2>1. ASSUME NEW s \in Sessions
        PROVE  Cardinality({t \in Tokens : token[t].of = s /\ Usable(t)}) <= 1
    <3> DEFINE good == {t \in Tokens : token[t].of = s /\ Usable(t)}
    <3>1. \A t, u \in good : t = u
      BY DEF SessionsInv, TokensInv
    <3> HIDE DEF good
    <3>2. good = {} \/ \E t : good = {t}
      BY <3>1
    <3>3. good = {} => Cardinality(good) = 0
      BY FS_EmptySet
    <3>4. (\E t : good = {t}) => Cardinality(good) = 1
      BY FS_Singleton
    <3>5. Cardinality(good) <= 1
      BY <3>2, <3>3, <3>4
    <3> QED BY <3>5 DEF good
  <2> QED BY <2>1 DEF SessionsInv, TokensInv, CodesInv, ResetsInv, SessionsSound, OneUsableToken
<1> QED BY <1>1, SessionsHold, PTL

\* A session whose token came a second time has ended when that request is answered
\* (rotateRefreshToken, "reused").
THEOREM ReuseEndsTheSession == SessionsSpec => ReuseEndsSession
<1>1. SessionsInv /\ [SessionsNext]_sessionsVars =>
        [\A c \in Agents :
           (agent[c].op = "reused" /\ agent'[c] # agent[c]) =>
              session'[token[agent[c].on].of] = "REVOKED"]_sessionsVars
  <2> SUFFICES ASSUME SessionsInv, SessionsNext, NEW d \in Agents,
                      agent[d].op = "reused", agent'[d] # agent[d]
               PROVE  session'[token[agent[d].on].of] = "REVOKED"
    OBVIOUS
  <2>1. ASSUME NEW c \in Agents, NEW row, agent' = [agent EXCEPT ![c] = row] PROVE c = d
    BY <2>1 DEF SessionsInv, SessionsTyped
  <2>2. ASSUME NEW c \in Agents, NEW t \in Tokens, RotateReused(c, t)
        PROVE  session'[token[agent[d].on].of] = "REVOKED"
    <3>1. agent[c].on = t /\ agent' = [agent EXCEPT ![c] = AgentIdle]
          /\ session' = SessionsRevoked({token[t].of})
      BY <2>2, WritersBecomeIdle DEF RotateReused, EndFamily
    <3>2. c = d
      BY <2>1, <3>1
    <3>3. token[t].of # None /\ token[t] \in TokenRows
      BY <3>1, <3>2 DEF SessionsInv, SessionsTyped, TokensInv
    <3>4. token[t].of \in Sessions
      BY <3>3 DEF TokenRows
    <3> QED BY <3>1, <3>2, <3>4 DEF SessionsRevoked
  <2>3. ASSUME NEW c \in Agents, NEW op, NEW x, NEW seen, AgentReads(c, op, x, seen)
        PROVE  FALSE
    BY <2>1, <2>3, IdleAgents DEF AgentReads
  <2>4. ASSUME NEW c \in Agents, NEW op, NEW x, NEW next, AgentGoesOn(c, op, x, next),
               op # "reused"
        PROVE  FALSE
    BY <2>1, <2>4 DEF AgentGoesOn
  <2>5. ASSUME NEW c \in Agents, NEW op, NEW x, AgentWrites(c, op, x), op # "reused"
        PROVE  FALSE
    BY <2>4, <2>5 DEF AgentWrites
  <2>6. ASSUME NEW r \in ResetTokens, RequestReset(r) PROVE FALSE
    BY <2>6 DEF RequestReset
  <2>7. ASSUME NEW c \in Agents, NEW code \in Codes,
               \/ Login(c, code) \/ ClaimCode(c, code) \/ CodeRefused(c, code)
               \/ \E s \in Sessions, t \in Tokens : CreateSession(c, code, s, t)
        PROVE  FALSE
    BY <2>3, <2>4, <2>5, <2>7 DEF Login, ClaimCode, CodeRefused, CreateSession
  <2>8. ASSUME NEW c \in Agents, NEW t \in Tokens,
               \/ RotateRead(c, t) \/ RotateLost(c, t)
               \/ \E new \in Tokens : RotateClaimed(c, t, new)
        PROVE  FALSE
    BY <2>3, <2>5, <2>8 DEF RotateRead, RotateLost, RotateClaimed
  <2>9. ASSUME NEW c \in Agents, NEW s \in Sessions, Revoke(c, s) \/ RevokeTokens(c, s)
        PROVE  FALSE
    BY <2>1, <2>5, <2>9, IdleAgents DEF Revoke, RevokeTokens
  <2>10. ASSUME NEW c \in Agents, RevokeAllRead(c) \/ RevokeAll(c) PROVE FALSE
    BY <2>3, <2>5, <2>10 DEF RevokeAllRead, RevokeAll
  <2>11. ASSUME NEW c \in Agents, NEW r \in ResetTokens,
                ResetRead(c, r) \/ ResetClaim(c, r) \/ ResetPassword(c, r)
         PROVE  FALSE
    BY <2>3, <2>4, <2>5, <2>11 DEF ResetRead, ResetClaim, ResetPassword
  <2> QED BY <2>2, <2>6, <2>7, <2>8, <2>9, <2>10, <2>11 DEF SessionsNext
<1> QED BY <1>1, SessionsHold, PTL DEF SessionsSpec, ReuseEndsSession
-----------------------------------------------------------------------------
(***************************************************************************)
(* Orders of partners.  Of the specification only the safety part is used: *)
(* the composition states no fairness.                                     *)
(***************************************************************************)

ShopsTyped ==
    /\ DOMAIN shop = Shops /\ DOMAIN order = Orders
    /\ \A c \in Shops : shop[c].op # "idle" => shop[c].on \in Orders

\* Under one key one order is stored, and the request that stored it announces it.
OrdersInv ==
    /\ ShopsTyped
    /\ \A o, p \in Orders : order[o] # "NONE" /\ order[p] # "NONE" /\ ShopKey[o] = ShopKey[p] =>
                              o = p
    /\ \A c \in Shops : shop[c].op \in {"accepted", "fulfill"} => order[shop[c].on] # "NONE"
    /\ \A c, e \in Shops : shop[c].op = "accepted" /\ shop[e].op = "accepted" /\ c # e =>
                              shop[c].on # shop[e].on

\* A request that goes on to something that is no announcement.
LEMMA ShopsGoOn ==
    ASSUME OrdersInv, NEW c \in Shops, NEW row, shop' = [shop EXCEPT ![c] = row],
           row.op # "idle" => row.on \in Orders,
           row.op # "accepted",
           row.op = "fulfill" => order[row.on] # "NONE",
           DOMAIN order' = Orders,
           \A o \in Orders : order'[o] # "NONE" <=> order[o] # "NONE"
    PROVE  OrdersInv'
<1>1. \A e \in Shops : shop'[e] = IF e = c THEN row ELSE shop[e]
  BY DEF OrdersInv, ShopsTyped
<1>2. ShopsTyped'
  BY <1>1 DEF OrdersInv, ShopsTyped
<1>3. \A e \in Shops : shop'[e].op \in {"accepted", "fulfill"} => order'[shop'[e].on] # "NONE"
  BY <1>1, <1>2 DEF OrdersInv, ShopsTyped
<1>4. \A d, e \in Shops : shop'[d].op = "accepted" /\ shop'[e].op = "accepted" /\ d # e =>
                             shop'[d].on # shop'[e].on
  BY <1>1 DEF OrdersInv
<1>5. \A o, p \in Orders : order'[o] # "NONE" /\ order'[p] # "NONE" /\ ShopKey[o] = ShopKey[p] =>
                             o = p
  BY DEF OrdersInv
<1> QED BY <1>2, <1>3, <1>4, <1>5 DEF OrdersInv

\* Every step keeps it.
LEMMA OrdersKept ==
    ASSUME OrdersInv, [PartnerNext]_partnerVars
    PROVE  OrdersInv'
<1>0. ASSUME UNCHANGED <<shop, order>> PROVE OrdersInv'
  BY <1>0 DEF OrdersInv, ShopsTyped
<1>i. ShopIdle.op = "idle"
  BY DEF ShopIdle
<1>1. ASSUME NEW c \in Shops, NEW o \in Orders, SubmitRead(c, o) \/ FulfillRead(c, o)
      PROVE  OrdersInv'
  <2> DEFINE row(op) == [op |-> op, on |-> o]
  <2>1. CASE SubmitRead(c, o)
    <3>1. shop' = [shop EXCEPT ![c] = row("submit")] /\ UNCHANGED order
          /\ row("submit").op = "submit" /\ row("submit").on = o
      BY <2>1 DEF SubmitRead
    <3> HIDE DEF row
    <3> QED BY <3>1, ShopsGoOn DEF OrdersInv, ShopsTyped
  <2>2. CASE FulfillRead(c, o)
    <3>1. shop' = [shop EXCEPT ![c] = row("fulfill")] /\ UNCHANGED order
          /\ row("fulfill").op = "fulfill" /\ row("fulfill").on = o /\ order[o] = "ACCEPTED"
      BY <2>2 DEF FulfillRead
    <3> HIDE DEF row
    <3> QED BY <3>1, ShopsGoOn DEF OrdersInv, ShopsTyped
  <2> QED BY <1>1, <2>1, <2>2
<1>2. ASSUME NEW c \in Shops, NEW o \in Orders, Submit(c, o), KeyFree(o) PROVE OrdersInv'
  <2> DEFINE row == [op |-> "accepted", on |-> o]
  <2>1. shop' = [shop EXCEPT ![c] = row] /\ order' = [order EXCEPT ![o] = "ACCEPTED"]
    BY <1>2 DEF Submit, ShopGoesOn
  <2>2. row.op = "accepted" /\ row.on = o
    OBVIOUS
  <2> HIDE DEF row
  <2>3. \A e \in Shops : shop'[e] = IF e = c THEN row ELSE shop[e]
    BY <2>1 DEF OrdersInv, ShopsTyped
  <2>4. \A p \in Orders : order'[p] = IF p = o THEN "ACCEPTED" ELSE order[p]
    BY <2>1 DEF OrdersInv, ShopsTyped
  <2>5. \A p \in Orders : order[p] # "NONE" => ShopKey[p] # ShopKey[o]
    BY <1>2 DEF KeyFree, Stored
  <2>6. order[o] = "NONE"
    BY <2>5
  <2>7. \A e \in Shops : shop[e].op \in {"accepted", "fulfill"} => shop[e].on # o
    BY <2>6 DEF OrdersInv
  <2>8. ShopsTyped'
    BY <2>1, <2>2, <2>3 DEF OrdersInv, ShopsTyped
  <2> QED BY <2>2, <2>3, <2>4, <2>5, <2>7, <2>8 DEF OrdersInv, ShopsTyped
<1>3. ASSUME NEW c \in Shops, NEW o \in Orders, Submit(c, o), ~KeyFree(o) PROVE OrdersInv'
  <2>1. shop' = [shop EXCEPT ![c] = ShopIdle] /\ order' = [order EXCEPT ![o] = order[o]]
    BY <1>3 DEF Submit, ShopGoesOn
  <2>2. DOMAIN order' = Orders /\ \A p \in Orders : order'[p] = order[p]
    BY <2>1 DEF OrdersInv, ShopsTyped
  <2> QED BY <1>i, <2>1, <2>2, ShopsGoOn
<1>4. ASSUME NEW c \in Shops, NEW o \in Orders, Fulfill(c, o) PROVE OrdersInv'
  <2> DEFINE row == [op |-> "fulfilled", on |-> o]
  <2>1. shop' = [shop EXCEPT ![c] = row] /\ order' = [order EXCEPT ![o] = "FULFILLED"]
        /\ shop[c] = [op |-> "fulfill", on |-> o]
    BY <1>4 DEF Fulfill, ShopGoesOn
  <2>2. row.op = "fulfilled" /\ row.on = o
    OBVIOUS
  <2> HIDE DEF row
  <2>3. order[o] # "NONE"
    BY <2>1 DEF OrdersInv
  <2>4. DOMAIN order' = Orders /\ \A p \in Orders : order'[p] # "NONE" <=> order[p] # "NONE"
    BY <2>1, <2>3 DEF OrdersInv, ShopsTyped
  <2> QED BY <2>1, <2>2, <2>4, ShopsGoOn
<1>5. ASSUME NEW c \in Shops, NEW o \in Orders, NEW d \in Deliveries, EnqueueWebhook(c, o, d)
      PROVE  OrdersInv'
  <2>1. shop' = [shop EXCEPT ![c] = ShopIdle] /\ UNCHANGED order
    BY <1>5 DEF EnqueueWebhook, ShopGoesOn
  <2> QED BY <1>i, <2>1, ShopsGoOn DEF OrdersInv, ShopsTyped
<1>6. ASSUME NEW c \in Shops, ShopCrash(c) PROVE OrdersInv'
  BY <1>i, <1>6, ShopsGoOn DEF ShopCrash, OrdersInv, ShopsTyped
<1>7. ASSUME NEW d \in Deliveries, ComesDue(d) \/ \E new \in Deliveries : ReplayWebhook(d, new)
      PROVE  OrdersInv'
  BY <1>0, <1>7 DEF ComesDue, ReplayWebhook
<1>8. ASSUME NEW w \in Senders, SenderStep(w) \/ SenderCrash(w) PROVE OrdersInv'
  BY <1>0, <1>8
     DEF SenderStep, SenderCrash, ReadBatch, ClaimDelivery, BatchDone, PostAccepted, PostFails,
         MarkDelivered, MarkFailed
<1>9. CASE UNCHANGED partnerVars
  BY <1>0, <1>9 DEF partnerVars
<1>10. ASSUME NEW c \in Shops,
              \/ ShopCrash(c)
              \/ \E o \in Orders :
                    \/ SubmitRead(c, o) \/ Submit(c, o) \/ FulfillRead(c, o) \/ Fulfill(c, o)
                    \/ \E d \in Deliveries : EnqueueWebhook(c, o, d)
       PROVE  OrdersInv'
  BY <1>1, <1>2, <1>3, <1>4, <1>5, <1>6, <1>10
<1> QED BY <1>7, <1>8, <1>9, <1>10 DEF PartnerNext

\* Requests repeated under one external key store and announce one order
\* (submitOrder).
THEOREM OrdersAcceptedOnce ==
    PartnerInit /\ [][PartnerNext]_partnerVars => []AcceptedAnnouncedOnce
<1>1. PartnerInit => OrdersInv
  BY DEF PartnerInit, OrdersInv, ShopsTyped, ShopIdle
<1>2. OrdersInv => AcceptedAnnouncedOnce
  <2> SUFFICES ASSUME OrdersInv, NEW k \in {ShopKey[o] : o \in Orders}
               PROVE  /\ Cardinality({o \in Orders : ShopKey[o] = k /\ order[o] # "NONE"}) <= 1
                      /\ \A c, e \in Shops :
                            (shop[c].op = "accepted" /\ shop[e].op = "accepted" /\ c # e) =>
                               ShopKey[shop[c].on] # ShopKey[shop[e].on]
    BY DEF AcceptedAnnouncedOnce
  <2>1. Cardinality({o \in Orders : ShopKey[o] = k /\ order[o] # "NONE"}) <= 1
    <3> DEFINE same == {o \in Orders : ShopKey[o] = k /\ order[o] # "NONE"}
    <3>1. \A o, p \in same : o = p
      BY DEF OrdersInv
    <3> HIDE DEF same
    <3>2. same = {} \/ \E o : same = {o}
      BY <3>1
    <3>3. same = {} => Cardinality(same) = 0
      BY FS_EmptySet
    <3>4. (\E o : same = {o}) => Cardinality(same) = 1
      BY FS_Singleton
    <3>5. Cardinality(same) <= 1
      BY <3>2, <3>3, <3>4
    <3> QED BY <3>5 DEF same
  <2>2. \A c, e \in Shops :
           (shop[c].op = "accepted" /\ shop[e].op = "accepted" /\ c # e) =>
              ShopKey[shop[c].on] # ShopKey[shop[e].on]
    BY DEF OrdersInv, ShopsTyped
  <2> QED BY <2>1, <2>2
<1> QED BY <1>1, <1>2, OrdersKept, PTL
-----------------------------------------------------------------------------
(***************************************************************************)
(* Handling units.                                                         *)
(***************************************************************************)

KeysOfUnit(u, rows) == {HandlingKey[e] : e \in {h \in rows : EventUnit[h] = u}}

HandledInv ==
    /\ unitVersion \in [HandlingUnits -> Nat] /\ recorded \subseteq HandlingEvents
    /\ \A u \in HandlingUnits :
          /\ IsFiniteSet(KeysOfUnit(u, recorded))
          /\ unitVersion[u] = 1 + Cardinality(KeysOfUnit(u, recorded))

\* However often an event is sent under one key it moved its unit once
\* (recordHandlingEvent and the unique key).
THEOREM EventsHandledOnce == HandlingSpec => []HandledOnce
<1>1. HandlingInit => HandledInv
  <2> SUFFICES ASSUME HandlingInit PROVE HandledInv
    OBVIOUS
  <2>1. \A u \in HandlingUnits : KeysOfUnit(u, recorded) = {}
    BY DEF HandlingInit, KeysOfUnit
  <2>2. IsFiniteSet({}) /\ Cardinality({}) = 0
    BY FS_EmptySet
  <2> QED BY <2>1, <2>2 DEF HandlingInit, HandledInv
<1>2. HandledInv /\ [HandlingNext]_handlingVars => HandledInv'
  <2> SUFFICES ASSUME HandledInv, [HandlingNext]_handlingVars PROVE HandledInv'
    OBVIOUS
  <2>1. UNCHANGED <<recorded, unitVersion>> => HandledInv'
    BY DEF HandledInv
  <2>2. ASSUME NEW c \in Handlers, NEW e \in HandlingEvents, RecordHandlingEvent(c, e),
               EventInsertable(e)
        PROVE  HandledInv'
    <3> DEFINE mine == EventUnit[e]
               itsKey == HandlingKey[e]
               before == KeysOfUnit(mine, recorded)
    <3>1. recorded' = recorded \cup {e}
          /\ unitVersion' = [unitVersion EXCEPT ![mine] = @ + 1]
      BY <2>2 DEF RecordHandlingEvent
    <3>2. mine \in HandlingUnits
      BY HandlingAssumption
    <3>3. itsKey \notin before
      BY <2>2 DEF EventInsertable, SameEvent, KeysOfUnit
    <3>4. KeysOfUnit(mine, recorded') = before \cup {itsKey}
      BY <3>1 DEF KeysOfUnit
    <3>5. \A u \in HandlingUnits : u # mine => KeysOfUnit(u, recorded') = KeysOfUnit(u, recorded)
      BY <3>1 DEF KeysOfUnit
    <3>6. IsFiniteSet(before) /\ unitVersion[mine] = 1 + Cardinality(before)
          /\ unitVersion[mine] \in Nat
      BY <3>2 DEF HandledInv
    <3>7. unitVersion'[mine] = unitVersion[mine] + 1
      BY <3>1, <3>2 DEF HandledInv
    <3>8. \A u \in HandlingUnits : u # mine => unitVersion'[u] = unitVersion[u]
      BY <3>1 DEF HandledInv
    <3>12. unitVersion' \in [HandlingUnits -> Nat] /\ recorded' \subseteq HandlingEvents
      <4>1. recorded' \subseteq HandlingEvents
        BY <2>2, <3>1 DEF HandledInv
      <4>2. unitVersion[mine] + 1 \in Nat
        BY <3>6
      <4>3. unitVersion' \in [HandlingUnits -> Nat]
        BY <3>1, <4>2 DEF HandledInv
      <4> QED BY <4>1, <4>3
    <3> HIDE DEF mine, itsKey, before
    <3>9. IsFiniteSet(before \cup {itsKey})
          /\ Cardinality(before \cup {itsKey}) = Cardinality(before) + 1
      BY <3>3, <3>6, FS_AddElement
    <3>10. Cardinality(before) \in Nat
      BY <3>6, FS_CardinalityType
    <3>11. \A u \in HandlingUnits :
              /\ IsFiniteSet(KeysOfUnit(u, recorded'))
              /\ unitVersion'[u] = 1 + Cardinality(KeysOfUnit(u, recorded'))
      <4> SUFFICES ASSUME NEW u \in HandlingUnits
                   PROVE  /\ IsFiniteSet(KeysOfUnit(u, recorded'))
                          /\ unitVersion'[u] = 1 + Cardinality(KeysOfUnit(u, recorded'))
        OBVIOUS
      <4>1. CASE u = mine
        <5>1. unitVersion'[mine] = 1 + Cardinality(before \cup {itsKey})
          <6> DEFINE n == Cardinality(before)
                     m == Cardinality(before \cup {itsKey})
          <6>1. n \in Nat /\ m = n + 1 /\ unitVersion[mine] = 1 + n
            BY <3>6, <3>9, <3>10
          <6> HIDE DEF n
          <6>2. unitVersion'[mine] = (1 + n) + 1
            BY <3>7, <6>1
          <6>3. (1 + n) + 1 = 1 + m
            BY <6>1
          <6> QED BY <6>2, <6>3
        <5> QED BY <3>4, <3>9, <4>1, <5>1
      <4>2. CASE u # mine
        BY <3>5, <3>8, <4>2 DEF HandledInv
      <4> QED BY <4>1, <4>2
    <3>13. \A u : KeysOfUnit(u, recorded)' = KeysOfUnit(u, recorded')
      BY DEF KeysOfUnit
    <3> QED BY <3>11, <3>12, <3>13 DEF HandledInv
  <2>3. ASSUME NEW c \in Handlers, NEW e \in HandlingEvents, RecordHandlingEvent(c, e),
               ~EventInsertable(e)
        PROVE  HandledInv'
    BY <2>1, <2>3 DEF RecordHandlingEvent
  <2>4. ASSUME NEW c \in Handlers, NEW k \in Packings, AddContentRead(c, k) \/ AddContent(c, k)
        PROVE  HandledInv'
    BY <2>1, <2>4 DEF AddContentRead, AddContent, HandlerReads
  <2>5. ASSUME NEW c \in Handlers, NEW e \in HandlingEvents, HandlingEventRead(c, e)
        PROVE  HandledInv'
    BY <2>1, <2>5 DEF HandlingEventRead, HandlerReads
  <2>6. CASE UNCHANGED handlingVars
    BY <2>1, <2>6 DEF handlingVars
  <2> QED BY <2>2, <2>3, <2>4, <2>5, <2>6 DEF HandlingNext
<1>3. HandledInv => HandledOnce
  BY DEF HandledInv, HandledOnce, KeysOfUnit
<1> QED BY <1>1, <1>2, <1>3, PTL DEF HandlingSpec
-----------------------------------------------------------------------------
(***************************************************************************)
(* Postal.                                                                 *)
(***************************************************************************)

PostalTyped ==
    /\ DOMAIN item = Items /\ DOMAIN clerk = Clerks
    /\ DOMAIN receptacle = Receptacles /\ DOMAIN dispatch = Dispatches
    /\ \A i \in Items : item[i].version \in Nat
    /\ \A r \in Receptacles : receptacle[r].version \in Nat
    /\ \A d \in Dispatches : dispatch[d].version \in Nat

\* A request reads, or it writes what it has read.
ReadsAlone(c, w) ==
    /\ clerk[c] = ClerkIdle
    /\ clerk' = [clerk EXCEPT ![c] = w]
    /\ UNCHANGED <<item, receptacle, bagged, dispatch, linked, known>>

\* What a request has read, before each of its writes.
AsRead(c, w) ==
    \/ \E e \in PostalEvents :
          /\ item[EventItem[e]] # NoRow
          /\ w = [op |-> "event", on |-> e, to |-> None, version |-> 0]
    \/ \E r \in Receptacles, i \in Items :
          w = [op |-> "bag", on |-> r, to |-> i, version |-> 0]
    \/ \E d \in Dispatches, r \in Receptacles :
          /\ receptacle[r].status = "CLOSED"
          /\ w = [op |-> "link", on |-> d, to |-> r, version |-> 0]
    \/ \E r \in Receptacles, next \in {move[2] : move \in ReceptacleMoves} :
          /\ <<receptacle[r].status, next>> \in ReceptacleMoves
          /\ next = "CLOSED" => Closable(r)
          /\ w = [op |-> "receptacle", on |-> r, to |-> next,
                  version |-> receptacle[r].version]
    \/ \E d \in Dispatches, next \in {move[2] : move \in DispatchMoves} :
          /\ <<dispatch[d].status, next>> \in DispatchMoves
          /\ next = "CLOSED" => LinkedTo(d) # {}
          /\ w = [op |-> "dispatch", on |-> d, to |-> next,
                  version |-> dispatch[d].version]

\* The rows that come to be and the writes.
PostalWrites ==
    \/ \E i \in Items : CreatePostalItem(i)
    \/ \E r \in Receptacles : CreateReceptacle(r)
    \/ \E d \in Dispatches : CreateDispatch(d)
    \/ \E c \in Clerks, e \in PostalEvents : Report(c, e)
    \/ \E c \in Clerks, r \in Receptacles, i \in Items : AddItem(c, r, i)
    \/ \E c \in Clerks, d \in Dispatches, r \in Receptacles : AddReceptacle(c, d, r)
    \/ \E c \in Clerks, r \in Receptacles, next \in {move[2] : move \in ReceptacleMoves} :
          MoveReceptacle(c, r, next)
    \/ \E c \in Clerks, d \in Dispatches, next \in {move[2] : move \in DispatchMoves} :
          MoveDispatch(c, d, next)

\* Every step is a reading, a write, or nothing (PostalNext).
LEMMA PostalSteps ==
    ASSUME [PostalNext]_postalVars
    PROVE  \/ \E c \in Clerks : \E w : ReadsAlone(c, w) /\ AsRead(c, w)
           \/ PostalWrites
           \/ UNCHANGED postalVars
<1> DEFINE Reading == \E c \in Clerks : \E w : ReadsAlone(c, w) /\ AsRead(c, w)
<1>1. ASSUME NEW c \in Clerks, NEW e \in PostalEvents, ReportRead(c, e)
      PROVE  Reading
  <2>1. ReadsAlone(c, [op |-> "event", on |-> e, to |-> None, version |-> 0])
    BY <1>1 DEF ReportRead, ClerkReads, ReadsAlone
  <2>2. AsRead(c, [op |-> "event", on |-> e, to |-> None, version |-> 0])
    BY <1>1 DEF ReportRead, AsRead
  <2> QED BY <2>1, <2>2
<1>2. ASSUME NEW c \in Clerks, NEW r \in Receptacles, NEW i \in Items, AddItemRead(c, r, i)
      PROVE  Reading
  <2>1. ReadsAlone(c, [op |-> "bag", on |-> r, to |-> i, version |-> 0])
    BY <1>2 DEF AddItemRead, ClerkReads, ReadsAlone
  <2>2. AsRead(c, [op |-> "bag", on |-> r, to |-> i, version |-> 0])
    BY <1>2 DEF AsRead
  <2> QED BY <2>1, <2>2
<1>3. ASSUME NEW c \in Clerks, NEW d \in Dispatches, NEW r \in Receptacles,
             AddReceptacleRead(c, d, r)
      PROVE  Reading
  <2>1. ReadsAlone(c, [op |-> "link", on |-> d, to |-> r, version |-> 0])
    BY <1>3 DEF AddReceptacleRead, ClerkReads, ReadsAlone
  <2>2. AsRead(c, [op |-> "link", on |-> d, to |-> r, version |-> 0])
    BY <1>3 DEF AsRead, AddReceptacleRead
  <2> QED BY <2>1, <2>2
<1>4. ASSUME NEW c \in Clerks, NEW r \in Receptacles,
             NEW next \in {move[2] : move \in ReceptacleMoves}, ReceptacleMoveRead(c, r, next)
      PROVE  Reading
  <2> DEFINE w == [op |-> "receptacle", on |-> r, to |-> next,
                   version |-> receptacle[r].version]
  <2>1. ReadsAlone(c, w)
    BY <1>4 DEF ReceptacleMoveRead, ClerkReads, ReadsAlone
  <2>2. AsRead(c, w)
    BY <1>4 DEF AsRead, ReceptacleMoveRead
  <2> QED BY <2>1, <2>2
<1>5. ASSUME NEW c \in Clerks, NEW d \in Dispatches,
             NEW next \in {move[2] : move \in DispatchMoves}, DispatchMoveRead(c, d, next)
      PROVE  Reading
  <2> DEFINE w == [op |-> "dispatch", on |-> d, to |-> next,
                   version |-> dispatch[d].version]
  <2>1. ReadsAlone(c, w)
    BY <1>5 DEF DispatchMoveRead, ClerkReads, ReadsAlone
  <2>2. AsRead(c, w)
    BY <1>5 DEF AsRead, DispatchMoveRead
  <2> QED BY <2>1, <2>2
<1> HIDE DEF Reading
<1>6. PostalNext => Reading \/ PostalWrites
  BY <1>1, <1>2, <1>3, <1>4, <1>5 DEF PostalNext, PostalWrites
<1> QED BY <1>6 DEF Reading

\* What the move of a dispatch does to the rows.
DispatchMoved(c, d, next) ==
    \/ UNCHANGED <<dispatch, receptacle>>
    \/ /\ Taken(dispatch[d], c)
       /\ dispatch'[d] = Row(next, dispatch[d].version + 1)
       /\ \A x \in Dispatches : x # d => dispatch'[x] = dispatch[x]
       /\ \A r \in Receptacles :
             receptacle'[r] = IF next = "HANDED_OVER" /\ <<d, r>> \in linked
                                THEN Row("DESPATCHED", receptacle[r].version + 1)
                                ELSE receptacle[r]

\* A moved dispatch takes the receptacles linked to it along when it is handed
\* over (transitionPostalDispatch).
LEMMA DispatchesMove ==
    ASSUME NEW c \in Clerks, NEW d \in Dispatches,
           NEW next \in {move[2] : move \in DispatchMoves}, PostalTyped, MoveDispatch(c, d, next)
    PROVE  DispatchMoved(c, d, next)
BY DEF DispatchMoved, MoveDispatch, PostalTyped, HandedOver, LinkedTo

\* The rows keep their types through every step (the transactions of
\* InternationalLogisticsRepository).
LEMMA PostalStaysTyped ==
    ASSUME PostalTyped, [PostalNext]_postalVars
    PROVE  PostalTyped'
<1>1. ASSUME NEW c \in Clerks, NEW w, ReadsAlone(c, w)
      PROVE  PostalTyped'
  BY <1>1 DEF ReadsAlone, PostalTyped
<1>2. ASSUME NEW i \in Items, CreatePostalItem(i)
      PROVE  PostalTyped'
  BY <1>2 DEF CreatePostalItem, PostalTyped, Row
<1>3. ASSUME NEW r \in Receptacles, CreateReceptacle(r)
      PROVE  PostalTyped'
  BY <1>3 DEF CreateReceptacle, PostalTyped, Row
<1>4. ASSUME NEW d \in Dispatches, CreateDispatch(d)
      PROVE  PostalTyped'
  BY <1>4 DEF CreateDispatch, PostalTyped, Row
<1>5. ASSUME NEW c \in Clerks, NEW e \in PostalEvents, Report(c, e)
      PROVE  PostalTyped'
  <2>1. EventItem[e] \in Items
    BY PostalAssumption
  <2> QED BY <1>5, <2>1 DEF Report, ClerkWrites, PostalTyped, Row
<1>6. ASSUME NEW c \in Clerks, NEW r \in Receptacles, NEW i \in Items, AddItem(c, r, i)
      PROVE  PostalTyped'
  BY <1>6 DEF AddItem, ClerkWrites, PostalTyped
<1>7. ASSUME NEW c \in Clerks, NEW d \in Dispatches, NEW r \in Receptacles,
             AddReceptacle(c, d, r)
      PROVE  PostalTyped'
  BY <1>7 DEF AddReceptacle, ClerkWrites, PostalTyped
<1>8. ASSUME NEW c \in Clerks, NEW r \in Receptacles,
             NEW next \in {move[2] : move \in ReceptacleMoves}, MoveReceptacle(c, r, next)
      PROVE  PostalTyped'
  BY <1>8 DEF MoveReceptacle, ClerkWrites, PostalTyped, Row
<1>9. ASSUME NEW c \in Clerks, NEW d \in Dispatches,
             NEW next \in {move[2] : move \in DispatchMoves}, MoveDispatch(c, d, next)
      PROVE  PostalTyped'
  <2>0. DispatchMoved(c, d, next)
    BY <1>9, DispatchesMove
  <2>1. DOMAIN receptacle' = Receptacles /\ DOMAIN dispatch' = Dispatches
    BY <1>9 DEF MoveDispatch, PostalTyped
  <2>2. \A x \in Dispatches : dispatch'[x].version \in Nat
    BY <2>0 DEF DispatchMoved, PostalTyped, Row
  <2>3. \A x \in Receptacles : receptacle'[x].version \in Nat
    <3> SUFFICES ASSUME NEW x \in Receptacles PROVE receptacle'[x].version \in Nat
      OBVIOUS
    <3>1. receptacle'[x] \in {receptacle[x], Row("DESPATCHED", receptacle[x].version + 1)}
      BY <2>0 DEF DispatchMoved
    <3>2. receptacle[x].version \in Nat
      BY DEF PostalTyped
    <3> QED BY <3>1, <3>2 DEF Row
  <2> QED BY <1>9, <2>1, <2>2, <2>3 DEF MoveDispatch, ClerkWrites, PostalTyped
<1>10. CASE UNCHANGED postalVars
  BY <1>10 DEF postalVars, PostalTyped
<1> QED BY PostalSteps, <1>1, <1>2, <1>3, <1>4, <1>5, <1>6, <1>7, <1>8, <1>9, <1>10
        DEF PostalWrites
-----------------------------------------------------------------------------
\* What a request has read, by what it goes on to do.
ReadEvent(w) == w.on \in PostalEvents /\ item[EventItem[w.on]] # NoRow
ReadLink(w) == w.to \in Receptacles /\ receptacle[w.to].status = "CLOSED"
ReadReceptacle(w) ==
    /\ w.on \in Receptacles /\ <<receptacle[w.on].status, w.to>> \in ReceptacleMoves
    /\ w.to = "CLOSED" => Closable(w.on)
    /\ w.version = receptacle[w.on].version
ReadDispatch(w) ==
    /\ w.on \in Dispatches /\ <<dispatch[w.on].status, w.to>> \in DispatchMoves
    /\ w.to = "CLOSED" => LinkedTo(w.on) # {}
    /\ w.version = dispatch[w.on].version

\* The checks before the writes (createPostalEvent, addPostalReceptacle,
\* transitionReceptacle, transitionPostalDispatch).
LEMMA WhatIsRead ==
    ASSUME NEW c, NEW w, AsRead(c, w)
    PROVE  /\ w.op = "event" => ReadEvent(w)
           /\ w.op = "link" => ReadLink(w)
           /\ w.op = "receptacle" => ReadReceptacle(w)
           /\ w.op = "dispatch" => ReadDispatch(w)
<1> DEFINE Shown == /\ w.op = "event" => ReadEvent(w)
                    /\ w.op = "link" => ReadLink(w)
                    /\ w.op = "receptacle" => ReadReceptacle(w)
                    /\ w.op = "dispatch" => ReadDispatch(w)
<1>1. ASSUME NEW e \in PostalEvents, item[EventItem[e]] # NoRow,
             w = [op |-> "event", on |-> e, to |-> None, version |-> 0]
      PROVE  Shown
  <2>1. w.op = "event" /\ w.on = e
    BY <1>1
  <2> QED BY <1>1, <2>1 DEF ReadEvent
<1>2. ASSUME NEW r \in Receptacles, NEW i \in Items,
             w = [op |-> "bag", on |-> r, to |-> i, version |-> 0]
      PROVE  Shown
  BY <1>2
<1>3. ASSUME NEW d \in Dispatches, NEW r \in Receptacles, receptacle[r].status = "CLOSED",
             w = [op |-> "link", on |-> d, to |-> r, version |-> 0]
      PROVE  Shown
  <2>1. w.op = "link" /\ w.to = r
    BY <1>3
  <2> QED BY <1>3, <2>1 DEF ReadLink
<1>4. ASSUME NEW r \in Receptacles, NEW next \in {move[2] : move \in ReceptacleMoves},
             <<receptacle[r].status, next>> \in ReceptacleMoves, next = "CLOSED" => Closable(r),
             w = [op |-> "receptacle", on |-> r, to |-> next,
                  version |-> receptacle[r].version]
      PROVE  Shown
  <2>1. w.op = "receptacle" /\ w.on = r /\ w.to = next /\ w.version = receptacle[r].version
    BY <1>4
  <2> QED BY <1>4, <2>1 DEF ReadReceptacle
<1>5. ASSUME NEW d \in Dispatches, NEW next \in {move[2] : move \in DispatchMoves},
             <<dispatch[d].status, next>> \in DispatchMoves, next = "CLOSED" => LinkedTo(d) # {},
             w = [op |-> "dispatch", on |-> d, to |-> next, version |-> dispatch[d].version]
      PROVE  Shown
  <2>1. w.op = "dispatch" /\ w.on = d /\ w.to = next /\ w.version = dispatch[d].version
    BY <1>5
  <2> QED BY <1>5, <2>1 DEF ReadDispatch
<1> HIDE DEF Shown
<1>6. Shown
  BY <1>1, <1>2, <1>3, <1>4, <1>5 DEF AsRead
<1> QED BY <1>6 DEF Shown

KeysOfItem(i, rows) == {PostalKey[e] : e \in {p \in rows : EventItem[p] = i}}

ReportsInv ==
    /\ known \subseteq PostalEvents
    /\ \A i \in Items :
          /\ IsFiniteSet(KeysOfItem(i, known))
          /\ item[i] = NoRow => KeysOfItem(i, known) = {}
          /\ item[i] # NoRow => item[i].version = 1 + Cardinality(KeysOfItem(i, known))
    /\ \A c \in Clerks :
          clerk[c].op = "event" =>
             clerk[c].on \in PostalEvents /\ item[EventItem[clerk[c].on]] # NoRow

\* A clerk who turns to nothing, or goes on, leaves the events of items as they are.
LEMMA EventsOfClerks ==
    ASSUME ReportsInv, PostalTyped, UNCHANGED <<item, known>>,
           \A c \in Clerks :
              clerk'[c].op = "event" =>
                 \/ clerk'[c] = clerk[c]
                 \/ clerk'[c].on \in PostalEvents /\ item[EventItem[clerk'[c].on]] # NoRow
    PROVE  ReportsInv'
BY DEF ReportsInv

\* A report adds its key to those of its item once (recordPostalEvent).
LEMMA ReportCounts ==
    ASSUME NEW c \in Clerks, NEW e \in PostalEvents, ReportsInv, PostalTyped, Report(c, e)
    PROVE  ReportsInv'
<1>1. clerk[c].op = "event" /\ clerk[c].on = e
      /\ clerk' = [clerk EXCEPT ![c] = ClerkIdle]
  BY DEF Report, ClerkWrites
<1>2. \A b \in Clerks : clerk'[b].op = "event" => clerk'[b] = clerk[b]
  BY <1>1 DEF PostalTyped, ClerkIdle
<1>3. CASE ~Unknown(e)
  BY <1>2, <1>3, EventsOfClerks DEF Report
<1>4. CASE Unknown(e)
  <2> DEFINE mine == EventItem[e]
             itsKey == PostalKey[e]
             before == KeysOfItem(mine, known)
             was == item[mine]
  <2>1. mine \in Items /\ was # NoRow
    BY <1>1, PostalAssumption DEF ReportsInv
  <2>2. known' = known \cup {e}
        /\ item' = [item EXCEPT ![mine] = Row(EventCode[e], was.version + 1)]
    BY <1>4 DEF Report
  <2>3. itsKey \notin before
    BY <1>4 DEF Unknown, KnownIn, KeysOfItem
  <2>4. KeysOfItem(mine, known') = before \cup {itsKey}
    BY <2>2 DEF KeysOfItem
  <2>5. \A i \in Items : i # mine =>
           KeysOfItem(i, known') = KeysOfItem(i, known) /\ item'[i] = item[i]
    BY <2>2 DEF KeysOfItem, PostalTyped
  <2>6. IsFiniteSet(before) /\ was.version = 1 + Cardinality(before) /\ was.version \in Nat
    BY <2>1 DEF ReportsInv, PostalTyped
  <2>7. item'[mine] = Row(EventCode[e], was.version + 1)
    BY <2>1, <2>2 DEF PostalTyped
  <2>8. known' \subseteq PostalEvents
    BY <2>2 DEF ReportsInv
  <2> HIDE DEF mine, itsKey, before, was
  <2>9. IsFiniteSet(before \cup {itsKey})
        /\ Cardinality(before \cup {itsKey}) = Cardinality(before) + 1
    BY <2>3, <2>6, FS_AddElement
  <2>10. Cardinality(before) \in Nat
    BY <2>6, FS_CardinalityType
  <2>11. item'[mine].version = was.version + 1 /\ item'[mine] # NoRow
    BY <2>6, <2>7 DEF Row, NoRow
  <2>12. item'[mine].version = 1 + Cardinality(KeysOfItem(mine, known'))
    <3> DEFINE n == Cardinality(before)
               m == Cardinality(before \cup {itsKey})
    <3>1. n \in Nat /\ m = n + 1 /\ was.version = 1 + n
      BY <2>6, <2>9, <2>10
    <3>2. m = Cardinality(KeysOfItem(mine, known'))
      BY <2>4
    <3> HIDE DEF n, m
    <3> QED BY <2>11, <3>1, <3>2
  <2>13. \A i \in Items :
            /\ IsFiniteSet(KeysOfItem(i, known'))
            /\ item'[i] = NoRow => KeysOfItem(i, known') = {}
            /\ item'[i] # NoRow =>
                  item'[i].version = 1 + Cardinality(KeysOfItem(i, known'))
    <3> SUFFICES ASSUME NEW i \in Items
                 PROVE  /\ IsFiniteSet(KeysOfItem(i, known'))
                        /\ item'[i] = NoRow => KeysOfItem(i, known') = {}
                        /\ item'[i] # NoRow =>
                              item'[i].version = 1 + Cardinality(KeysOfItem(i, known'))
      OBVIOUS
    <3>1. CASE i = mine
      BY <2>4, <2>9, <2>11, <2>12, <3>1
    <3>2. CASE i # mine
      BY <2>5, <3>2 DEF ReportsInv
    <3> QED BY <3>1, <3>2
  <2>14. \A b \in Clerks :
            clerk'[b].op = "event" =>
               clerk'[b].on \in PostalEvents /\ item'[EventItem[clerk'[b].on]] # NoRow
    <3> SUFFICES ASSUME NEW b \in Clerks, clerk'[b].op = "event"
                 PROVE  /\ clerk'[b].on \in PostalEvents
                        /\ item'[EventItem[clerk'[b].on]] # NoRow
      OBVIOUS
    <3> DEFINE x == clerk[b].on
    <3>1. clerk'[b].on = x /\ x \in PostalEvents /\ item[EventItem[x]] # NoRow
      BY <1>2 DEF ReportsInv
    <3>2. EventItem[x] \in Items
      BY <3>1, PostalAssumption
    <3> HIDE DEF x
    <3>3. item'[EventItem[x]] # NoRow
      BY <2>5, <2>11, <3>1, <3>2
    <3> QED BY <3>1, <3>3
  <2>15. \A i : KeysOfItem(i, known)' = KeysOfItem(i, known')
    BY DEF KeysOfItem
  <2> QED BY <2>8, <2>13, <2>14, <2>15 DEF ReportsInv, NoRow, Row
<1> QED BY <1>3, <1>4

\* A created item has no events yet (createPostalItem).
LEMMA NewItemCounts ==
    ASSUME NEW i \in Items, ReportsInv, PostalTyped, CreatePostalItem(i)
    PROVE  ReportsInv'
<1>1. item[i] = NoRow /\ UNCHANGED <<known, clerk>>
      /\ item' = [item EXCEPT ![i] = Row("ACCEPTED", 1)]
  BY DEF CreatePostalItem
<1>2. KeysOfItem(i, known) = {}
  BY <1>1 DEF ReportsInv
<1>3. item'[i] = Row("ACCEPTED", 1) /\ \A x \in Items : x # i => item'[x] = item[x]
  BY <1>1 DEF PostalTyped
<1>4. Row("ACCEPTED", 1) # NoRow /\ Row("ACCEPTED", 1).version = 1
  BY DEF Row, NoRow
<1>5. 1 = 1 + Cardinality(KeysOfItem(i, known))
  BY <1>2, FS_EmptySet
<1>6. \A x \in Items :
         /\ IsFiniteSet(KeysOfItem(x, known))
         /\ item'[x] = NoRow => KeysOfItem(x, known) = {}
         /\ item'[x] # NoRow => item'[x].version = 1 + Cardinality(KeysOfItem(x, known))
  BY <1>3, <1>4, <1>5 DEF ReportsInv
<1>7. \A c \in Clerks :
         clerk'[c].op = "event" =>
            clerk'[c].on \in PostalEvents /\ item'[EventItem[clerk'[c].on]] # NoRow
  <2> SUFFICES ASSUME NEW c \in Clerks, clerk[c].op = "event"
               PROVE  /\ clerk[c].on \in PostalEvents
                      /\ item'[EventItem[clerk[c].on]] # NoRow
    BY <1>1
  <2> DEFINE x == EventItem[clerk[c].on]
  <2>1. clerk[c].on \in PostalEvents /\ item[x] # NoRow
    BY DEF ReportsInv
  <2>2. x \in Items
    BY <2>1, PostalAssumption
  <2> HIDE DEF x
  <2>3. item'[x] # NoRow
    BY <1>3, <1>4, <2>1, <2>2
  <2> QED BY <2>1, <2>3 DEF x
<1>8. known' = known /\ known \subseteq PostalEvents
  BY <1>1 DEF ReportsInv
<1> QED BY <1>6, <1>7, <1>8 DEF ReportsInv, NoRow, Row

\* However often an event is reported under one key it moved its item once
\* (recordPostalEvent and the unique key).
THEOREM ReportsOnce == PostalSpec => []ReportedOnce
<1>1. PostalInit => PostalTyped
  BY DEF PostalInit, PostalTyped, NoRow, Row
<1>2. PostalInit => ReportsInv
  <2> SUFFICES ASSUME PostalInit PROVE ReportsInv
    OBVIOUS
  <2>1. \A i \in Items : KeysOfItem(i, known) = {}
    BY DEF PostalInit, KeysOfItem
  <2>2. IsFiniteSet({})
    BY FS_EmptySet
  <2>3. \A c \in Clerks : clerk[c].op # "event"
    BY DEF PostalInit, ClerkIdle
  <2>4. known = {} /\ \A i \in Items : item[i] = NoRow
    BY DEF PostalInit
  <2> QED BY <2>1, <2>2, <2>3, <2>4 DEF ReportsInv
<1>3. PostalTyped /\ [PostalNext]_postalVars => PostalTyped'
  BY PostalStaysTyped
<1>4. PostalTyped /\ ReportsInv /\ [PostalNext]_postalVars => ReportsInv'
  <2> SUFFICES ASSUME PostalTyped, ReportsInv, [PostalNext]_postalVars PROVE ReportsInv'
    OBVIOUS
  <2>1. ASSUME NEW c \in Clerks, NEW w, ReadsAlone(c, w), AsRead(c, w)
        PROVE  ReportsInv'
    <3>1. UNCHANGED <<item, known>> /\ clerk' = [clerk EXCEPT ![c] = w]
      BY <2>1 DEF ReadsAlone
    <3>2. w.op = "event" => w.on \in PostalEvents /\ item[EventItem[w.on]] # NoRow
      BY <2>1, WhatIsRead DEF ReadEvent
    <3>3. \A b \in Clerks : clerk'[b] = clerk[b] \/ clerk'[b] = w
      BY <3>1 DEF PostalTyped
    <3> QED BY <3>1, <3>2, <3>3, EventsOfClerks
  <2>2. ASSUME UNCHANGED <<item, known>>,
               \A b \in Clerks : clerk'[b] = clerk[b] \/ clerk'[b] = ClerkIdle
        PROVE  ReportsInv'
    BY <2>2, EventsOfClerks DEF ClerkIdle
  <2>3. \A c \in Clerks : \A op, x, to : ClerkWrites(c, op, x, to) =>
           \A b \in Clerks : clerk'[b] = clerk[b] \/ clerk'[b] = ClerkIdle
    BY DEF ClerkWrites, PostalTyped
  <2>4. ASSUME NEW r \in Receptacles, CreateReceptacle(r)
        PROVE  ReportsInv'
    BY <2>2, <2>4 DEF CreateReceptacle
  <2>5. ASSUME NEW d \in Dispatches, CreateDispatch(d)
        PROVE  ReportsInv'
    BY <2>2, <2>5 DEF CreateDispatch
  <2>6. ASSUME NEW c \in Clerks, NEW r \in Receptacles, NEW i \in Items, AddItem(c, r, i)
        PROVE  ReportsInv'
    BY <2>2, <2>3, <2>6 DEF AddItem
  <2>7. ASSUME NEW c \in Clerks, NEW d \in Dispatches, NEW r \in Receptacles,
               AddReceptacle(c, d, r)
        PROVE  ReportsInv'
    BY <2>2, <2>3, <2>7 DEF AddReceptacle
  <2>8. ASSUME NEW c \in Clerks, NEW r \in Receptacles,
               NEW next \in {move[2] : move \in ReceptacleMoves}, MoveReceptacle(c, r, next)
        PROVE  ReportsInv'
    BY <2>2, <2>3, <2>8 DEF MoveReceptacle
  <2>9. ASSUME NEW c \in Clerks, NEW d \in Dispatches,
               NEW next \in {move[2] : move \in DispatchMoves}, MoveDispatch(c, d, next)
        PROVE  ReportsInv'
    BY <2>2, <2>3, <2>9 DEF MoveDispatch
  <2>10. CASE UNCHANGED postalVars
    BY <2>2, <2>10 DEF postalVars
  <2> QED BY PostalSteps, ReportCounts, NewItemCounts, <2>1, <2>4, <2>5, <2>6, <2>7, <2>8,
             <2>9, <2>10 DEF PostalWrites
<1>5. ReportsInv => ReportedOnce
  BY DEF ReportsInv, ReportedOnce, KeysOfItem
<1> QED BY <1>1, <1>2, <1>3, <1>4, <1>5, PTL DEF PostalSpec
-----------------------------------------------------------------------------
HasItems(r, bags) == \E i \in Items : <<r, i>> \in bags
HasBags(d, links) == \E r \in Receptacles : <<d, r>> \in links

\* What was closed has something in it, and so has what a request is going to close.
WorkFilled(w, bags, links) ==
    /\ w.op = "receptacle" => w.to = "OPEN" \/ HasItems(w.on, bags)
    /\ w.op = "link" => HasItems(w.to, bags)
    /\ w.op = "dispatch" => w.to \in {"OPEN", "CANCELLED"} \/ HasBags(w.on, links)

FilledInv ==
    /\ \A r \in Receptacles : receptacle[r].status \in {"NONE", "OPEN"} \/ HasItems(r, bagged)
    /\ \A d \in Dispatches, r \in Receptacles : <<d, r>> \in linked => HasItems(r, bagged)
    /\ \A d \in Dispatches :
          dispatch[d].status \in {"NONE", "OPEN", "CANCELLED"} \/ HasBags(d, linked)
    /\ \A c \in Clerks : WorkFilled(clerk[c], bagged, linked)

\* A receptacle that is not open, and a dispatch that is not, stay filled: what a
\* request reads is (transitionReceptacle, transitionPostalDispatch).
LEMMA ReadIsFilled ==
    ASSUME FilledInv, NEW c, NEW w, AsRead(c, w)
    PROVE  WorkFilled(w, bagged, linked)
<1>1. w.op = "receptacle" => w.to = "OPEN" \/ HasItems(w.on, bagged)
  <2> SUFFICES ASSUME w.op = "receptacle", w.to # "OPEN" PROVE HasItems(w.on, bagged)
    OBVIOUS
  <2>1. ReadReceptacle(w)
    BY WhatIsRead
  <2> DEFINE r == w.on
             s == receptacle[r].status
  <2>2. r \in Receptacles /\ <<s, w.to>> \in ReceptacleMoves
        /\ (w.to = "CLOSED" => \E i \in Items : <<r, i>> \in bagged)
        /\ (s \in {"NONE", "OPEN"} \/ HasItems(r, bagged))
    BY <2>1 DEF ReadReceptacle, Closable, FilledInv
  <2> HIDE DEF r, s
  <2>3. w.to = "CLOSED" \/ s \notin {"NONE", "OPEN"}
    BY <2>2 DEF ReceptacleMoves
  <2>4. HasItems(r, bagged)
    BY <2>2, <2>3 DEF HasItems
  <2> QED BY <2>4 DEF r
<1>2. w.op = "link" => HasItems(w.to, bagged)
  <2> SUFFICES ASSUME w.op = "link" PROVE HasItems(w.to, bagged)
    OBVIOUS
  <2>1. ReadLink(w)
    BY WhatIsRead
  <2> QED BY <2>1 DEF ReadLink, FilledInv
<1>3. w.op = "dispatch" => w.to \in {"OPEN", "CANCELLED"} \/ HasBags(w.on, linked)
  <2> SUFFICES ASSUME w.op = "dispatch", w.to \notin {"OPEN", "CANCELLED"}
               PROVE  HasBags(w.on, linked)
    OBVIOUS
  <2>1. ReadDispatch(w)
    BY WhatIsRead
  <2> DEFINE d == w.on
             s == dispatch[d].status
  <2>2. d \in Dispatches /\ <<s, w.to>> \in DispatchMoves
        /\ (w.to = "CLOSED" => LinkedTo(d) # {})
        /\ (s \in {"NONE", "OPEN", "CANCELLED"} \/ HasBags(d, linked))
    BY <2>1 DEF ReadDispatch, FilledInv
  <2>3. LinkedTo(d) # {} => HasBags(d, linked)
    BY DEF LinkedTo, HasBags
  <2> HIDE DEF d, s
  <2>4. w.to = "CLOSED" \/ s \notin {"NONE", "OPEN", "CANCELLED"}
    BY <2>2 DEF DispatchMoves
  <2>5. HasBags(d, linked)
    BY <2>2, <2>3, <2>4
  <2> QED BY <2>5 DEF d
<1> QED BY <1>1, <1>2, <1>3 DEF WorkFilled

\* What is filled stays filled: rows of contents and links are never removed.
LEMMA StaysFilled ==
    ASSUME FilledInv, bagged \subseteq bagged', linked \subseteq linked',
           \A r \in Receptacles :
              \/ receptacle'[r].status = receptacle[r].status
              \/ receptacle'[r].status = "OPEN" \/ HasItems(r, bagged),
           \A d \in Dispatches, r \in Receptacles :
              <<d, r>> \in linked' => <<d, r>> \in linked \/ HasItems(r, bagged),
           \A d \in Dispatches :
              \/ dispatch'[d].status = dispatch[d].status
              \/ dispatch'[d].status \in {"OPEN", "CANCELLED"} \/ HasBags(d, linked),
           \A c \in Clerks :
              \/ clerk'[c] = clerk[c] \/ clerk'[c] = ClerkIdle
              \/ WorkFilled(clerk'[c], bagged, linked)
    PROVE  FilledInv'
<1>1. \A r : HasItems(r, bagged) => HasItems(r, bagged')
  BY DEF HasItems
<1>2. \A d : HasBags(d, linked) => HasBags(d, linked')
  BY DEF HasBags
<1>3. \A w : WorkFilled(w, bagged, linked) => WorkFilled(w, bagged', linked')
  BY <1>1, <1>2 DEF WorkFilled
<1>4. WorkFilled(ClerkIdle, bagged, linked)
  BY DEF WorkFilled, ClerkIdle
<1>5. \A c \in Clerks : WorkFilled(clerk'[c], bagged', linked')
  BY <1>3, <1>4 DEF FilledInv
<1>6. \A r \in Receptacles :
         receptacle'[r].status \in {"NONE", "OPEN"} \/ HasItems(r, bagged')
  BY <1>1 DEF FilledInv
<1>7. \A d \in Dispatches, r \in Receptacles : <<d, r>> \in linked' => HasItems(r, bagged')
  BY <1>1 DEF FilledInv
<1>8. \A d \in Dispatches :
         dispatch'[d].status \in {"NONE", "OPEN", "CANCELLED"} \/ HasBags(d, linked')
  BY <1>2 DEF FilledInv
<1> QED BY <1>5, <1>6, <1>7, <1>8 DEF FilledInv, HasItems, HasBags, WorkFilled

\* Every step keeps what is filled (InternationalLogisticsRepository).
LEMMA FilledKept ==
    ASSUME PostalTyped, FilledInv, [PostalNext]_postalVars
    PROVE  FilledInv'
<1>0. \A c \in Clerks : \A op, x, to : ClerkWrites(c, op, x, to) =>
         \A b \in Clerks : clerk'[b] = clerk[b] \/ clerk'[b] = ClerkIdle
  BY DEF ClerkWrites, PostalTyped
<1>1. ASSUME NEW c \in Clerks, NEW w, ReadsAlone(c, w), AsRead(c, w)
      PROVE  FilledInv'
  <2>1. WorkFilled(w, bagged, linked)
    BY <1>1, ReadIsFilled
  <2>2. UNCHANGED <<receptacle, dispatch, bagged, linked>>
        /\ \A b \in Clerks : clerk'[b] = clerk[b] \/ clerk'[b] = w
    BY <1>1 DEF ReadsAlone, PostalTyped
  <2> QED BY <2>1, <2>2, StaysFilled
<1>2. ASSUME NEW i \in Items, CreatePostalItem(i)
      PROVE  FilledInv'
  BY <1>2, StaysFilled DEF CreatePostalItem
<1>3. ASSUME NEW r \in Receptacles, CreateReceptacle(r)
      PROVE  FilledInv'
  <2>1. \A x \in Receptacles : receptacle'[x].status \in {receptacle[x].status, "OPEN"}
    BY <1>3 DEF CreateReceptacle, PostalTyped, Row
  <2> QED BY <1>3, <2>1, StaysFilled DEF CreateReceptacle
<1>4. ASSUME NEW d \in Dispatches, CreateDispatch(d)
      PROVE  FilledInv'
  <2>1. \A x \in Dispatches : dispatch'[x].status \in {dispatch[x].status, "OPEN"}
    BY <1>4 DEF CreateDispatch, PostalTyped, Row
  <2> QED BY <1>4, <2>1, StaysFilled DEF CreateDispatch
<1>5. ASSUME NEW c \in Clerks, NEW e \in PostalEvents, Report(c, e)
      PROVE  FilledInv'
  BY <1>0, <1>5, StaysFilled DEF Report
<1>6. ASSUME NEW c \in Clerks, NEW r \in Receptacles, NEW i \in Items, AddItem(c, r, i)
      PROVE  FilledInv'
  BY <1>0, <1>6, StaysFilled DEF AddItem
<1>7. ASSUME NEW c \in Clerks, NEW d \in Dispatches, NEW r \in Receptacles,
             AddReceptacle(c, d, r)
      PROVE  FilledInv'
  <2>1. HasItems(r, bagged)
    BY <1>7 DEF AddReceptacle, ClerkWrites, FilledInv, WorkFilled
  <2>2. \A b \in Clerks : clerk'[b] = clerk[b] \/ clerk'[b] = ClerkIdle
    BY <1>0, <1>7 DEF AddReceptacle
  <2>3. UNCHANGED <<receptacle, bagged, dispatch>> /\ linked' = linked \cup {<<d, r>>}
    BY <1>7 DEF AddReceptacle
  <2> QED BY <2>1, <2>2, <2>3, StaysFilled
<1>8. ASSUME NEW c \in Clerks, NEW r \in Receptacles,
             NEW next \in {move[2] : move \in ReceptacleMoves}, MoveReceptacle(c, r, next)
      PROVE  FilledInv'
  <2>1. next = "OPEN" \/ HasItems(r, bagged)
    BY <1>8 DEF MoveReceptacle, ClerkWrites, FilledInv, WorkFilled
  <2>2. \A b \in Clerks : clerk'[b] = clerk[b] \/ clerk'[b] = ClerkIdle
    BY <1>0, <1>8 DEF MoveReceptacle
  <2>3. UNCHANGED <<linked, bagged, dispatch>>
    BY <1>8 DEF MoveReceptacle
  <2>4. \A x \in Receptacles :
           receptacle'[x].status = receptacle[x].status
           \/ (x = r /\ receptacle'[x].status = next)
    BY <1>8 DEF MoveReceptacle, PostalTyped, Row
  <2> QED BY <2>1, <2>2, <2>3, <2>4, StaysFilled
<1>9. ASSUME NEW c \in Clerks, NEW d \in Dispatches,
             NEW next \in {move[2] : move \in DispatchMoves}, MoveDispatch(c, d, next)
      PROVE  FilledInv'
  <2>1. next \in {"OPEN", "CANCELLED"} \/ HasBags(d, linked)
    BY <1>9 DEF MoveDispatch, ClerkWrites, FilledInv, WorkFilled
  <2>2. \A b \in Clerks : clerk'[b] = clerk[b] \/ clerk'[b] = ClerkIdle
    BY <1>0, <1>9 DEF MoveDispatch
  <2>3. UNCHANGED <<linked, bagged>>
    BY <1>9 DEF MoveDispatch
  <2>4. DispatchMoved(c, d, next)
    BY <1>9, DispatchesMove
  <2>5. \A x \in Dispatches :
           dispatch'[x].status = dispatch[x].status
           \/ (x = d /\ dispatch'[x].status = next)
    BY <2>4 DEF DispatchMoved, Row
  <2>6. \A x \in Receptacles :
           receptacle'[x].status = receptacle[x].status \/ <<d, x>> \in linked
    BY <2>4 DEF DispatchMoved
  <2>7. \A x \in Receptacles : <<d, x>> \in linked => HasItems(x, bagged)
    BY DEF FilledInv
  <2> QED BY <2>1, <2>2, <2>3, <2>5, <2>6, <2>7, StaysFilled
<1>10. CASE UNCHANGED postalVars
  BY <1>10, StaysFilled DEF postalVars
<1> QED BY PostalSteps, <1>1, <1>2, <1>3, <1>4, <1>5, <1>6, <1>7, <1>8, <1>9, <1>10
        DEF PostalWrites

\* No dispatch leaves without a receptacle that was closed with an item in it
\* (addPostalItem, addPostalReceptacle, transitionPostalDispatch).
THEOREM DispatchesFilled == PostalSpec => []NoEmptyDispatch
<1>1. PostalInit => PostalTyped /\ FilledInv
  BY DEF PostalInit, PostalTyped, FilledInv, WorkFilled, ClerkIdle, NoRow, Row
<1>2. PostalTyped /\ FilledInv /\ [PostalNext]_postalVars => (PostalTyped /\ FilledInv)'
  BY PostalStaysTyped, FilledKept
<1>3. FilledInv => NoEmptyDispatch
  <2> SUFFICES ASSUME FilledInv, NEW d \in Dispatches,
                      dispatch[d].status \notin {"NONE", "OPEN", "CANCELLED"}
               PROVE  \E r \in Receptacles, i \in Items : <<d, r>> \in linked /\ <<r, i>> \in bagged
    BY DEF NoEmptyDispatch
  <2>1. PICK r \in Receptacles : <<d, r>> \in linked
    BY DEF FilledInv, HasBags
  <2> QED BY <2>1 DEF FilledInv, HasItems
<1> QED BY <1>1, <1>2, <1>3, PTL DEF PostalSpec
-----------------------------------------------------------------------------
\* What a request read is what the row still says, or the row has moved on.
Current(row, w, moves) ==
    /\ w.version \in Nat /\ w.version <= row.version
    /\ w.version = row.version => <<row.status, w.to>> \in moves

WorkCurrent(w, recs, disps) ==
    /\ w.op = "receptacle" => w.on \in Receptacles /\ Current(recs[w.on], w, ReceptacleMoves)
    /\ w.op = "dispatch" => w.on \in Dispatches /\ Current(disps[w.on], w, DispatchMoves)

MovesInv == \A c \in Clerks : WorkCurrent(clerk[c], receptacle, dispatch)

\* A row that changes gets a new version.
MovesOn(row, next) == next = row \/ next.version > row.version

\* A request that has read keeps what is current of it while versions grow.
LEMMA StaysCurrent ==
    ASSUME PostalTyped, PostalTyped', MovesInv,
           \A r \in Receptacles : MovesOn(receptacle[r], receptacle'[r]),
           \A d \in Dispatches : MovesOn(dispatch[d], dispatch'[d]),
           \A c \in Clerks : clerk'[c] \in {clerk[c], ClerkIdle}
    PROVE  MovesInv'
<1>1. ASSUME NEW row, NEW next, NEW w, NEW moves, row.version \in Nat, next.version \in Nat,
             MovesOn(row, next), Current(row, w, moves)
      PROVE  Current(next, w, moves)
  BY <1>1 DEF MovesOn, Current
<1>2. WorkCurrent(ClerkIdle, receptacle', dispatch')
  BY DEF WorkCurrent, ClerkIdle
<1>3. ASSUME NEW w, WorkCurrent(w, receptacle, dispatch)
      PROVE  WorkCurrent(w, receptacle', dispatch')
  <2>1. ASSUME w.op = "receptacle"
        PROVE  w.on \in Receptacles /\ Current(receptacle'[w.on], w, ReceptacleMoves)
    <3>1. w.on \in Receptacles /\ Current(receptacle[w.on], w, ReceptacleMoves)
      BY <1>3, <2>1 DEF WorkCurrent
    <3>2. /\ receptacle[w.on].version \in Nat /\ receptacle'[w.on].version \in Nat
          /\ MovesOn(receptacle[w.on], receptacle'[w.on])
      BY <3>1 DEF PostalTyped
    <3> QED BY <1>1, <3>1, <3>2
  <2>2. ASSUME w.op = "dispatch"
        PROVE  w.on \in Dispatches /\ Current(dispatch'[w.on], w, DispatchMoves)
    <3>1. w.on \in Dispatches /\ Current(dispatch[w.on], w, DispatchMoves)
      BY <1>3, <2>2 DEF WorkCurrent
    <3>2. /\ dispatch[w.on].version \in Nat /\ dispatch'[w.on].version \in Nat
          /\ MovesOn(dispatch[w.on], dispatch'[w.on])
      BY <3>1 DEF PostalTyped
    <3> QED BY <1>1, <3>1, <3>2
  <2> QED BY <2>1, <2>2 DEF WorkCurrent
<1>4. \A c \in Clerks : WorkCurrent(clerk'[c], receptacle', dispatch')
  BY <1>2, <1>3 DEF MovesInv
<1> QED BY <1>4 DEF MovesInv, WorkCurrent, Current

\* What is read is current.
LEMMA ReadIsCurrent ==
    ASSUME PostalTyped, NEW c, NEW w, AsRead(c, w)
    PROVE  WorkCurrent(w, receptacle, dispatch)
<1>1. ASSUME w.op = "receptacle"
      PROVE  w.on \in Receptacles /\ Current(receptacle[w.on], w, ReceptacleMoves)
  <2>1. ReadReceptacle(w)
    BY <1>1, WhatIsRead
  <2> QED BY <2>1 DEF ReadReceptacle, Current, PostalTyped
<1>2. ASSUME w.op = "dispatch"
      PROVE  w.on \in Dispatches /\ Current(dispatch[w.on], w, DispatchMoves)
  <2>1. ReadDispatch(w)
    BY <1>2, WhatIsRead
  <2> QED BY <2>1 DEF ReadDispatch, Current, PostalTyped
<1> QED BY <1>1, <1>2 DEF WorkCurrent

\* Every step keeps current what the requests go on to compare.
LEMMA MovesKept ==
    ASSUME PostalTyped, MovesInv, [PostalNext]_postalVars
    PROVE  MovesInv'
<1>0. \A c \in Clerks : \A op, x, to : ClerkWrites(c, op, x, to) =>
         \A b \in Clerks : clerk'[b] \in {clerk[b], ClerkIdle}
  BY DEF ClerkWrites, PostalTyped
<1>t. PostalTyped'
  BY PostalStaysTyped
<1>s. ASSUME UNCHANGED <<receptacle, dispatch>>,
             \A b \in Clerks : clerk'[b] \in {clerk[b], ClerkIdle}
      PROVE  MovesInv'
  BY <1>t, <1>s, StaysCurrent DEF MovesOn
<1>1. ASSUME NEW c \in Clerks, NEW w, ReadsAlone(c, w), AsRead(c, w)
      PROVE  MovesInv'
  <2>1. WorkCurrent(w, receptacle, dispatch)
    BY <1>1, ReadIsCurrent
  <2>2. receptacle' = receptacle /\ dispatch' = dispatch
        /\ \A b \in Clerks : clerk'[b] = clerk[b] \/ clerk'[b] = w
    BY <1>1 DEF ReadsAlone, PostalTyped
  <2>3. \A b \in Clerks : WorkCurrent(clerk'[b], receptacle, dispatch)
    BY <2>1, <2>2 DEF MovesInv
  <2> QED BY <2>2, <2>3 DEF MovesInv, WorkCurrent, Current
<1>2. ASSUME NEW i \in Items, CreatePostalItem(i)
      PROVE  MovesInv'
  BY <1>s, <1>2 DEF CreatePostalItem
<1>3. ASSUME NEW r \in Receptacles, CreateReceptacle(r)
      PROVE  MovesInv'
  <2>1. \A x \in Receptacles : MovesOn(receptacle[x], receptacle'[x])
    BY <1>3 DEF CreateReceptacle, PostalTyped, Row, NoRow, MovesOn
  <2>2. \A d \in Dispatches : MovesOn(dispatch[d], dispatch'[d])
    BY <1>3 DEF CreateReceptacle, MovesOn
  <2>3. \A b \in Clerks : clerk'[b] \in {clerk[b], ClerkIdle}
    BY <1>3 DEF CreateReceptacle
  <2> QED BY <1>t, <2>1, <2>2, <2>3, StaysCurrent
<1>4. ASSUME NEW d \in Dispatches, CreateDispatch(d)
      PROVE  MovesInv'
  <2>1. \A x \in Dispatches : MovesOn(dispatch[x], dispatch'[x])
    BY <1>4 DEF CreateDispatch, PostalTyped, Row, NoRow, MovesOn
  <2>2. \A r \in Receptacles : MovesOn(receptacle[r], receptacle'[r])
    BY <1>4 DEF CreateDispatch, MovesOn
  <2>3. \A b \in Clerks : clerk'[b] \in {clerk[b], ClerkIdle}
    BY <1>4 DEF CreateDispatch
  <2> QED BY <1>t, <2>1, <2>2, <2>3, StaysCurrent
<1>5. ASSUME NEW c \in Clerks, NEW e \in PostalEvents, Report(c, e)
      PROVE  MovesInv'
  BY <1>0, <1>s, <1>5 DEF Report
<1>6. ASSUME NEW c \in Clerks, NEW r \in Receptacles, NEW i \in Items, AddItem(c, r, i)
      PROVE  MovesInv'
  BY <1>0, <1>s, <1>6 DEF AddItem
<1>7. ASSUME NEW c \in Clerks, NEW d \in Dispatches, NEW r \in Receptacles,
             AddReceptacle(c, d, r)
      PROVE  MovesInv'
  BY <1>0, <1>s, <1>7 DEF AddReceptacle
<1>8. ASSUME NEW c \in Clerks, NEW r \in Receptacles,
             NEW next \in {move[2] : move \in ReceptacleMoves}, MoveReceptacle(c, r, next)
      PROVE  MovesInv'
  <2>1. \A x \in Receptacles : MovesOn(receptacle[x], receptacle'[x])
    BY <1>8 DEF MoveReceptacle, PostalTyped, Row, MovesOn
  <2>2. \A d \in Dispatches : MovesOn(dispatch[d], dispatch'[d])
    BY <1>8 DEF MoveReceptacle, MovesOn
  <2>3. \A b \in Clerks : clerk'[b] \in {clerk[b], ClerkIdle}
    BY <1>0, <1>8 DEF MoveReceptacle
  <2> QED BY <1>t, <2>1, <2>2, <2>3, StaysCurrent
<1>9. ASSUME NEW c \in Clerks, NEW d \in Dispatches,
             NEW next \in {move[2] : move \in DispatchMoves}, MoveDispatch(c, d, next)
      PROVE  MovesInv'
  <2>0. DispatchMoved(c, d, next)
    BY <1>9, DispatchesMove
  <2>1. ASSUME NEW x \in Receptacles
        PROVE  MovesOn(receptacle[x], receptacle'[x])
    <3>1. receptacle'[x] \in {receptacle[x], Row("DESPATCHED", receptacle[x].version + 1)}
      BY <2>0 DEF DispatchMoved
    <3>2. receptacle[x].version \in Nat
      BY DEF PostalTyped
    <3> QED BY <3>1, <3>2 DEF Row, MovesOn
  <2>2. ASSUME NEW x \in Dispatches
        PROVE  MovesOn(dispatch[x], dispatch'[x])
    <3>1. dispatch'[x] \in {dispatch[x], Row(next, dispatch[x].version + 1)}
      BY <2>0 DEF DispatchMoved
    <3>2. dispatch[x].version \in Nat
      BY DEF PostalTyped
    <3> QED BY <3>1, <3>2 DEF Row, MovesOn
  <2>3. \A b \in Clerks : clerk'[b] \in {clerk[b], ClerkIdle}
    BY <1>0, <1>9 DEF MoveDispatch
  <2> QED BY <1>t, <2>1, <2>2, <2>3, StaysCurrent
<1>10. CASE UNCHANGED postalVars
  BY <1>s, <1>10 DEF postalVars
<1> QED BY PostalSteps, <1>1, <1>2, <1>3, <1>4, <1>5, <1>6, <1>7, <1>8, <1>9, <1>10
        DEF PostalWrites

LEMMA PostalHolds == PostalSpec => [](PostalTyped /\ MovesInv)
<1>1. PostalInit => PostalTyped /\ MovesInv
  BY DEF PostalInit, PostalTyped, MovesInv, WorkCurrent, ClerkIdle, NoRow, Row
<1>2. PostalTyped /\ MovesInv /\ [PostalNext]_postalVars => (PostalTyped /\ MovesInv)'
  BY PostalStaysTyped, MovesKept
<1> QED BY <1>1, <1>2, PTL DEF PostalSpec

\* Which steps change a row of a receptacle or of a dispatch.
LEMMA RowsMove ==
    ASSUME PostalTyped, [PostalNext]_postalVars
    PROVE  \/ UNCHANGED <<receptacle, dispatch>>
           \/ \E r \in Receptacles : CreateReceptacle(r)
           \/ \E d \in Dispatches : CreateDispatch(d)
           \/ \E c \in Clerks, r \in Receptacles,
                 next \in {move[2] : move \in ReceptacleMoves} : MoveReceptacle(c, r, next)
           \/ \E c \in Clerks, d \in Dispatches,
                 next \in {move[2] : move \in DispatchMoves} : MoveDispatch(c, d, next)
BY PostalSteps DEF PostalWrites, ReadsAlone, CreatePostalItem, Report, AddItem, AddReceptacle,
                   postalVars

\* Handing a dispatch over despatches every receptacle linked to it by then
\* (transitionPostalDispatch, addPostalReceptacle).
THEOREM HandoversDespatch == PostalSpec => HandedOverIsDespatched
<1> DEFINE Despatches == \A d \in Dispatches :
       dispatch[d].status # dispatch'[d].status /\ dispatch'[d].status = "HANDED_OVER" =>
          \A r \in LinkedTo(d) : receptacle'[r].status = "DESPATCHED"
<1>1. ASSUME PostalTyped, [PostalNext]_postalVars
      PROVE  Despatches
  <2> SUFFICES ASSUME NEW d \in Dispatches, dispatch[d].status # dispatch'[d].status,
                      dispatch'[d].status = "HANDED_OVER", NEW r \in LinkedTo(d)
               PROVE  receptacle'[r].status = "DESPATCHED"
    OBVIOUS
  <2>1. ASSUME NEW x \in Receptacles, CreateReceptacle(x)
        PROVE  FALSE
    BY <2>1 DEF CreateReceptacle
  <2>2. ASSUME NEW x \in Dispatches, CreateDispatch(x)
        PROVE  FALSE
    BY <1>1, <2>2 DEF CreateDispatch, PostalTyped, Row
  <2>3. ASSUME NEW c \in Clerks, NEW x \in Receptacles,
               NEW next \in {move[2] : move \in ReceptacleMoves}, MoveReceptacle(c, x, next)
        PROVE  FALSE
    BY <2>3 DEF MoveReceptacle
  <2>4. ASSUME NEW c \in Clerks, NEW x \in Dispatches,
               NEW next \in {move[2] : move \in DispatchMoves}, MoveDispatch(c, x, next)
        PROVE  receptacle'[r].status = "DESPATCHED"
    <3>1. DispatchMoved(c, x, next)
      BY <1>1, <2>4, DispatchesMove
    <3>2. x = d /\ next = "HANDED_OVER"
      BY <3>1 DEF DispatchMoved, Row
    <3>3. r \in Receptacles /\ <<d, r>> \in linked
      BY DEF LinkedTo
    <3>4. receptacle'[r] = Row("DESPATCHED", receptacle[r].version + 1)
      BY <3>1, <3>2, <3>3 DEF DispatchMoved
    <3> QED BY <3>4 DEF Row
  <2> QED BY <1>1, <2>1, <2>2, <2>3, <2>4, RowsMove
<1>2. (PostalTyped /\ [PostalNext]_postalVars) => [Despatches]_postalVars
  BY <1>1
<1>3. HandedOverIsDespatched <=> [][Despatches]_postalVars
  BY DEF HandedOverIsDespatched
<1> HIDE DEF Despatches
<1> QED BY <1>2, <1>3, PostalHolds, PTL DEF PostalSpec

\* A receptacle moves as its transitions say, or is handed over with a dispatch
\* (transitionReceptacle, transitionPostalDispatch).
THEOREM ReceptaclesFollow == PostalSpec => ReceptacleFollowsItsTransitions
<1> DEFINE Follows == \A r \in Receptacles :
       LET before == receptacle[r].status
           after == receptacle'[r].status IN
       (before \notin {after, "NONE"} /\ <<before, after>> \notin ReceptacleMoves) =>
          \E d \in Dispatches :
             /\ <<d, r>> \in linked /\ dispatch[d].status = "CLOSED"
             /\ dispatch'[d].status = "HANDED_OVER"
<1>1. ASSUME PostalTyped, MovesInv, [PostalNext]_postalVars
      PROVE  Follows
  <2> SUFFICES ASSUME NEW r \in Receptacles,
                      receptacle[r].status \notin {receptacle'[r].status, "NONE"},
                      <<receptacle[r].status, receptacle'[r].status>> \notin ReceptacleMoves
               PROVE  \E d \in Dispatches :
                         /\ <<d, r>> \in linked /\ dispatch[d].status = "CLOSED"
                         /\ dispatch'[d].status = "HANDED_OVER"
    OBVIOUS
  <2>1. ASSUME NEW x \in Receptacles, CreateReceptacle(x)
        PROVE  FALSE
    BY <1>1, <2>1 DEF CreateReceptacle, PostalTyped, Row, NoRow
  <2>2. ASSUME NEW x \in Dispatches, CreateDispatch(x)
        PROVE  FALSE
    BY <2>2 DEF CreateDispatch
  <2>3. ASSUME NEW c \in Clerks, NEW x \in Receptacles,
               NEW next \in {move[2] : move \in ReceptacleMoves}, MoveReceptacle(c, x, next)
        PROVE  FALSE
    <3>1. x = r /\ Taken(receptacle[r], c) /\ receptacle'[r].status = next
      BY <1>1, <2>3 DEF MoveReceptacle, PostalTyped, Row
    <3>2. clerk[c].op = "receptacle" /\ clerk[c].on = r /\ clerk[c].to = next
      BY <2>3, <3>1 DEF MoveReceptacle, ClerkWrites
    <3>3. Current(receptacle[r], clerk[c], ReceptacleMoves)
      BY <1>1, <3>2 DEF MovesInv, WorkCurrent
    <3> QED BY <3>1, <3>2, <3>3 DEF Current, Taken
  <2>4. ASSUME NEW c \in Clerks, NEW x \in Dispatches,
               NEW next \in {move[2] : move \in DispatchMoves}, MoveDispatch(c, x, next)
        PROVE  /\ <<x, r>> \in linked /\ dispatch[x].status = "CLOSED"
               /\ dispatch'[x].status = "HANDED_OVER"
    <3>1. DispatchMoved(c, x, next)
      BY <1>1, <2>4, DispatchesMove
    <3>2. <<x, r>> \in linked /\ next = "HANDED_OVER" /\ Taken(dispatch[x], c)
          /\ dispatch'[x] = Row(next, dispatch[x].version + 1)
      <4>1. receptacle'[r] # receptacle[r]
        OBVIOUS
      <4> QED BY <3>1, <4>1 DEF DispatchMoved
    <3>7. dispatch'[x].status = next
      BY <3>2 DEF Row
    <3>3. clerk[c].op = "dispatch" /\ clerk[c].on = x /\ clerk[c].to = next
      BY <2>4 DEF MoveDispatch, ClerkWrites
    <3>4. Current(dispatch[x], clerk[c], DispatchMoves)
      BY <1>1, <3>3 DEF MovesInv, WorkCurrent
    <3>5. <<dispatch[x].status, "HANDED_OVER">> \in DispatchMoves
      BY <3>2, <3>3, <3>4 DEF Current, Taken
    <3>6. dispatch[x].status = "CLOSED"
      BY <3>5 DEF DispatchMoves
    <3> QED BY <3>2, <3>6, <3>7
  <2> QED BY <1>1, <2>1, <2>2, <2>3, <2>4, RowsMove
<1>2. (PostalTyped /\ MovesInv /\ [PostalNext]_postalVars) => [Follows]_postalVars
  BY <1>1
<1>3. ReceptacleFollowsItsTransitions <=> [][Follows]_postalVars
  BY DEF ReceptacleFollowsItsTransitions
<1> HIDE DEF Follows
<1> QED BY <1>2, <1>3, PostalHolds, PTL DEF PostalSpec
-----------------------------------------------------------------------------
(***************************************************************************)
(* Papers and customs filings.                                             *)
(***************************************************************************)

Issued == {d \in Papers : paper[d] # "NONE"}

\* The revisions in use are counted through, and what a request counted was at
\* most one more.
PapersInv ==
    /\ DOMAIN paper = Papers /\ DOMAIN paperRevision = Papers /\ DOMAIN carrier = Carriers
    /\ \A d \in Papers : paper[d] = "NONE" => paperRevision[d] = 0
    /\ {paperRevision[d] : d \in Issued} = 1..Cardinality(Issued)
    /\ \A c \in Carriers :
          /\ carrier[c].op = "create" => carrier[c].revision \in 1..(Cardinality(Issued) + 1)
          /\ carrier[c].op \in {"ISSUED", "SIGNED", "SURRENDERED", "VOID"} =>
                carrier[c].on \in Papers /\ paper[carrier[c].on] # "NONE"

LEMMA IssuedCounted ==
    IsFiniteSet(Issued) /\ Cardinality(Issued) \in Nat
<1>1. IsFiniteSet(Issued)
  BY PapersAssumption, FS_Subset DEF Issued
<1> QED BY <1>1, FS_CardinalityType

\* The next revision is one more than there are documents (createDocument).
LEMMA HighestIsCount ==
    ASSUME PapersInv
    PROVE  HighestRevision = Cardinality(Issued)
<1> DEFINE n == Cardinality(Issued)
           S == {0} \cup {paperRevision[d] : d \in Papers}
<1>1. n \in Nat
  BY IssuedCounted
<1>2. \A d \in Papers : paperRevision[d] = 0 \/ paperRevision[d] \in 1..n
  BY DEF PapersInv, Issued
<1>3. \A m \in 1..n : \E d \in Papers : paperRevision[d] = m
  BY DEF PapersInv, Issued
<1> HIDE DEF n
<1>4. n \in S
  BY <1>1, <1>3
<1>5. \A m \in S : m \in Nat /\ n >= m
  BY <1>1, <1>2
<1> HIDE DEF S
<1>6. Max(S) = n
  <2>1. Max(S) \in S /\ \A m \in S : Max(S) >= m
    BY <1>4, <1>5, Zenon DEF Max
  <2> DEFINE m == Max(S)
  <2>2. m \in Nat /\ n >= m /\ m >= n
    BY <1>4, <1>5, <2>1
  <2> HIDE DEF m
  <2>3. m = n
    BY <1>1, <2>2
  <2> QED BY <2>3 DEF m
<1> QED BY <1>6 DEF HighestRevision, n, S

\* A request that turns to something else leaves the documents as they are.
LEMMA CarriersRead ==
    ASSUME PapersInv, UNCHANGED <<paper, paperRevision>>, NEW c \in Carriers, NEW w,
           carrier' = [carrier EXCEPT ![c] = w],
           w.op = "create" => w.revision \in 1..(Cardinality(Issued) + 1),
           w.op \in {"ISSUED", "SIGNED", "SURRENDERED", "VOID"} =>
              w.on \in Papers /\ paper[w.on] # "NONE"
    PROVE  PapersInv'
<1>1. Issued' = Issued
  BY DEF Issued
<1>2. Cardinality(Issued)' = Cardinality(Issued)
  BY <1>1
<1>3. \A b \in Carriers : carrier'[b] = carrier[b] \/ carrier'[b] = w
  BY DEF PapersInv
<1>4. DOMAIN carrier' = Carriers
  BY DEF PapersInv
<1>5. {paperRevision'[d] : d \in Issued'} = {paperRevision[d] : d \in Issued}
  BY <1>1
<1>6. \A b \in Carriers :
         /\ carrier'[b].op = "create" => carrier'[b].revision \in 1..(Cardinality(Issued) + 1)
         /\ carrier'[b].op \in {"ISSUED", "SIGNED", "SURRENDERED", "VOID"} =>
               carrier'[b].on \in Papers /\ paper[carrier'[b].on] # "NONE"
  BY <1>3 DEF PapersInv
<1> QED BY <1>1, <1>2, <1>4, <1>5, <1>6 DEF PapersInv

\* A created document takes the next revision, or the unique key refuses it
\* (createDocument).
LEMMA CreationCounts ==
    ASSUME PapersInv, NEW c \in Carriers, NEW d \in Papers, CreatePaper(c, d)
    PROVE  PapersInv'
<1>1. carrier' = [carrier EXCEPT ![c] = CarrierIdle] /\ carrier[c].op = "create"
  BY DEF CreatePaper, CarrierWrites
<1>2. CASE UNCHANGED <<paper, paperRevision>>
  <2>1. CarrierIdle.op = "idle"
    BY DEF CarrierIdle
  <2> QED BY <1>1, <1>2, <2>1, CarriersRead
<1>3. CASE paper[d] = "NONE" /\ RevisionUnused(carrier[c].revision)
  <2> DEFINE n == Cardinality(Issued)
             v == carrier[c].revision
  <2>1. paper' = [paper EXCEPT ![d] = "DRAFT"]
        /\ paperRevision' = [paperRevision EXCEPT ![d] = v]
    BY <1>3 DEF CreatePaper
  <2>2. n \in Nat /\ IsFiniteSet(Issued)
    BY IssuedCounted
  <2>3. v \in 1..(n + 1) /\ {paperRevision[x] : x \in Issued} = 1..n
    BY <1>1 DEF PapersInv
  <2>4. v \notin {paperRevision[x] : x \in Issued}
    BY <1>3 DEF RevisionUnused, Issued
  <2>5. v = n + 1
    <3>1. v \notin 1..n
      BY <2>3, <2>4
    <3>2. \A i \in Nat : \A j \in 1..(i + 1) : j \notin 1..i => j = i + 1
      OBVIOUS
    <3> HIDE DEF n, v
    <3> QED BY <2>2, <2>3, <3>1, <3>2
  <2>6. Issued' = Issued \cup {d} /\ d \notin Issued
    BY <1>3, <2>1 DEF Issued, PapersInv
  <2>7. Cardinality(Issued') = n + 1
    BY <2>2, <2>6, FS_AddElement
  <2>8. paperRevision'[d] = v /\ \A x \in Issued : paperRevision'[x] = paperRevision[x]
    BY <2>1, <2>6 DEF PapersInv, Issued
  <2>9. {paperRevision'[x] : x \in Issued'} = {paperRevision[x] : x \in Issued} \cup {v}
    BY <2>6, <2>8
  <2>10. {paperRevision'[x] : x \in Issued'} = 1..(n + 1)
    <3> HIDE DEF n, v
    <3>1. 1..n \cup {n + 1} = 1..(n + 1)
      BY <2>2
    <3> QED BY <2>3, <2>5, <2>9, <3>1
  <2>11. \A x \in Papers : paper'[x] = "NONE" => paperRevision'[x] = 0
    BY <2>1 DEF PapersInv
  <2>12. \A x \in Papers : paper[x] # "NONE" => paper'[x] # "NONE"
    BY <2>1 DEF PapersInv
  <2>13. \A b \in Carriers : carrier'[b] = carrier[b] \/ carrier'[b].op = "idle"
    BY <1>1 DEF PapersInv, CarrierIdle
  <2>14. 1..(n + 1) \subseteq 1..(n + 1 + 1)
    <3> HIDE DEF n
    <3> QED BY <2>2
  <2>15. \A b \in Carriers :
            /\ carrier'[b].op = "create" => carrier'[b].revision \in 1..(Cardinality(Issued') + 1)
            /\ carrier'[b].op \in {"ISSUED", "SIGNED", "SURRENDERED", "VOID"} =>
                  carrier'[b].on \in Papers /\ paper'[carrier'[b].on] # "NONE"
    BY <2>7, <2>12, <2>13, <2>14 DEF PapersInv
  <2>16. DOMAIN paper' = Papers /\ DOMAIN paperRevision' = Papers /\ DOMAIN carrier' = Carriers
    BY <1>1, <2>1 DEF PapersInv
  <2>17. {paperRevision'[x] : x \in Issued'} = 1..Cardinality(Issued')
    BY <2>7, <2>10
  <2> QED BY <2>11, <2>15, <2>16, <2>17 DEF PapersInv
<1> QED BY <1>2, <1>3 DEF CreatePaper

\* A document that moves stays one that was issued (transitionDocument).
LEMMA MovesCount ==
    ASSUME PapersInv, NEW c \in Carriers, NEW d \in Papers,
           NEW next \in {"ISSUED", "SIGNED", "SURRENDERED", "VOID"}, TransitionPaper(c, d, next)
    PROVE  PapersInv'
<1>1. carrier[c].op = next /\ carrier[c].on = d
      /\ carrier' = [carrier EXCEPT ![c] = CarrierIdle]
      /\ paper' = [paper EXCEPT ![d] = next] /\ paperRevision' = paperRevision
  BY DEF TransitionPaper, CarrierWrites
<1>2. paper[d] # "NONE"
  BY <1>1 DEF PapersInv
<1>3. \A x \in Papers : (paper'[x] = "NONE") <=> (paper[x] = "NONE")
  BY <1>1, <1>2 DEF PapersInv
<1>4. Issued' = Issued
  BY <1>3 DEF Issued
<1>5. Cardinality(Issued') = Cardinality(Issued)
      /\ {paperRevision'[x] : x \in Issued'} = {paperRevision[x] : x \in Issued}
  BY <1>1, <1>4
<1>6. \A b \in Carriers : carrier'[b] = carrier[b] \/ carrier'[b].op = "idle"
  BY <1>1 DEF PapersInv, CarrierIdle
<1>7. \A b \in Carriers :
         /\ carrier'[b].op = "create" => carrier'[b].revision \in 1..(Cardinality(Issued') + 1)
         /\ carrier'[b].op \in {"ISSUED", "SIGNED", "SURRENDERED", "VOID"} =>
               carrier'[b].on \in Papers /\ paper'[carrier'[b].on] # "NONE"
  BY <1>3, <1>5, <1>6 DEF PapersInv
<1>8. DOMAIN paper' = Papers /\ DOMAIN paperRevision' = Papers /\ DOMAIN carrier' = Carriers
  BY <1>1 DEF PapersInv
<1> QED BY <1>1, <1>3, <1>5, <1>7, <1>8 DEF PapersInv

\* Revisions are counted without a gap or a repetition whatever requests overlap
\* (createDocument and the unique revision).
THEOREM RevisionsRunOn == PapersSpec => []RevisionsCounted
<1>1. PapersInit => PapersInv
  <2> SUFFICES ASSUME PapersInit PROVE PapersInv
    OBVIOUS
  <2>1. Issued = {}
    BY DEF PapersInit, Issued
  <2>2. Cardinality(Issued) = 0
    BY <2>1, FS_EmptySet
  <2>3. {paperRevision[d] : d \in Issued} = 1..Cardinality(Issued)
    BY <2>1, <2>2
  <2> QED BY <2>3 DEF PapersInit, PapersInv, CarrierIdle
<1>2. PapersInv /\ [PapersNext]_papersVars => PapersInv'
  <2> SUFFICES ASSUME PapersInv, [PapersNext]_papersVars PROVE PapersInv'
    OBVIOUS
  <2>1. ASSUME NEW c \in Carriers, NEW d \in Papers, CreatePaperRead(c, d)
        PROVE  PapersInv'
    <3> DEFINE w == [op |-> "create", on |-> d, revision |-> HighestRevision + 1]
               n == Cardinality(Issued)
    <3>1. carrier' = [carrier EXCEPT ![c] = w] /\ UNCHANGED <<paper, paperRevision>>
      BY <2>1 DEF CreatePaperRead, CarrierReads
    <3>2. w.op = "create" /\ w.revision = n + 1 /\ n \in Nat
      BY HighestIsCount, IssuedCounted
    <3> HIDE DEF w, n
    <3>3. w.revision \in 1..(n + 1)
      BY <3>2
    <3>4. w.revision \in 1..(Cardinality(Issued) + 1)
      BY <3>3 DEF n
    <3> QED BY <3>1, <3>2, <3>4, CarriersRead
  <2>2. ASSUME NEW c \in Carriers, NEW d \in Papers,
               NEW next \in {"ISSUED", "SIGNED", "SURRENDERED", "VOID"},
               TransitionPaperRead(c, d, next)
        PROVE  PapersInv'
    <3> DEFINE w == [op |-> next, on |-> d, revision |-> 0]
    <3>1. carrier' = [carrier EXCEPT ![c] = w] /\ UNCHANGED <<paper, paperRevision>>
      BY <2>2 DEF TransitionPaperRead, CarrierReads
    <3>2. w.op = next /\ w.on = d /\ next # "create" /\ paper[d] # "NONE"
      BY <2>2 DEF TransitionPaperRead, PaperMoves
    <3> HIDE DEF w
    <3> QED BY <3>1, <3>2, CarriersRead
  <2>3. CASE UNCHANGED papersVars
    BY <2>3 DEF papersVars, PapersInv, Issued
  <2> QED BY <2>1, <2>2, <2>3, CreationCounts, MovesCount DEF PapersNext
<1>3. PapersInv => RevisionsCounted
  BY DEF PapersInv, RevisionsCounted, Issued
<1> QED BY <1>1, <1>2, <1>3, PTL DEF PapersSpec
-----------------------------------------------------------------------------
FilingSteps == {"LODGED", "HELD", "RELEASED", "REJECTED"}

\* The versions are numbers with a highest, and what a declarant compares was
\* read from a row that has not changed or has moved on.
CustomsInv ==
    /\ DOMAIN filing = Filings /\ DOMAIN filingVersion = Filings
    /\ DOMAIN declarant = Declarants
    /\ \A f \in Filings :
          filingVersion[f] \in Nat /\ (filing[f] = "NONE" => filingVersion[f] = 0)
    /\ \E n \in {0} \cup {filingVersion[f] : f \in Filings} :
          \A f \in Filings : filingVersion[f] <= n
    /\ \A c \in Declarants :
          /\ declarant[c].op = "filing" => declarant[c].version \in Nat
          /\ declarant[c].op \in FilingSteps =>
                /\ declarant[c].on \in Filings /\ declarant[c].version \in Nat
                /\ filing[declarant[c].on] # "NONE"
                /\ declarant[c].version <= filingVersion[declarant[c].on]
                /\ declarant[c].version = filingVersion[declarant[c].on] =>
                      <<filing[declarant[c].on], declarant[c].op>> \in FilingMoves

LEMMA HighestIsVersion == CustomsInv => HighestVersion \in Nat
<1> SUFFICES ASSUME CustomsInv PROVE HighestVersion \in Nat
  OBVIOUS
<1> DEFINE S == {0} \cup {filingVersion[f] : f \in Filings}
<1>1. S \subseteq Nat
  BY DEF CustomsInv
<1>2. PICK n \in S : \A f \in Filings : filingVersion[f] <= n
  BY DEF CustomsInv
<1>3. \A m \in S : n >= m
  <2>1. n \in Nat
    BY <1>1, <1>2
  <2> QED BY <1>2, <2>1 DEF CustomsInv
<1> HIDE DEF S
<1>4. Max(S) \in S
  BY <1>2, <1>3, Zenon DEF Max
<1>5. Max(S) \in Nat
  BY <1>1, <1>4
<1> QED BY <1>5 DEF HighestVersion, S

\* A request that turns to something else leaves the filings as they are.
LEMMA DeclarantsRead ==
    ASSUME CustomsInv, UNCHANGED <<filing, filingVersion>>, NEW c \in Declarants, NEW w,
           declarant' = [declarant EXCEPT ![c] = w],
           w.op = "filing" => w.version \in Nat,
           w.op \in FilingSteps =>
              /\ w.on \in Filings /\ w.version = filingVersion[w.on]
              /\ filing[w.on] # "NONE" /\ <<filing[w.on], w.op>> \in FilingMoves
    PROVE  CustomsInv'
<1>1. \A b \in Declarants : declarant'[b] = declarant[b] \/ declarant'[b] = w
  BY DEF CustomsInv
<1>2. w.op \in FilingSteps => w.version \in Nat /\ w.version <= filingVersion[w.on]
  BY DEF CustomsInv
<1>3. \A b \in Declarants :
         /\ declarant'[b].op = "filing" => declarant'[b].version \in Nat
         /\ declarant'[b].op \in FilingSteps =>
               /\ declarant'[b].on \in Filings /\ declarant'[b].version \in Nat
               /\ filing[declarant'[b].on] # "NONE"
               /\ declarant'[b].version <= filingVersion[declarant'[b].on]
               /\ declarant'[b].version = filingVersion[declarant'[b].on] =>
                     <<filing[declarant'[b].on], declarant'[b].op>> \in FilingMoves
  <2> SUFFICES ASSUME NEW b \in Declarants
               PROVE  /\ declarant'[b].op = "filing" => declarant'[b].version \in Nat
                      /\ declarant'[b].op \in FilingSteps =>
                            /\ declarant'[b].on \in Filings /\ declarant'[b].version \in Nat
                            /\ filing[declarant'[b].on] # "NONE"
                            /\ declarant'[b].version <= filingVersion[declarant'[b].on]
                            /\ declarant'[b].version = filingVersion[declarant'[b].on] =>
                                  <<filing[declarant'[b].on], declarant'[b].op>> \in FilingMoves
    OBVIOUS
  <2>1. CASE declarant'[b] = declarant[b]
    BY <2>1 DEF CustomsInv
  <2>2. CASE declarant'[b] = w
    BY <1>2, <2>2
  <2> QED BY <1>1, <2>1, <2>2
<1>4. DOMAIN declarant' = Declarants
  BY DEF CustomsInv
<1> QED BY <1>3, <1>4 DEF CustomsInv

\* A filing that is written gets a version above the one it had.
LEMMA FilingsWritten ==
    ASSUME CustomsInv, NEW c \in Declarants, NEW f \in Filings, NEW s, NEW v \in Nat,
           declarant' = [declarant EXCEPT ![c] = DeclarantIdle],
           filing' = [filing EXCEPT ![f] = s],
           filingVersion' = [filingVersion EXCEPT ![f] = v],
           s # "NONE", filing[f] = "NONE" \/ v > filingVersion[f], v >= filingVersion[f]
    PROVE  CustomsInv'
<1>1. /\ DOMAIN filing' = Filings /\ DOMAIN filingVersion' = Filings
      /\ DOMAIN declarant' = Declarants
  BY DEF CustomsInv
<1>2. /\ filing'[f] = s /\ filingVersion'[f] = v
      /\ \A x \in Filings : x # f => filing'[x] = filing[x] /\ filingVersion'[x] = filingVersion[x]
  BY DEF CustomsInv
<1>3. \A x \in Filings :
         filingVersion'[x] \in Nat /\ (filing'[x] = "NONE" => filingVersion'[x] = 0)
  BY <1>2 DEF CustomsInv
<1>4. \E n \in {0} \cup {filingVersion'[x] : x \in Filings} :
         \A x \in Filings : filingVersion'[x] <= n
  <2>1. PICK n \in {0} \cup {filingVersion[x] : x \in Filings} :
           \A x \in Filings : filingVersion[x] <= n
    BY DEF CustomsInv
  <2>2. n \in Nat
    BY <2>1 DEF CustomsInv
  <2>3. CASE v >= n
    <3>1. \A x \in Filings : filingVersion'[x] <= v
      BY <1>2, <2>1, <2>2, <2>3 DEF CustomsInv
    <3> QED BY <1>2, <3>1
  <2>4. CASE n > v
    <3>1. \A x \in Filings : filingVersion'[x] <= n
      BY <1>2, <2>1, <2>2, <2>4 DEF CustomsInv
    <3>2. n \in {0} \cup {filingVersion'[x] : x \in Filings}
      <4>1. CASE n = 0
        BY <4>1
      <4>2. ASSUME NEW x \in Filings, n = filingVersion[x]
            PROVE  n \in {0} \cup {filingVersion'[y] : y \in Filings}
        <5>1. x # f
          BY <2>4, <2>2, <4>2
        <5>2. filingVersion'[x] = n
          BY <1>2, <4>2, <5>1
        <5> QED BY <5>2
      <4> QED BY <2>1, <4>1, <4>2
    <3> QED BY <3>1, <3>2
  <2>5. v >= n \/ n > v
    BY <2>2
  <2> QED BY <2>3, <2>4, <2>5
<1>5. \A b \in Declarants : declarant'[b] = declarant[b] \/ declarant'[b].op = "idle"
  BY DEF CustomsInv, DeclarantIdle
<1>6. ASSUME NEW b \in Declarants
      PROVE  /\ declarant'[b].op = "filing" => declarant'[b].version \in Nat
             /\ declarant'[b].op \in FilingSteps =>
                   /\ declarant'[b].on \in Filings /\ declarant'[b].version \in Nat
                   /\ filing'[declarant'[b].on] # "NONE"
                   /\ declarant'[b].version <= filingVersion'[declarant'[b].on]
                   /\ declarant'[b].version = filingVersion'[declarant'[b].on] =>
                         <<filing'[declarant'[b].on], declarant'[b].op>> \in FilingMoves
  <2>1. CASE declarant'[b].op = "idle"
    BY <2>1 DEF FilingSteps
  <2>2. CASE declarant'[b] = declarant[b]
    <3>1. declarant[b].op = "filing" => declarant[b].version \in Nat
      BY DEF CustomsInv
    <3>2. ASSUME declarant[b].op \in FilingSteps
          PROVE  /\ declarant[b].on \in Filings /\ declarant[b].version \in Nat
                 /\ filing'[declarant[b].on] # "NONE"
                 /\ declarant[b].version <= filingVersion'[declarant[b].on]
                 /\ declarant[b].version = filingVersion'[declarant[b].on] =>
                       <<filing'[declarant[b].on], declarant[b].op>> \in FilingMoves
      <4> DEFINE x == declarant[b].on
                 n == declarant[b].version
      <4>1. /\ x \in Filings /\ n \in Nat /\ filing[x] # "NONE" /\ n <= filingVersion[x]
            /\ n = filingVersion[x] => <<filing[x], declarant[b].op>> \in FilingMoves
            /\ filingVersion[x] \in Nat
        BY <3>2 DEF CustomsInv
      <4> HIDE DEF x, n
      <4>2. /\ x \in Filings /\ n \in Nat /\ filing'[x] # "NONE" /\ n <= filingVersion'[x]
            /\ n = filingVersion'[x] => <<filing'[x], declarant[b].op>> \in FilingMoves
        <5>1. CASE x = f
          BY <1>2, <4>1, <5>1
        <5>2. CASE x # f
          BY <1>2, <4>1, <5>2
        <5> QED BY <5>1, <5>2
      <4> QED BY <4>2 DEF x, n
    <3> QED BY <2>2, <3>1, <3>2
  <2> QED BY <1>5, <2>1, <2>2
<1> QED BY <1>1, <1>3, <1>4, <1>6 DEF CustomsInv

LEMMA CustomsHold == CustomsSpec => []CustomsInv
<1>1. CustomsInit => CustomsInv
  BY DEF CustomsInit, CustomsInv, DeclarantIdle, FilingSteps
<1>2. CustomsInv /\ [CustomsNext]_customsVars => CustomsInv'
  <2> SUFFICES ASSUME CustomsInv, [CustomsNext]_customsVars PROVE CustomsInv'
    OBVIOUS
  <2>1. ASSUME NEW c \in Declarants, NEW f \in Filings, CreateFilingRead(c, f)
        PROVE  CustomsInv'
    <3> DEFINE w == [op |-> "filing", on |-> f, version |-> HighestVersion + 1]
    <3>1. declarant' = [declarant EXCEPT ![c] = w] /\ UNCHANGED <<filing, filingVersion>>
      BY <2>1 DEF CreateFilingRead, DeclarantReads
    <3>2. w.op \notin FilingSteps /\ w.version \in Nat
      BY HighestIsVersion DEF FilingSteps
    <3> HIDE DEF w
    <3> QED BY <3>1, <3>2, DeclarantsRead
  <2>2. ASSUME NEW c \in Declarants, NEW f \in Filings, NEW next \in FilingSteps,
               TransitionFilingRead(c, f, next)
        PROVE  CustomsInv'
    <3> DEFINE w == [op |-> next, on |-> f, version |-> filingVersion[f]]
    <3>1. declarant' = [declarant EXCEPT ![c] = w] /\ UNCHANGED <<filing, filingVersion>>
      BY <2>2 DEF TransitionFilingRead, DeclarantReads
    <3>2. <<filing[f], next>> \in FilingMoves
      BY <2>2 DEF TransitionFilingRead
    <3>3. filing[f] # "NONE" /\ w.op # "filing" /\ w.on = f /\ w.version = filingVersion[f]
          /\ w.op = next
      BY <3>2 DEF FilingMoves, FilingSteps
    <3> HIDE DEF w
    <3> QED BY <3>1, <3>2, <3>3, DeclarantsRead
  <2>3. ASSUME NEW c \in Declarants, NEW f \in Filings, CreateFiling(c, f)
        PROVE  CustomsInv'
    <3>1. declarant' = [declarant EXCEPT ![c] = DeclarantIdle] /\ declarant[c].op = "filing"
      BY <2>3 DEF CreateFiling, DeclarantWrites
    <3>2. CASE UNCHANGED <<filing, filingVersion>>
      <4>1. DeclarantIdle.op \notin FilingSteps \cup {"filing"}
        BY DEF DeclarantIdle, FilingSteps
      <4> QED BY <3>1, <3>2, <4>1, DeclarantsRead
    <3>3. CASE filing[f] = "NONE" /\ VersionUnused(declarant[c].version)
      <4> DEFINE v == declarant[c].version
      <4>1. v \in Nat /\ filing' = [filing EXCEPT ![f] = "DRAFT"]
            /\ filingVersion' = [filingVersion EXCEPT ![f] = v]
        BY <2>3, <3>1, <3>3 DEF CreateFiling, CustomsInv
      <4>2. filingVersion[f] <= v
        <5>1. v \in Nat /\ filingVersion[f] = 0
          BY <3>3, <4>1 DEF CustomsInv
        <5> HIDE DEF v
        <5> QED BY <5>1
      <4> HIDE DEF v
      <4> QED BY <3>1, <3>3, <4>1, <4>2, FilingsWritten
    <3> QED BY <2>3, <3>2, <3>3 DEF CreateFiling
  <2>4. ASSUME NEW c \in Declarants, NEW f \in Filings, NEW next \in FilingSteps,
               TransitionFiling(c, f, next)
        PROVE  CustomsInv'
    <3>1. declarant' = [declarant EXCEPT ![c] = DeclarantIdle]
      BY <2>4 DEF TransitionFiling, DeclarantWrites
    <3>2. CASE UNCHANGED <<filing, filingVersion>>
      <4>1. DeclarantIdle.op \notin FilingSteps \cup {"filing"}
        BY DEF DeclarantIdle, FilingSteps
      <4> QED BY <3>1, <3>2, <4>1, DeclarantsRead
    <3>3. CASE ~UNCHANGED <<filing, filingVersion>>
      <4> DEFINE v == filingVersion[f] + 1
      <4>1. filing' = [filing EXCEPT ![f] = next]
            /\ filingVersion' = [filingVersion EXCEPT ![f] = v]
        BY <2>4, <3>3 DEF TransitionFiling
      <4>2. v \in Nat /\ v > filingVersion[f] /\ v >= filingVersion[f] /\ next # "NONE"
        BY DEF CustomsInv, FilingSteps
      <4> HIDE DEF v
      <4> QED BY <3>1, <4>1, <4>2, FilingsWritten
    <3> QED BY <3>2, <3>3
  <2>5. CASE UNCHANGED customsVars
    BY <2>5 DEF customsVars, CustomsInv
  <2> QED BY <2>1, <2>2, <2>3, <2>4, <2>5 DEF CustomsNext, FilingSteps
<1> QED BY <1>1, <1>2, PTL DEF CustomsSpec

\* The decision of the customs office is final (transitionCustomsFiling).
THEOREM CustomsDecides == CustomsSpec => CustomsDecisionFinal
<1> DEFINE Decided == \A f \in Filings :
       filing[f] \in {"RELEASED", "REJECTED"} => filing'[f] = filing[f]
<1>1. ASSUME CustomsInv, [CustomsNext]_customsVars
      PROVE  Decided
  <2> SUFFICES ASSUME NEW f \in Filings, filing[f] \in {"RELEASED", "REJECTED"}
               PROVE  filing'[f] = filing[f]
    OBVIOUS
  <2>1. ASSUME NEW c \in Declarants, NEW x \in Filings, CreateFiling(c, x)
        PROVE  filing'[f] = filing[f]
    BY <1>1, <2>1 DEF CreateFiling, CustomsInv
  <2>2. ASSUME NEW c \in Declarants, NEW x \in Filings, NEW next \in FilingSteps,
               TransitionFiling(c, x, next)
        PROVE  filing'[f] = filing[f]
    <3>1. CASE x # f \/ UNCHANGED filing
      BY <1>1, <2>2, <3>1 DEF TransitionFiling, CustomsInv
    <3>2. CASE x = f /\ ~UNCHANGED filing
      <4>1. declarant[c].op = next /\ declarant[c].on = f
            /\ filingVersion[f] = declarant[c].version
        BY <2>2, <3>2 DEF TransitionFiling, FilingClaimed, DeclarantWrites
      <4>2. <<filing[f], next>> \in FilingMoves
        BY <1>1, <4>1 DEF CustomsInv
      <4> QED BY <4>2 DEF FilingMoves
    <3> QED BY <3>1, <3>2
  <2>3. ASSUME NEW c \in Declarants, NEW x \in Filings,
               \/ CreateFilingRead(c, x)
               \/ \E next \in FilingSteps : TransitionFilingRead(c, x, next)
        PROVE  filing'[f] = filing[f]
    BY <2>3 DEF CreateFilingRead, TransitionFilingRead, DeclarantReads
  <2>4. CASE UNCHANGED customsVars
    BY <2>4 DEF customsVars
  <2> QED BY <1>1, <2>1, <2>2, <2>3, <2>4 DEF CustomsNext, FilingSteps
<1>2. (CustomsInv /\ [CustomsNext]_customsVars) => [Decided]_customsVars
  BY <1>1
<1>3. CustomsDecisionFinal <=> [][Decided]_customsVars
  BY DEF CustomsDecisionFinal
<1> HIDE DEF Decided
<1> QED BY <1>2, <1>3, CustomsHold, PTL DEF CustomsSpec
-----------------------------------------------------------------------------
(***************************************************************************)
(* Insurance.                                                              *)
(***************************************************************************)

\* A policy and a premium belong to an accepted quote.
CoverInv ==
    /\ DOMAIN coverQuote = CoverQuotes /\ DOMAIN policy = CoverQuotes
    /\ DOMAIN premium = CoverQuotes
    /\ \A q \in CoverQuotes : coverQuote[q] # "ACCEPTED" =>
          policy[q] = "NONE" /\ premium[q] = "NONE"

LEMMA CoverKept ==
    ASSUME CoverInv, [InsuranceNext]_insuranceVars
    PROVE  CoverInv'
<1>s. ASSUME UNCHANGED <<coverQuote, policy, premium>>
      PROVE  CoverInv'
  BY <1>s DEF CoverInv
<1>1. ASSUME ExpireQuotes
      PROVE  CoverInv'
  BY <1>1 DEF ExpireQuotes, CoverInv
<1>2. ASSUME ExpirePolicies
      PROVE  CoverInv'
  BY <1>2 DEF ExpirePolicies, CoverInv
<1>3. ASSUME NEW q \in CoverQuotes, CreateInsuranceQuote(q)
      PROVE  CoverInv'
  BY <1>3 DEF CreateInsuranceQuote, CoverInv
<1>4. ASSUME NEW q \in CoverQuotes, PayPremium(q)
      PROVE  CoverInv'
  BY <1>4 DEF PayPremium, CoverInv
<1>5. ASSUME NEW q \in CoverQuotes, Passes(q)
      PROVE  CoverInv'
  BY <1>s, <1>5 DEF Passes
<1>6. ASSUME NEW c \in Assessors, NEW q \in CoverQuotes, AcceptCover(c, q)
      PROVE  CoverInv'
  BY <1>6 DEF AcceptCover, CoverInv
<1>7. ASSUME NEW c \in Assessors, NEW q \in CoverQuotes, AcceptCoverRead(c, q)
      PROVE  CoverInv'
  BY <1>s, <1>7 DEF AcceptCoverRead, AssessorReads
<1>8. ASSUME NEW c \in Assessors, NEW k \in Claims,
             \/ CreateClaimRead(c, k) \/ CreateClaim(c, k)
             \/ \E next \in {move[2] : move \in ClaimMoves} : TransitionClaimRead(c, k, next)
             \/ \E approval, payment \in Amounts \cup {None} :
                   TransitionClaim(c, k, approval, payment)
      PROVE  CoverInv'
  BY <1>s, <1>8 DEF CreateClaimRead, CreateClaim, TransitionClaimRead, TransitionClaim,
                    AssessorReads
<1>9. CASE UNCHANGED insuranceVars
  BY <1>s, <1>9 DEF insuranceVars
<1> QED BY <1>1, <1>2, <1>3, <1>4, <1>5, <1>6, <1>7, <1>8, <1>9 DEF InsuranceNext

LEMMA CoverHolds == InsuranceSpec => []CoverInv
<1>1. InsuranceInit => CoverInv
  BY DEF InsuranceInit, CoverInv
<1> QED BY <1>1, CoverKept, PTL DEF InsuranceSpec

\* The steps that change a quote or a policy.
LEMMA CoverSteps ==
    ASSUME [InsuranceNext]_insuranceVars
    PROVE  \/ UNCHANGED <<coverQuote, policy>>
           \/ ExpireQuotes \/ ExpirePolicies
           \/ \E q \in CoverQuotes : CreateInsuranceQuote(q)
           \/ \E q \in CoverQuotes : PayPremium(q)
           \/ \E c \in Assessors, q \in CoverQuotes : AcceptCover(c, q)
<1>1. ASSUME NEW c \in Assessors, NEW k \in Claims,
             \/ CreateClaimRead(c, k) \/ CreateClaim(c, k)
             \/ \E next \in {move[2] : move \in ClaimMoves} : TransitionClaimRead(c, k, next)
             \/ \E approval, payment \in Amounts \cup {None} :
                   TransitionClaim(c, k, approval, payment)
      PROVE  UNCHANGED <<coverQuote, policy>>
  BY <1>1 DEF CreateClaimRead, CreateClaim, TransitionClaimRead, TransitionClaim,
              AssessorReads
<1> QED BY <1>1 DEF InsuranceNext, AcceptCoverRead, AssessorReads, Passes, insuranceVars

\* An expired quote never becomes a policy (acceptInsuranceQuote, sweep).
THEOREM ExpiredBindsNobody == InsuranceSpec => ExpiredNeverBinds
<1> DEFINE Unbound == \A q \in CoverQuotes : coverQuote[q] = "EXPIRED" =>
       coverQuote'[q] = "EXPIRED" /\ policy'[q] = "NONE"
<1>1. ASSUME CoverInv, [InsuranceNext]_insuranceVars
      PROVE  Unbound
  <2> SUFFICES ASSUME NEW q \in CoverQuotes, coverQuote[q] = "EXPIRED"
               PROVE  coverQuote'[q] = "EXPIRED" /\ policy'[q] = "NONE"
    OBVIOUS
  <2>0. policy[q] = "NONE" /\ premium[q] = "NONE"
    BY <1>1 DEF CoverInv
  <2>1. CASE UNCHANGED <<coverQuote, policy>>
    BY <2>0, <2>1
  <2>2. CASE ExpireQuotes
    BY <2>0, <2>2 DEF ExpireQuotes
  <2>3. CASE ExpirePolicies
    BY <2>0, <2>3 DEF ExpirePolicies
  <2>4. ASSUME NEW x \in CoverQuotes, CreateInsuranceQuote(x)
        PROVE  coverQuote'[q] = "EXPIRED" /\ policy'[q] = "NONE"
    BY <1>1, <2>0, <2>4 DEF CreateInsuranceQuote, CoverInv
  <2>5. ASSUME NEW x \in CoverQuotes, PayPremium(x)
        PROVE  coverQuote'[q] = "EXPIRED" /\ policy'[q] = "NONE"
    BY <1>1, <2>0, <2>5 DEF PayPremium, CoverInv
  <2>6. ASSUME NEW c \in Assessors, NEW x \in CoverQuotes, AcceptCover(c, x)
        PROVE  coverQuote'[q] = "EXPIRED" /\ policy'[q] = "NONE"
    BY <1>1, <2>0, <2>6 DEF AcceptCover, CoverInv, QuoteTaken
  <2> QED BY <1>1, <2>1, <2>2, <2>3, <2>4, <2>5, <2>6, CoverSteps
<1>2. (CoverInv /\ [InsuranceNext]_insuranceVars) => [Unbound]_insuranceVars
  BY <1>1
<1>3. ExpiredNeverBinds <=> [][Unbound]_insuranceVars
  BY DEF ExpiredNeverBinds
<1> HIDE DEF Unbound
<1> QED BY <1>2, <1>3, CoverHolds, PTL DEF InsuranceSpec

\* A policy that ended unpaid is not revived (applySucceededPayment, sweep).
THEOREM ExpiredStaysExpired == InsuranceSpec => ExpiredPolicyStays
<1> DEFINE Stays == \A q \in CoverQuotes : policy[q] = "EXPIRED" => policy'[q] = "EXPIRED"
<1>1. ASSUME CoverInv, [InsuranceNext]_insuranceVars
      PROVE  Stays
  <2> SUFFICES ASSUME NEW q \in CoverQuotes, policy[q] = "EXPIRED"
               PROVE  policy'[q] = "EXPIRED"
    OBVIOUS
  <2>1. CASE UNCHANGED <<coverQuote, policy>>
    BY <2>1
  <2>2. CASE ExpireQuotes
    BY <2>2 DEF ExpireQuotes
  <2>3. CASE ExpirePolicies
    BY <2>3 DEF ExpirePolicies
  <2>4. ASSUME NEW x \in CoverQuotes, CreateInsuranceQuote(x)
        PROVE  policy'[q] = "EXPIRED"
    BY <2>4 DEF CreateInsuranceQuote
  <2>5. ASSUME NEW x \in CoverQuotes, PayPremium(x)
        PROVE  policy'[q] = "EXPIRED"
    BY <1>1, <2>5 DEF PayPremium, CoverInv, Activates
  <2>6. ASSUME NEW c \in Assessors, NEW x \in CoverQuotes, AcceptCover(c, x)
        PROVE  policy'[q] = "EXPIRED"
    BY <1>1, <2>6 DEF AcceptCover, CoverInv
  <2> QED BY <1>1, <2>1, <2>2, <2>3, <2>4, <2>5, <2>6, CoverSteps
<1>2. (CoverInv /\ [InsuranceNext]_insuranceVars) => [Stays]_insuranceVars
  BY <1>1
<1>3. ExpiredPolicyStays <=> [][Stays]_insuranceVars
  BY DEF ExpiredPolicyStays
<1> HIDE DEF Stays
<1> QED BY <1>2, <1>3, CoverHolds, PTL DEF InsuranceSpec
-----------------------------------------------------------------------------
AmountsSound(k, row) ==
    /\ row.version \in Nat /\ row.approved \in Nat /\ row.paid \in Nat
    /\ row.paid <= row.approved /\ row.approved <= Claimed[k]

\* The events of a claim lead up to its status, one for every version.
HistorySound(row, events) ==
    /\ \A e \in events :
          e.at \in Nat /\ e.at < row.version /\ (e.at + 1 = row.version => e.to = row.status)
    /\ \A e, f \in events : (f.at = e.at + 1 => f.from = e.to) /\ (e.at = f.at => e = f)

\* What a request has read of a claim is what the row says, or the row has moved on.
SeenSound(w, rows) ==
    w.op = "move" =>
       /\ w.on \in Claims /\ w.seen.version \in Nat
       /\ w.seen.version <= rows[w.on].version
       /\ w.seen.version = rows[w.on].version => w.seen = rows[w.on]

ClaimsInv ==
    /\ DOMAIN claim = Claims /\ claimEvents = [k \in Claims |-> claimEvents[k]]
    /\ DOMAIN assessor = Assessors
    /\ \A k \in Claims : AmountsSound(k, claim[k]) /\ HistorySound(claim[k], claimEvents[k])
    /\ \A c \in Assessors : SeenSound(assessor[c], claim)

\* A request that turns to something else leaves the claims as they are.
LEMMA AssessorsRead ==
    ASSUME ClaimsInv, UNCHANGED <<claim, claimEvents>>, NEW c \in Assessors, NEW w,
           assessor' = [assessor EXCEPT ![c] = w], SeenSound(w, claim)
    PROVE  ClaimsInv'
<1>1. \A b \in Assessors : assessor'[b] = assessor[b] \/ assessor'[b] = w
  BY DEF ClaimsInv
<1>2. \A b \in Assessors : SeenSound(assessor'[b], claim)
  BY <1>1 DEF ClaimsInv
<1>3. DOMAIN assessor' = Assessors
  BY DEF ClaimsInv
<1> QED BY <1>2, <1>3 DEF ClaimsInv, AmountsSound, HistorySound, SeenSound

\* A claim is written with a higher version, in keeping with its amounts and events.
LEMMA ClaimWritten ==
    ASSUME ClaimsInv, NEW c \in Assessors, NEW k \in Claims, NEW row, NEW events,
           assessor' = [assessor EXCEPT ![c] = AssessorIdle],
           claim' = [claim EXCEPT ![k] = row], claimEvents' = [claimEvents EXCEPT ![k] = events],
           row.version > claim[k].version, AmountsSound(k, row), HistorySound(row, events)
    PROVE  ClaimsInv'
<1>1. DOMAIN claim' = Claims /\ claimEvents' = [x \in Claims |-> claimEvents'[x]]
      /\ DOMAIN assessor' = Assessors
  BY DEF ClaimsInv
<1>2. /\ claim'[k] = row /\ claimEvents'[k] = events
      /\ \A x \in Claims : x # k => claim'[x] = claim[x] /\ claimEvents'[x] = claimEvents[x]
  BY DEF ClaimsInv
<1>3. \A x \in Claims :
         AmountsSound(x, claim'[x]) /\ HistorySound(claim'[x], claimEvents'[x])
  BY <1>2 DEF ClaimsInv
<1>4. claim[k].version \in Nat /\ row.version \in Nat
  BY DEF ClaimsInv, AmountsSound
<1>5. \A b \in Assessors : assessor'[b] = assessor[b] \/ assessor'[b].op = "idle"
  BY DEF ClaimsInv, AssessorIdle
<1>6. ASSUME NEW w, SeenSound(w, claim)
      PROVE  SeenSound(w, claim')
  <2> SUFFICES ASSUME w.op = "move"
               PROVE  /\ w.on \in Claims /\ w.seen.version \in Nat
                      /\ w.seen.version <= claim'[w.on].version
                      /\ w.seen.version = claim'[w.on].version => w.seen = claim'[w.on]
    BY DEF SeenSound
  <2> DEFINE x == w.on
             n == w.seen.version
  <2>1. /\ x \in Claims /\ n \in Nat /\ n <= claim[x].version
        /\ n = claim[x].version => w.seen = claim[x]
    BY <1>6 DEF SeenSound
  <2> HIDE DEF x, n
  <2>2. n <= claim'[x].version /\ (n = claim'[x].version => w.seen = claim'[x])
    <3>1. CASE x = k
      BY <1>2, <1>4, <2>1, <3>1
    <3>2. CASE x # k
      BY <1>2, <2>1, <3>2
    <3> QED BY <3>1, <3>2
  <2> QED BY <2>1, <2>2 DEF x, n
<1>7. \A b \in Assessors : SeenSound(assessor'[b], claim')
  <2> SUFFICES ASSUME NEW b \in Assessors PROVE SeenSound(assessor'[b], claim')
    OBVIOUS
  <2>1. CASE assessor'[b] = assessor[b]
    BY <1>6, <2>1 DEF ClaimsInv
  <2>2. CASE assessor'[b].op = "idle"
    BY <2>2 DEF SeenSound
  <2> QED BY <1>5, <2>1, <2>2
<1> QED BY <1>1, <1>3, <1>7 DEF ClaimsInv, AmountsSound, HistorySound, SeenSound

\* A transition is checked on what was read, and written only over that
\* (transitionInsuranceClaim).
LEMMA ClaimMovesSound ==
    ASSUME ClaimsInv, NEW c \in Assessors, NEW k \in Claims,
           NEW approval \in Amounts \cup {None}, NEW payment \in Amounts \cup {None},
           TransitionClaim(c, k, approval, payment)
    PROVE  ClaimsInv'
<1> DEFINE seen == assessor[c].seen
           next == assessor[c].next
           approved == IF approval = None THEN seen.approved ELSE approval
           paid == IF payment = None THEN seen.paid ELSE payment
           row == [status |-> next, version |-> claim[k].version + 1,
                   approved |-> IF approval = None THEN claim[k].approved ELSE approval,
                   paid |-> IF payment = None THEN claim[k].paid ELSE payment]
           event == [at |-> claim[k].version, from |-> seen.status, to |-> next]
<1>1. assessor[c].op = "move" /\ assessor[c].on = k
      /\ assessor' = [assessor EXCEPT ![c] = AssessorIdle]
  BY DEF TransitionClaim, AssessorWrites
<1>2. CASE UNCHANGED <<claim, claimEvents>>
  BY <1>1, <1>2, AssessorsRead DEF SeenSound, AssessorIdle
<1>3. CASE ~UNCHANGED <<claim, claimEvents>>
  <2>1. /\ approved <= Claimed[k] /\ paid <= approved /\ ClaimTaken(c, k)
        /\ claim' = [claim EXCEPT ![k] = row]
        /\ claimEvents' = [claimEvents EXCEPT ![k] = claimEvents[k] \cup {event}]
    BY <1>3 DEF TransitionClaim
  <2>2. seen = claim[k]
    BY <1>1, <2>1 DEF ClaimsInv, SeenSound, ClaimTaken
  <2>3. AmountsSound(k, claim[k]) /\ HistorySound(claim[k], claimEvents[k])
    BY DEF ClaimsInv
  <2>4. row.version = claim[k].version + 1 /\ row.approved = approved /\ row.paid = paid
        /\ row.status = next
    BY <2>2
  <2>5. claim[k].version \in Nat /\ approved \in Nat /\ paid \in Nat
    BY <2>2, <2>3, InsuranceAssumption DEF AmountsSound
  <2>6. event.at = claim[k].version /\ event.to = next /\ event.from = claim[k].status
    BY <2>2
  <2> HIDE DEF row, event, approved, paid, seen, next
  <2>7. row.version > claim[k].version /\ row.version \in Nat
    BY <2>4, <2>5
  <2>8. AmountsSound(k, row)
    BY <2>1, <2>4, <2>5, <2>7 DEF AmountsSound
  <2>9. HistorySound(row, claimEvents[k] \cup {event})
    <3> DEFINE v == claim[k].version
               events == claimEvents[k]
    <3>0. event.at = v /\ v \in Nat /\ row.version = v + 1 /\ event.from = claim[k].status
      BY <2>4, <2>5, <2>6
    <3>1. \A e \in events : e.at \in Nat /\ e.at < v /\ (e.at + 1 = v => e.to = claim[k].status)
      BY <2>3 DEF HistorySound
    <3>2. \A e, f \in events : (f.at = e.at + 1 => f.from = e.to) /\ (e.at = f.at => e = f)
      BY <2>3 DEF HistorySound
    <3> HIDE DEF v, events
    <3>3. \A e \in events \cup {event} :
             e.at \in Nat /\ e.at < row.version /\ (e.at + 1 = row.version => e.to = row.status)
      <4> SUFFICES ASSUME NEW e \in events \cup {event}
                   PROVE  /\ e.at \in Nat /\ e.at < row.version
                          /\ e.at + 1 = row.version => e.to = row.status
        OBVIOUS
      <4>1. CASE e = event
        BY <2>4, <2>6, <3>0, <4>1
      <4>2. CASE e \in events
        BY <3>0, <3>1, <4>2
      <4> QED BY <4>1, <4>2
    <3>4. ASSUME NEW e \in events \cup {event}, NEW f \in events \cup {event}
          PROVE  (f.at = e.at + 1 => f.from = e.to) /\ (e.at = f.at => e = f)
      <4>1. CASE e \in events /\ f \in events
        BY <3>2, <4>1
      <4>2. CASE e = event /\ f = event
        BY <3>0, <4>2
      <4>3. CASE e \in events /\ f = event
        BY <3>0, <3>1, <4>3
      <4>4. CASE e = event /\ f \in events
        BY <3>0, <3>1, <4>4
      <4> QED BY <4>1, <4>2, <4>3, <4>4
    <3> QED BY <3>3, <3>4 DEF HistorySound, events
  <2> QED BY <1>1, <2>1, <2>7, <2>8, <2>9, ClaimWritten
<1> QED BY <1>2, <1>3

\* A claim is created once (createInsuranceClaim).
LEMMA CreationSound ==
    ASSUME ClaimsInv, NEW c \in Assessors, NEW k \in Claims, CreateClaim(c, k)
    PROVE  ClaimsInv'
<1> DEFINE row == [NoClaim EXCEPT !.status = "DRAFT", !.version = 1]
<1>1. assessor' = [assessor EXCEPT ![c] = AssessorIdle]
  BY DEF CreateClaim, AssessorWrites
<1>2. CASE UNCHANGED claim
  BY <1>1, <1>2, AssessorsRead DEF SeenSound, AssessorIdle, CreateClaim
<1>3. CASE ~UNCHANGED claim
  <2>1. claim[k] = NoClaim /\ claim' = [claim EXCEPT ![k] = row] /\ claimEvents' = claimEvents
    BY <1>3 DEF CreateClaim
  <2>2. claimEvents' = [claimEvents EXCEPT ![k] = claimEvents[k]]
    <3>1. claimEvents = [x \in Claims |-> claimEvents[x]]
      BY DEF ClaimsInv
    <3> QED BY <2>1, <3>1
  <2>3. row.version = 1 /\ row.approved = 0 /\ row.paid = 0
    BY DEF NoClaim
  <2>4. claim[k].version = 0
    BY <2>1 DEF NoClaim
  <2>5. HistorySound(claim[k], claimEvents[k]) /\ Claimed[k] \in Nat
    BY InsuranceAssumption DEF ClaimsInv
  <2>6. claimEvents[k] = {}
    BY <2>4, <2>5 DEF HistorySound
  <2> HIDE DEF row
  <2>7. AmountsSound(k, row) /\ HistorySound(row, claimEvents[k])
    BY <2>3, <2>5, <2>6 DEF AmountsSound, HistorySound
  <2>8. row.version > claim[k].version
    BY <2>3, <2>4
  <2> QED BY <1>1, <2>1, <2>2, <2>7, <2>8, ClaimWritten
<1> QED BY <1>2, <1>3

LEMMA InsuranceClaimsKept ==
    ASSUME ClaimsInv, [InsuranceNext]_insuranceVars
    PROVE  ClaimsInv'
<1>s. ASSUME UNCHANGED <<claim, claimEvents, assessor>>
      PROVE  ClaimsInv'
  BY <1>s DEF ClaimsInv, AmountsSound, HistorySound, SeenSound
<1>1. CASE \/ ExpireQuotes \/ ExpirePolicies
           \/ \E q \in CoverQuotes : CreateInsuranceQuote(q) \/ PayPremium(q) \/ Passes(q)
  BY <1>s, <1>1 DEF ExpireQuotes, ExpirePolicies, CreateInsuranceQuote, PayPremium, Passes
<1>2. ASSUME NEW c \in Assessors, NEW q \in CoverQuotes, AcceptCoverRead(c, q)
      PROVE  ClaimsInv'
  <2> DEFINE w == [op |-> "accept", on |-> q, seen |-> NoClaim, next |-> "NONE"]
  <2>1. assessor' = [assessor EXCEPT ![c] = w] /\ UNCHANGED <<claim, claimEvents>>
    BY <1>2 DEF AcceptCoverRead, AssessorReads
  <2>2. SeenSound(w, claim)
    BY DEF SeenSound
  <2> HIDE DEF w
  <2> QED BY <2>1, <2>2, AssessorsRead
<1>3. ASSUME NEW c \in Assessors, NEW q \in CoverQuotes, AcceptCover(c, q)
      PROVE  ClaimsInv'
  <2>1. assessor' = [assessor EXCEPT ![c] = AssessorIdle] /\ UNCHANGED <<claim, claimEvents>>
    BY <1>3 DEF AcceptCover, AssessorWrites
  <2>2. SeenSound(AssessorIdle, claim)
    BY DEF SeenSound, AssessorIdle
  <2> QED BY <2>1, <2>2, AssessorsRead
<1>4. ASSUME NEW c \in Assessors, NEW k \in Claims, CreateClaimRead(c, k)
      PROVE  ClaimsInv'
  <2> DEFINE w == [op |-> "claim", on |-> k, seen |-> NoClaim, next |-> "NONE"]
  <2>1. assessor' = [assessor EXCEPT ![c] = w] /\ UNCHANGED <<claim, claimEvents>>
    BY <1>4 DEF CreateClaimRead, AssessorReads
  <2>2. SeenSound(w, claim)
    BY DEF SeenSound
  <2> HIDE DEF w
  <2> QED BY <2>1, <2>2, AssessorsRead
<1>5. ASSUME NEW c \in Assessors, NEW k \in Claims,
             NEW next \in {move[2] : move \in ClaimMoves}, TransitionClaimRead(c, k, next)
      PROVE  ClaimsInv'
  <2> DEFINE w == [op |-> "move", on |-> k, seen |-> claim[k], next |-> next]
  <2>1. assessor' = [assessor EXCEPT ![c] = w] /\ UNCHANGED <<claim, claimEvents>>
    BY <1>5 DEF TransitionClaimRead, AssessorReads
  <2>2. claim[k].version \in Nat
    BY DEF ClaimsInv, AmountsSound
  <2>3. SeenSound(w, claim)
    BY <2>2 DEF SeenSound
  <2> HIDE DEF w
  <2> QED BY <2>1, <2>3, AssessorsRead
<1>6. CASE UNCHANGED insuranceVars
  BY <1>s, <1>6 DEF insuranceVars
<1> QED BY <1>1, <1>2, <1>3, <1>4, <1>5, <1>6, CreationSound, ClaimMovesSound
        DEF InsuranceNext

LEMMA ClaimsHold == InsuranceSpec => []ClaimsInv
<1>1. InsuranceInit => ClaimsInv
  <2> SUFFICES ASSUME InsuranceInit PROVE ClaimsInv
    OBVIOUS
  <2>1. \A k \in Claims : claim[k] = NoClaim /\ claimEvents[k] = {} /\ Claimed[k] \in Nat
    BY InsuranceAssumption DEF InsuranceInit
  <2>2. \A k \in Claims : AmountsSound(k, claim[k]) /\ HistorySound(claim[k], claimEvents[k])
    BY <2>1 DEF AmountsSound, HistorySound, NoClaim
  <2>3. \A c \in Assessors : SeenSound(assessor[c], claim)
    BY DEF InsuranceInit, SeenSound, AssessorIdle
  <2> QED BY <2>2, <2>3 DEF InsuranceInit, ClaimsInv
<1> QED BY <1>1, InsuranceClaimsKept, PTL DEF InsuranceSpec

\* What is paid was approved and what is approved was claimed
\* (transitionInsuranceClaim).
THEOREM PaymentsApproved == InsuranceSpec => []PaidWithinApproved
<1>1. ClaimsInv => PaidWithinApproved
  BY DEF ClaimsInv, AmountsSound, PaidWithinApproved
<1> QED BY <1>1, ClaimsHold, PTL

\* The events of a claim are one history (transitionInsuranceClaim).
THEOREM HistoriesConnected == InsuranceSpec => []ClaimHistoryConnected
<1>1. ClaimsInv => ClaimHistoryConnected
  BY DEF ClaimsInv, HistorySound, ClaimHistoryConnected
<1> QED BY <1>1, ClaimsHold, PTL
-----------------------------------------------------------------------------
(***************************************************************************)
(* Consolidation and the deliveries of partners.                           *)
(***************************************************************************)

\* A transition writes over the version it read, and it read a move of the plan.
PlanSeen(w, current) ==
    w.op = "move" =>
       /\ w.plan.version \in Nat /\ w.plan.version <= current.version
       /\ w.plan.version = current.version => w.plan = current
       /\ <<w.plan.status, w.on>> \in PlanMoves

PlanInv ==
    /\ plan.version \in Nat /\ DOMAIN planner = Planners
    /\ \A c \in Planners : PlanSeen(planner[c], plan)

\* A plan that changes gets a new version.
PlanMovesOn == plan' = plan \/ (plan'.version \in Nat /\ plan'.version > plan.version)

LEMMA PlannersGoOn ==
    ASSUME PlanInv, PlanMovesOn, DOMAIN planner' = Planners,
           \A c \in Planners :
              \/ planner'[c] \in {planner[c], PlannerIdle}
              \/ PlanSeen(planner'[c], plan) /\ plan' = plan
    PROVE  PlanInv'
<1>1. plan'.version \in Nat /\ plan.version \in Nat
  BY DEF PlanInv, PlanMovesOn
<1>2. ASSUME NEW w, PlanSeen(w, plan)
      PROVE  PlanSeen(w, plan')
  BY <1>1, <1>2 DEF PlanSeen, PlanMovesOn
<1>3. PlanSeen(PlannerIdle, plan')
  BY DEF PlanSeen, PlannerIdle
<1>4. \A c \in Planners : PlanSeen(planner'[c], plan')
  BY <1>2, <1>3 DEF PlanInv
<1> QED BY <1>1, <1>4 DEF PlanInv, PlanSeen

LEMMA PlanKept ==
    ASSUME PlanInv, [ConsolidationNext]_consolidationVars
    PROVE  PlanInv'
<1>s. ASSUME UNCHANGED <<plan, planner>>
      PROVE  PlanInv'
  BY <1>s DEF PlanInv, PlanSeen
<1>r. ASSUME NEW c \in Planners, NEW op, NEW x, NEW rows, PlannerReads(c, op, x, rows),
             op = "move" => <<plan.status, x>> \in PlanMoves
      PROVE  PlanInv'
  <2> DEFINE w == [op |-> op, on |-> x, plan |-> plan, rows |-> rows]
  <2>1. planner' = [planner EXCEPT ![c] = w] /\ plan' = plan
    BY <1>r DEF PlannerReads
  <2>2. PlanSeen(w, plan)
    BY <1>r DEF PlanSeen, PlanInv
  <2> HIDE DEF w
  <2>3. DOMAIN planner' = Planners /\ \A b \in Planners : planner'[b] \in {planner[b], w}
    BY <2>1 DEF PlanInv
  <2> QED BY <2>1, <2>2, <2>3, PlannersGoOn DEF PlanMovesOn
<1>w. ASSUME NEW c \in Planners, NEW op, NEW x, PlannerWrites(c, op, x), PlanMovesOn
      PROVE  PlanInv'
  <2>1. DOMAIN planner' = Planners
        /\ \A b \in Planners : planner'[b] \in {planner[b], PlannerIdle}
    BY <1>w DEF PlannerWrites, PlanInv
  <2> QED BY <1>w, <2>1, PlannersGoOn
<1>1. CASE \/ CutoffPasses \/ (\E w \in CutoffSweepers : CutoffSweep(w))
           \/ \E u \in Units : FillUnit(u) \/ VerifyVgm(u)
  BY <1>s, <1>1 DEF CutoffPasses, CutoffSweep, CutoffLook, CutoffReport, FillUnit, VerifyVgm
<1>2. ASSUME NEW c \in Planners, NEW b \in Members, AddMemberRead(c, b)
      PROVE  PlanInv'
  BY <1>r, <1>2 DEF AddMemberRead
<1>3. ASSUME NEW c \in Planners, NEW b \in Members, AddMember(c, b)
      PROVE  PlanInv'
  <2>1. PlanMovesOn
    BY <1>3 DEF AddMember, PlanMovesOn, PlanInv
  <2> QED BY <1>w, <1>3, <2>1 DEF AddMember
<1>4. ASSUME NEW c \in Planners, NEW u \in Units, AddLoadRead(c, u)
      PROVE  PlanInv'
  BY <1>r, <1>4 DEF AddLoadRead
<1>5. ASSUME NEW c \in Planners, NEW u \in Units, AddLoad(c, u)
      PROVE  PlanInv'
  BY <1>w, <1>5 DEF AddLoad, PlanMovesOn
<1>6. ASSUME NEW c \in Planners, NEW next \in {move[2] : move \in PlanMoves},
             TransitionPlanRead(c, next)
      PROVE  PlanInv'
  BY <1>r, <1>6 DEF TransitionPlanRead
<1>7. ASSUME NEW c \in Planners, NEW next \in {move[2] : move \in PlanMoves},
             TransitionPlan(c, next)
      PROVE  PlanInv'
  <2>1. PlanMovesOn
    BY <1>7 DEF TransitionPlan, PlanMovesOn, PlanInv
  <2> QED BY <1>w, <1>7, <2>1 DEF TransitionPlan
<1>8. CASE UNCHANGED consolidationVars
  BY <1>s, <1>8 DEF consolidationVars
<1> QED BY <1>1, <1>2, <1>3, <1>4, <1>5, <1>6, <1>7, <1>8 DEF ConsolidationNext

\* A departed plan goes back to OPEN only by the write of a request that read it
\* as a DRAFT (addConsolidationMember, transitionConsolidation).
THEOREM DepartedStaysOutside == ConsolidationSpec => DepartedReopenedOnlyByAMember
<1> DEFINE Kept == (plan.status \in {"DEPARTED", "ARRIVED"} /\ plan'.status = "OPEN") =>
       \E c \in Planners : planner[c].op = "member" /\ planner[c].plan.status = "DRAFT"
<1>1. ConsolidationInit => PlanInv
  BY DEF ConsolidationInit, PlanInv, PlanSeen, PlannerIdle
<1>2. ASSUME PlanInv, [ConsolidationNext]_consolidationVars
      PROVE  Kept
  <2> SUFFICES ASSUME plan.status \in {"DEPARTED", "ARRIVED"}, plan'.status = "OPEN"
               PROVE  \E c \in Planners :
                         planner[c].op = "member" /\ planner[c].plan.status = "DRAFT"
    OBVIOUS
  <2>0. plan' # plan
    OBVIOUS
  <2>1. CASE \/ CutoffPasses \/ (\E w \in CutoffSweepers : CutoffSweep(w))
             \/ \E u \in Units : FillUnit(u) \/ VerifyVgm(u)
    BY <2>0, <2>1 DEF CutoffPasses, CutoffSweep, CutoffLook, CutoffReport, FillUnit, VerifyVgm
  <2>2. ASSUME NEW c \in Planners, NEW b \in Members, AddMember(c, b)
        PROVE  planner[c].op = "member" /\ planner[c].plan.status = "DRAFT"
    BY <2>0, <2>2 DEF AddMember, PlannerWrites
  <2>3. ASSUME NEW c \in Planners, NEW next \in {move[2] : move \in PlanMoves},
               TransitionPlan(c, next)
        PROVE  FALSE
    <3>1. PlanClaimed(c) /\ next = "OPEN" /\ planner[c].op = "move" /\ planner[c].on = next
      BY <2>0, <2>3 DEF TransitionPlan, PlannerWrites
    <3>2. <<plan.status, "OPEN">> \in PlanMoves
      BY <1>2, <3>1 DEF PlanClaimed, PlanInv, PlanSeen
    <3> QED BY <3>2 DEF PlanMoves
  <2>4. ASSUME NEW c \in Planners,
               \/ \E b \in Members : AddMemberRead(c, b)
               \/ \E u \in Units : AddLoadRead(c, u) \/ AddLoad(c, u)
               \/ \E next \in {move[2] : move \in PlanMoves} : TransitionPlanRead(c, next)
        PROVE  FALSE
    BY <2>0, <2>4 DEF AddMemberRead, AddLoadRead, AddLoad, TransitionPlanRead, PlannerReads
  <2>5. CASE UNCHANGED consolidationVars
    BY <2>0, <2>5 DEF consolidationVars
  <2> QED BY <1>2, <2>1, <2>2, <2>3, <2>4, <2>5 DEF ConsolidationNext
<1>3. (PlanInv /\ [ConsolidationNext]_consolidationVars) => [Kept]_consolidationVars
  BY <1>2
<1>4. DepartedReopenedOnlyByAMember <=> [][Kept]_consolidationVars
  BY DEF DepartedReopenedOnlyByAMember
<1>5. PlanInv /\ [ConsolidationNext]_consolidationVars => PlanInv'
  BY PlanKept
<1> HIDE DEF Kept
<1> QED BY <1>1, <1>3, <1>4, <1>5, PTL DEF ConsolidationSpec

\* Schedulers read deliveries that wait.
SenderFormed(s) ==
    s = [at |-> s.at, batch |-> s.batch, on |-> s.on, attempts |-> s.attempts]

BatchesInv ==
    /\ DOMAIN sender = Senders /\ DOMAIN delivery = Deliveries
    /\ \A w \in Senders : SenderFormed(sender[w])
    /\ \A w \in Senders : \A seen \in sender[w].batch :
          seen.on \in Deliveries /\ seen.status \in {"PENDING", "RETRYING", "PROCESSING"}

\* A scheduler keeps its shape when its batch changes.
LEMMA SenderKeeps ==
    ASSUME NEW s, SenderFormed(s), NEW rest, NEW next, next = [s EXCEPT !.batch = rest]
    PROVE  next.batch = rest /\ SenderFormed(next)
<1>1. /\ next.batch = rest /\ next.at = s.at /\ next.on = s.on /\ next.attempts = s.attempts
      /\ next = [at |-> s.at, batch |-> rest, on |-> s.on, attempts |-> s.attempts]
  BY DEF SenderFormed
<1> QED BY <1>1 DEF SenderFormed

LEMMA BatchesKept ==
    ASSUME BatchesInv, [PartnerNext]_partnerVars
    PROVE  BatchesInv'
<1>s. ASSUME sender' = sender, DOMAIN delivery' = Deliveries
      PROVE  BatchesInv'
  BY <1>s DEF BatchesInv, SenderFormed
<1>b. ASSUME NEW w \in Senders, NEW next, sender' = [sender EXCEPT ![w] = next],
             DOMAIN delivery' = Deliveries, SenderFormed(next),
             \A seen \in next.batch :
                seen.on \in Deliveries /\ seen.status \in {"PENDING", "RETRYING", "PROCESSING"}
      PROVE  BatchesInv'
  <2>1. DOMAIN sender' = Senders /\ \A v \in Senders : sender'[v] = sender[v] \/ sender'[v] = next
    BY <1>b DEF BatchesInv
  <2>2. \A v \in Senders : SenderFormed(sender'[v])
    BY <1>b, <2>1 DEF BatchesInv
  <2> QED BY <1>b, <2>1, <2>2 DEF BatchesInv, SenderFormed
<1>1. ASSUME NEW c \in Shops, ShopCrash(c)
      PROVE  BatchesInv'
  BY <1>s, <1>1 DEF ShopCrash, BatchesInv
<1>2. ASSUME NEW c \in Shops, NEW o \in Orders,
             SubmitRead(c, o) \/ Submit(c, o) \/ FulfillRead(c, o) \/ Fulfill(c, o)
      PROVE  BatchesInv'
  BY <1>s, <1>2 DEF SubmitRead, Submit, FulfillRead, Fulfill, BatchesInv
<1>3. ASSUME NEW c \in Shops, NEW o \in Orders, NEW d \in Deliveries, EnqueueWebhook(c, o, d)
      PROVE  BatchesInv'
  BY <1>s, <1>3 DEF EnqueueWebhook, BatchesInv
<1>4. ASSUME NEW d \in Deliveries, ComesDue(d)
      PROVE  BatchesInv'
  BY <1>s, <1>4 DEF ComesDue, BatchesInv
<1>5. ASSUME NEW d \in Deliveries, NEW new \in Deliveries, ReplayWebhook(d, new)
      PROVE  BatchesInv'
  BY <1>s, <1>5 DEF ReplayWebhook, BatchesInv
<1>6. ASSUME NEW w \in Senders, ReadBatch(w)
      PROVE  BatchesInv'
  <2> DEFINE batch == {[on |-> d, status |-> delivery[d].status,
                        attempts |-> delivery[d].attempts] :
                           d \in {x \in Deliveries : Waiting(x)}}
             next == [SenderIdle EXCEPT !.at = "loop", !.batch = batch]
  <2>1. sender' = [sender EXCEPT ![w] = next] /\ DOMAIN delivery' = Deliveries
    BY <1>6 DEF ReadBatch, BatchesInv
  <2>2. next.batch = batch /\ SenderFormed(next)
    <3>1. PICK s : s = [SenderIdle EXCEPT !.at = "loop"]
      OBVIOUS
    <3>2. SenderFormed(s)
      BY <3>1 DEF SenderIdle, SenderFormed
    <3>3. next = [s EXCEPT !.batch = batch]
      BY <3>1
    <3> HIDE DEF batch, next
    <3> QED BY <3>2, <3>3, SenderKeeps
  <2>3. \A seen \in batch :
           seen.on \in Deliveries /\ seen.status \in {"PENDING", "RETRYING", "PROCESSING"}
    BY DEF Waiting
  <2> HIDE DEF batch, next
  <2> QED BY <1>b, <2>1, <2>2, <2>3
<1>7. ASSUME NEW w \in Senders, ClaimDelivery(w)
      PROVE  BatchesInv'
  <2>1. DOMAIN delivery' = Deliveries
    BY <1>7 DEF ClaimDelivery, BatchesInv
  <2>2. PICK seen \in sender[w].batch :
           sender' \in {[sender EXCEPT ![w] = [at |-> "post", batch |-> sender[w].batch \ {seen},
                                               on |-> seen.on, attempts |-> seen.attempts + 1]],
                        [sender EXCEPT ![w].batch = sender[w].batch \ {seen}]}
    BY <1>7 DEF ClaimDelivery
  <2>3. PICK next : /\ sender' = [sender EXCEPT ![w] = next] /\ SenderFormed(next)
                    /\ next.batch = sender[w].batch \ {seen}
    <3> DEFINE rest == sender[w].batch \ {seen}
               posts == [at |-> "post", batch |-> rest, on |-> seen.on,
                         attempts |-> seen.attempts + 1]
               skips == [sender[w] EXCEPT !.batch = rest]
    <3>1. posts.batch = rest /\ SenderFormed(posts)
      BY DEF SenderFormed
    <3>2. skips.batch = rest /\ SenderFormed(skips)
      <4>1. SenderFormed(sender[w])
        BY DEF BatchesInv
      <4> QED BY <4>1, SenderKeeps
    <3>3. sender' \in {[sender EXCEPT ![w] = posts], [sender EXCEPT ![w] = skips]}
      BY <2>2
    <3> HIDE DEF posts, skips
    <3> QED BY <3>1, <3>2, <3>3
  <2>4. \A x \in next.batch : x \in sender[w].batch
    BY <2>3
  <2>5. \A x \in next.batch :
           x.on \in Deliveries /\ x.status \in {"PENDING", "RETRYING", "PROCESSING"}
    BY <2>4 DEF BatchesInv
  <2> QED BY <1>b, <2>1, <2>3, <2>5
<1>8. ASSUME NEW w \in Senders, BatchDone(w) \/ SenderCrash(w)
      PROVE  BatchesInv'
  <2>1. sender' = [sender EXCEPT ![w] = SenderIdle] /\ DOMAIN delivery' = Deliveries
    BY <1>8 DEF BatchDone, SenderCrash, BatchesInv
  <2>2. SenderIdle.batch = {} /\ SenderFormed(SenderIdle)
    BY DEF SenderIdle, SenderFormed
  <2> QED BY <1>b, <2>1, <2>2
<1>9. ASSUME NEW w \in Senders, PostAccepted(w) \/ PostFails(w) \/ MarkDelivered(w) \/ MarkFailed(w)
      PROVE  BatchesInv'
  <2>1. DOMAIN delivery' = Deliveries
    BY <1>9 DEF PostAccepted, PostFails, MarkDelivered, MarkFailed, BatchesInv
  <2>2. PICK next : /\ sender' = [sender EXCEPT ![w] = next]
                    /\ \/ next = [sender[w] EXCEPT !.at = "accepted"]
                       \/ next = [sender[w] EXCEPT !.at = "failed"]
                       \/ next = [sender[w] EXCEPT !.at = "loop", !.on = None, !.attempts = 0]
    BY <1>9 DEF PostAccepted, PostFails, MarkDelivered, MarkFailed, BackToLoop
  <2>3. SenderFormed(sender[w])
    BY DEF BatchesInv
  <2>4. next.batch = sender[w].batch /\ SenderFormed(next)
    BY <2>2, <2>3 DEF SenderFormed
  <2>5. \A x \in next.batch :
           x.on \in Deliveries /\ x.status \in {"PENDING", "RETRYING", "PROCESSING"}
    BY <2>4 DEF BatchesInv
  <2> QED BY <1>b, <2>1, <2>2, <2>4, <2>5
<1>10. CASE UNCHANGED partnerVars
  BY <1>s, <1>10 DEF partnerVars, BatchesInv
<1> QED BY <1>1, <1>2, <1>3, <1>4, <1>5, <1>6, <1>7, <1>8, <1>9, <1>10
        DEF PartnerNext, SenderStep

\* What became of a delivery is final, whoever else still had it
\* (processDeliveries).
THEOREM OutcomesFinal == PartnerInit /\ [][PartnerNext]_partnerVars => OutcomeFinal
<1> DEFINE Final == \A d \in Deliveries :
       delivery[d].status \in {"DELIVERED", "DEAD_LETTER"} =>
          delivery'[d].status = delivery[d].status
<1>1. PartnerInit => BatchesInv
  <2>1. SenderFormed(SenderIdle) /\ SenderIdle.batch = {}
    BY DEF SenderIdle, SenderFormed
  <2> QED BY <2>1 DEF PartnerInit, BatchesInv
<1>2. ASSUME BatchesInv, [PartnerNext]_partnerVars
      PROVE  Final
  <2> SUFFICES ASSUME NEW d \in Deliveries, delivery[d].status \in {"DELIVERED", "DEAD_LETTER"}
               PROVE  delivery'[d].status = delivery[d].status
    OBVIOUS
  <2>1. ASSUME NEW c \in Shops,
               \/ ShopCrash(c)
               \/ \E o \in Orders :
                     SubmitRead(c, o) \/ Submit(c, o) \/ FulfillRead(c, o) \/ Fulfill(c, o)
        PROVE  delivery' = delivery
    BY <2>1 DEF ShopCrash, SubmitRead, Submit, FulfillRead, Fulfill
  <2>2. ASSUME NEW c \in Shops, NEW o \in Orders, NEW x \in Deliveries, EnqueueWebhook(c, o, x)
        PROVE  delivery'[d] = delivery[d]
    BY <1>2, <2>2 DEF EnqueueWebhook, BatchesInv, NoDelivery
  <2>3. ASSUME NEW x \in Deliveries, ComesDue(x)
        PROVE  delivery'[d].status = delivery[d].status
    BY <1>2, <2>3 DEF ComesDue, BatchesInv
  <2>4. ASSUME NEW x \in Deliveries, NEW new \in Deliveries, ReplayWebhook(x, new)
        PROVE  delivery'[d] = delivery[d]
    BY <1>2, <2>4 DEF ReplayWebhook, BatchesInv, NoDelivery
  <2>5. ASSUME NEW w \in Senders,
               ReadBatch(w) \/ BatchDone(w) \/ PostAccepted(w) \/ PostFails(w) \/ SenderCrash(w)
        PROVE  delivery' = delivery
    BY <2>5 DEF ReadBatch, BatchDone, PostAccepted, PostFails, SenderCrash
  <2>6. ASSUME NEW w \in Senders, ClaimDelivery(w)
        PROVE  delivery'[d] = delivery[d]
    <3>1. PICK seen \in sender[w].batch :
             \/ delivery' = delivery
             \/ /\ ClaimableDelivery(seen)
                /\ delivery' = [delivery EXCEPT
                       ![seen.on] = [@ EXCEPT !.status = "PROCESSING", !.due = FALSE,
                                              !.attempts = delivery[seen.on].attempts + 1]]
      BY <2>6 DEF ClaimDelivery
    <3>2. seen.status \notin {"DELIVERED", "DEAD_LETTER"}
      BY <1>2 DEF BatchesInv
    <3>3. ClaimableDelivery(seen) => seen.on # d
      BY <3>2 DEF ClaimableDelivery
    <3> QED BY <3>1, <3>3, <1>2 DEF BatchesInv
  <2>7. ASSUME NEW w \in Senders, MarkDelivered(w) \/ MarkFailed(w)
        PROVE  delivery'[d].status = delivery[d].status
    <3> DEFINE x == sender[w].on
    <3>1. CASE x = d
      <4>1. ~Open(d)
        BY DEF Open
      <4>2. CASE MarkDelivered(w)
        <5>1. delivery' = [delivery EXCEPT ![d].status = @]
          BY <3>1, <4>1, <4>2 DEF MarkDelivered
        <5> QED BY <1>2, <5>1 DEF BatchesInv
      <4>3. CASE MarkFailed(w)
        BY <3>1, <4>1, <4>3 DEF MarkFailed
      <4> QED BY <2>7, <4>2, <4>3
    <3>2. CASE x # d
      <4>1. PICK r : delivery' \in {delivery, [delivery EXCEPT ![x] = r]}
        BY <2>7 DEF MarkDelivered, MarkFailed
      <4> HIDE DEF x
      <4> QED BY <1>2, <3>2, <4>1 DEF BatchesInv
    <3> QED BY <3>1, <3>2
  <2>8. CASE UNCHANGED partnerVars
    BY <2>8 DEF partnerVars
  <2> QED BY <1>2, <2>1, <2>2, <2>3, <2>4, <2>5, <2>6, <2>7, <2>8 DEF PartnerNext, SenderStep
<1>3. (BatchesInv /\ [PartnerNext]_partnerVars) => [Final]_partnerVars
  BY <1>2
<1>4. OutcomeFinal <=> [][Final]_partnerVars
  BY DEF OutcomeFinal
<1>5. BatchesInv /\ [PartnerNext]_partnerVars => BatchesInv'
  BY BatchesKept
<1> HIDE DEF Final
<1> QED BY <1>1, <1>3, <1>4, <1>5, PTL
-----------------------------------------------------------------------------
(***************************************************************************)
(* Webhooks.                                                               *)
(***************************************************************************)

RowFormed(r) == r = [status |-> r.status, attempts |-> r.attempts, due |-> r.due,
                     about |-> r.about]

\* A row was given up after its attempts, and delivered after the endpoint had it.
RowSound(r, d) ==
    /\ RowFormed(r) /\ r.attempts \in Nat
    /\ r.status = "DEAD_LETTER" => r.attempts >= MaxAttempts
    /\ r.status = "DELIVERED" => posted[d] = 1

\* What a sender has read exists, and its attempts have only grown since.
SenderSound(s) ==
    /\ SenderFormed(s) /\ s.at \in {"idle", "loop", "post", "accepted", "failed"}
    /\ s.at \in {"idle", "loop"} => s.on = None
    /\ s.at \in {"post", "accepted", "failed"} =>
         /\ s.on \in Deliveries /\ s.attempts \in Nat
         /\ delivery[s.on].status # "NONE" /\ s.attempts <= delivery[s.on].attempts
    /\ s.at = "accepted" => posted[s.on] = 1
    /\ \A seen \in s.batch :
         /\ seen.on \in Deliveries /\ seen.attempts \in Nat
         /\ delivery[seen.on].status # "NONE" /\ seen.attempts <= delivery[seen.on].attempts

\* What is being posted is not due, and no batch that was read before the claim can
\* claim it again: the claim has counted an attempt.
PostedAlone(w) ==
    sender[w].on # None =>
       /\ delivery[sender[w].on].status = "PROCESSING" /\ ~delivery[sender[w].on].due
       /\ \A v \in Senders : \A seen \in sender[v].batch :
             seen.on = sender[w].on => seen.attempts < delivery[sender[w].on].attempts
       /\ \A v \in Senders : v # w => sender[v].on # sender[w].on

WebhooksInv ==
    /\ DOMAIN delivery = Deliveries /\ DOMAIN posted = Deliveries /\ DOMAIN sender = Senders
    /\ mishaps \in Nat
    /\ \A d \in Deliveries : RowSound(delivery[d], d)
    /\ \A w \in Senders : SenderSound(sender[w])
    /\ mishaps = 0 => \A w \in Senders : PostedAlone(w)

\* A mishap is counted, and from then on two senders may meet.
LEMMA MishapCounted == ASSUME WebhooksInv, Mishap PROVE mishaps' \in Nat /\ mishaps' # 0
BY DEF WebhooksInv, Mishap

\* A row that nobody has read, or one whose due time comes, is replaced.
LEMMA RowReplaced ==
    ASSUME WebhooksInv, NEW d \in Deliveries, NEW r, UNCHANGED <<posted, sender>>,
           delivery' = [delivery EXCEPT ![d] = r], mishaps' \in Nat, RowSound(r, d),
           \/ delivery[d].status = "NONE"
           \/ r.status # "NONE" /\ r.attempts = delivery[d].attempts,
           \/ mishaps' # 0
           \/ mishaps = 0 /\ mishaps' = 0 /\ \A w \in Senders : sender[w].on # d
           \/ mishaps # 0 /\ mishaps' = mishaps
    PROVE  WebhooksInv'
<1>1. \A x \in Deliveries : delivery'[x] = IF x = d THEN r ELSE delivery[x]
  BY DEF WebhooksInv
<1>2. \A x \in Deliveries : RowSound(delivery[x], x)' 
  BY <1>1 DEF WebhooksInv, RowSound, RowFormed
<1>3. \A w \in Senders : SenderSound(sender[w])'
  BY <1>1 DEF WebhooksInv, SenderSound, SenderFormed
<1>4. ASSUME mishaps' = 0, NEW w \in Senders PROVE PostedAlone(w)'
  <2>1. PostedAlone(w) /\ sender[w].on # d
    BY <1>4 DEF WebhooksInv
  <2>2. sender[w].on # None => sender[w].on \in Deliveries
    BY DEF WebhooksInv, SenderSound
  <2> QED BY <1>1, <2>1, <2>2 DEF PostedAlone
<1> QED BY <1>2, <1>3, <1>4 DEF WebhooksInv

\* A sender goes on without touching the rows.
LEMMA SenderReplaced ==
    ASSUME WebhooksInv, NEW w \in Senders, NEW s, UNCHANGED delivery,
           sender' = [sender EXCEPT ![w] = s], mishaps' \in Nat, mishaps' = 0 => mishaps = 0,
           DOMAIN posted' = Deliveries,
           \A d \in Deliveries : posted[d] = 1 => posted'[d] = 1,
           SenderSound(s)',
           s.on = None \/ s.on = sender[w].on,
           \A seen \in s.batch :
              \/ seen \in sender[w].batch
              \/ delivery[seen.on].due
    PROVE  WebhooksInv'
<1>1. \A v \in Senders : sender'[v] = IF v = w THEN s ELSE sender[v]
  BY DEF WebhooksInv
<1>2. \A x \in Deliveries : RowSound(delivery[x], x)'
  BY DEF WebhooksInv, RowSound, RowFormed
<1>3. \A v \in Senders : SenderSound(sender[v])'
  BY <1>1 DEF WebhooksInv, SenderSound, SenderFormed
<1>4. ASSUME mishaps' = 0, NEW v \in Senders PROVE PostedAlone(v)'
  <2>1. PostedAlone(v) /\ PostedAlone(w)
    BY <1>4 DEF WebhooksInv
  <2> QED BY <1>1, <2>1 DEF PostedAlone
<1> QED BY <1>2, <1>3, <1>4 DEF WebhooksInv

\* What a record is after an update of some of its fields.
LEMMA PosterRecord ==
    ASSUME NEW s, SenderFormed(s), NEW at, NEW t, t = [s EXCEPT !.at = at]
    PROVE  t = [at |-> at, batch |-> s.batch, on |-> s.on, attempts |-> s.attempts]
BY DEF SenderFormed

LEMMA SkippingRecord ==
    ASSUME NEW s, SenderFormed(s), NEW b, NEW t, t = [s EXCEPT !.batch = b]
    PROVE  t = [at |-> s.at, batch |-> b, on |-> s.on, attempts |-> s.attempts]
BY DEF SenderFormed

LEMMA LoopingRecord ==
    ASSUME NEW s, SenderFormed(s), NEW t,
           t = [s EXCEPT !.at = "loop", !.on = None, !.attempts = 0]
    PROVE  t = [at |-> "loop", batch |-> s.batch, on |-> None, attempts |-> 0]
BY DEF SenderFormed

LEMMA ClaimedRecord ==
    ASSUME NEW r, RowFormed(r), r.attempts \in Nat, NEW t,
           t = [r EXCEPT !.status = "PROCESSING", !.due = FALSE, !.attempts = @ + 1]
    PROVE  t = [status |-> "PROCESSING", attempts |-> r.attempts + 1, due |-> FALSE,
                about |-> r.about]
BY DEF RowFormed

LEMMA FailedRecord ==
    ASSUME NEW r, RowFormed(r), NEW status, NEW t, t = [r EXCEPT !.due = FALSE, !.status = status]
    PROVE  t = [status |-> status, attempts |-> r.attempts, due |-> FALSE, about |-> r.about]
BY DEF RowFormed

LEMMA SettledRecord ==
    ASSUME NEW r, RowFormed(r), NEW status, NEW t, t = [r EXCEPT !.status = status]
    PROVE  t = [status |-> status, attempts |-> r.attempts, due |-> r.due, about |-> r.about]
BY DEF RowFormed

LEMMA DueRecord ==
    ASSUME NEW r, RowFormed(r), NEW t, t = [r EXCEPT !.due = TRUE]
    PROVE  t = [status |-> r.status, attempts |-> r.attempts, due |-> TRUE, about |-> r.about]
BY DEF RowFormed

\* A claim counts an attempt, so no batch read before it can claim the delivery again.
LEMMA ClaimKept ==
    ASSUME WebhooksInv, NEW w \in Senders, ClaimDelivery(w)
    PROVE  WebhooksInv'
<1>1. PICK seen \in sender[w].batch :
        \/ /\ ClaimableDelivery(seen)
           /\ delivery' = [delivery EXCEPT
                 ![seen.on] = [@ EXCEPT !.status = "PROCESSING", !.due = FALSE,
                                        !.attempts = delivery[seen.on].attempts + 1]]
           /\ sender' = [sender EXCEPT ![w] =
                 [at |-> "post", batch |-> sender[w].batch \ {seen}, on |-> seen.on,
                  attempts |-> seen.attempts + 1]]
        \/ /\ sender' = [sender EXCEPT ![w].batch = sender[w].batch \ {seen}]
           /\ UNCHANGED delivery
  BY DEF ClaimDelivery
<1>2. UNCHANGED <<posted, mishaps>> /\ sender[w].at = "loop"
  BY DEF ClaimDelivery
<1>3. /\ SenderSound(sender[w]) /\ SenderFormed(sender[w]) /\ sender[w].on = None
      /\ mishaps \in Nat
  BY <1>2 DEF WebhooksInv, SenderSound
<1>4. CASE /\ sender' = [sender EXCEPT ![w].batch = sender[w].batch \ {seen}]
           /\ UNCHANGED delivery
  <2>1. PICK s : s = [sender[w] EXCEPT !.batch = sender[w].batch \ {seen}]
    OBVIOUS
  <2>2. s = [at |-> "loop", batch |-> sender[w].batch \ {seen}, on |-> None,
             attempts |-> sender[w].attempts]
    BY <1>2, <1>3, <2>1, SkippingRecord
  <2>3. SenderSound(s)'
    BY <1>2, <1>3, <1>4, <2>2 DEF SenderSound, SenderFormed
  <2>4. sender' = [sender EXCEPT ![w] = s]
    BY <1>4, <2>1
  <2>5. DOMAIN posted' = Deliveries
    BY <1>2 DEF WebhooksInv
  <2> QED BY <1>2, <1>3, <1>4, <2>2, <2>3, <2>4, <2>5, SenderReplaced
<1>5. CASE /\ ClaimableDelivery(seen)
           /\ delivery' = [delivery EXCEPT
                 ![seen.on] = [@ EXCEPT !.status = "PROCESSING", !.due = FALSE,
                                        !.attempts = delivery[seen.on].attempts + 1]]
           /\ sender' = [sender EXCEPT ![w] =
                 [at |-> "post", batch |-> sender[w].batch \ {seen}, on |-> seen.on,
                  attempts |-> seen.attempts + 1]]
  <2> DEFINE d == seen.on
  <2>0. PICK r : r = [delivery[d] EXCEPT !.status = "PROCESSING", !.due = FALSE,
                                         !.attempts = @ + 1]
    OBVIOUS
  <2>s. PICK s : s = [at |-> "post", batch |-> sender[w].batch \ {seen}, on |-> d,
                      attempts |-> seen.attempts + 1]
    OBVIOUS
  <2>1. d \in Deliveries /\ d # None /\ seen.attempts \in Nat /\ seen.attempts = delivery[d].attempts
    BY <1>3, <1>5, PartnerAssumption DEF SenderSound, ClaimableDelivery
  <2>2. RowSound(delivery[d], d)
    BY <2>1 DEF WebhooksInv
  <2>3. /\ RowFormed(r) /\ r.status = "PROCESSING" /\ r.attempts = seen.attempts + 1 /\ ~r.due
    <3>1. r = [status |-> "PROCESSING", attempts |-> delivery[d].attempts + 1, due |-> FALSE,
               about |-> delivery[d].about]
      BY <2>0, <2>1, <2>2, ClaimedRecord DEF RowSound
    <3> QED BY <2>1, <3>1 DEF RowFormed
  <2>4. /\ SenderFormed(s) /\ s.at = "post" /\ s.batch \subseteq sender[w].batch
        /\ s.on = d /\ s.attempts = seen.attempts + 1
    BY <2>s DEF SenderFormed
  <2>5. /\ delivery' = [delivery EXCEPT ![d] = r] /\ sender' = [sender EXCEPT ![w] = s]
    <3>1. delivery' = [delivery EXCEPT ![d] = r]
      BY <1>5, <2>0
    <3>2. sender' = [sender EXCEPT ![w] = s]
      BY <1>5, <2>s
    <3> QED BY <3>1, <3>2
  <2> HIDE DEF d
  <2>6. \A x \in Deliveries : delivery'[x] = IF x = d THEN r ELSE delivery[x]
    BY <2>5 DEF WebhooksInv
  <2>7. \A v \in Senders : sender'[v] = IF v = w THEN s ELSE sender[v]
    BY <2>5 DEF WebhooksInv
  <2>8. \A x \in Deliveries : RowSound(delivery[x], x)'
    BY <1>2, <2>1, <2>3, <2>6 DEF WebhooksInv, RowSound, RowFormed
  <2>9. \A v \in Senders : SenderSound(sender[v])'
    <3>1. ASSUME NEW v \in Senders, v # w PROVE SenderSound(sender[v])'
      <4>1. SenderSound(sender[v]) /\ sender'[v] = sender[v]
        BY <2>7, <3>1 DEF WebhooksInv
      <4> QED BY <1>2, <2>1, <2>3, <2>6, <4>1 DEF SenderSound, SenderFormed
    <3>2. SenderSound(s)'
      <4>1. \A x \in s.batch :
               /\ x.on \in Deliveries /\ x.attempts \in Nat
               /\ delivery'[x.on].status # "NONE" /\ x.attempts <= delivery'[x.on].attempts
        BY <1>3, <2>1, <2>3, <2>4, <2>6 DEF SenderSound
      <4>2. /\ s.on \in Deliveries /\ s.attempts \in Nat
            /\ delivery'[s.on].status # "NONE" /\ s.attempts <= delivery'[s.on].attempts
        BY <2>1, <2>3, <2>4, <2>6
      <4> QED BY <2>4, <4>1, <4>2 DEF SenderSound, SenderFormed
    <3> QED BY <2>7, <3>1, <3>2 DEF SenderSound, SenderFormed
  <2>10. ASSUME mishaps' = 0, NEW v \in Senders PROVE PostedAlone(v)'
    <3>1. \A u \in Senders : PostedAlone(u) /\ SenderSound(sender[u])
      BY <1>2, <2>10 DEF WebhooksInv
    <3>2. \A u \in Senders : sender[u].on # d
      BY <1>1, <2>1, <3>1 DEF PostedAlone, d
    <3>3. \A u \in Senders : \A x \in sender[u].batch :
             x.on = d => x.attempts < delivery'[d].attempts /\ x.attempts \in Nat
      BY <2>1, <2>3, <2>6, <3>1 DEF SenderSound
    <3>4. CASE v = w
      BY <2>1, <2>3, <2>4, <2>6, <2>7, <3>2, <3>3, <3>4 DEF PostedAlone
    <3>5. CASE v # w
      <4>1. sender[v].on # None => sender[v].on \in Deliveries
        BY <3>1 DEF SenderSound
      <4> QED BY <2>4, <2>6, <2>7, <3>1, <3>2, <3>5, <4>1 DEF PostedAlone
    <3> QED BY <3>4, <3>5
  <2>11. /\ DOMAIN delivery' = Deliveries /\ DOMAIN posted' = Deliveries
         /\ DOMAIN sender' = Senders /\ mishaps' \in Nat
    BY <1>2, <2>5 DEF WebhooksInv
  <2> QED BY <2>8, <2>9, <2>10, <2>11 DEF WebhooksInv
<1> QED BY <1>1, <1>4, <1>5

\* A sender writes what became of a delivery, if it is still PROCESSING.
LEMMA MarkKept ==
    ASSUME WebhooksInv, NEW w \in Senders, MarkDelivered(w) \/ MarkFailed(w)
    PROVE  WebhooksInv'
<1> DEFINE d == sender[w].on
<1>1. /\ sender[w].at \in {"accepted", "failed"} /\ UNCHANGED <<posted, mishaps>>
      /\ SenderSound(sender[w]) /\ mishaps \in Nat
  BY DEF MarkDelivered, MarkFailed, WebhooksInv
<1>2. d \in Deliveries /\ d # None /\ delivery[d].status # "NONE"
  BY <1>1, PartnerAssumption DEF SenderSound
<1>3. RowSound(delivery[d], d)
  BY <1>2 DEF WebhooksInv
<1>4. PICK s : s = [sender[w] EXCEPT !.at = "loop", !.on = None, !.attempts = 0]
  OBVIOUS
<1>5. s = [at |-> "loop", batch |-> sender[w].batch, on |-> None, attempts |-> 0]
  BY <1>1, <1>4, LoopingRecord DEF SenderSound
<1>6. sender' = [sender EXCEPT ![w] = s]
  BY <1>4 DEF MarkDelivered, MarkFailed, BackToLoop
<1>7. PICK r : /\ DOMAIN delivery' = Deliveries
               /\ \A x \in Deliveries : delivery'[x] = IF x = d THEN r ELSE delivery[x]
               /\ RowSound(r, d) /\ r.status # "NONE" /\ r.attempts = delivery[d].attempts
  <2>1. CASE MarkDelivered(w)
    <3>1. PICK r : r = [delivery[d] EXCEPT !.status = IF Open(d) THEN "DELIVERED" ELSE @]
      OBVIOUS
    <3>2. PICK status : /\ status = IF Open(d) THEN "DELIVERED" ELSE delivery[d].status
                        /\ r = [delivery[d] EXCEPT !.status = status]
      BY <3>1
    <3>3. r = [status |-> status, attempts |-> delivery[d].attempts, due |-> delivery[d].due,
               about |-> delivery[d].about]
      BY <1>3, <3>2, SettledRecord DEF RowSound
    <3>4. delivery' = [delivery EXCEPT ![d] = r]
      BY <2>1, <3>1 DEF MarkDelivered
    <3>5. posted[d] = 1
      BY <1>1, <2>1 DEF MarkDelivered, SenderSound
    <3>6. RowSound(r, d)
      BY <1>3, <3>2, <3>3, <3>5 DEF RowSound, RowFormed
    <3>7. r.status # "NONE" /\ r.attempts = delivery[d].attempts
      BY <1>2, <3>2, <3>3
    <3>8. DOMAIN delivery = Deliveries
      BY DEF WebhooksInv
    <3> HIDE DEF d
    <3> QED BY <3>4, <3>6, <3>7, <3>8
  <2>2. CASE MarkFailed(w) /\ Open(d)
    <3>1. PICK status : status = IF GivenUp(sender[w].attempts) THEN "DEAD_LETTER" ELSE "RETRYING"
      OBVIOUS
    <3>2. PICK r : r = [delivery[d] EXCEPT !.due = FALSE, !.status = status]
      OBVIOUS
    <3>3. r = [status |-> status, attempts |-> delivery[d].attempts, due |-> FALSE,
               about |-> delivery[d].about]
      BY <1>3, <3>2, FailedRecord DEF RowSound
    <3>4. delivery' = [delivery EXCEPT ![d] = r]
      BY <2>2, <3>1, <3>2 DEF MarkFailed
    <3>5. status = "DEAD_LETTER" => delivery[d].attempts >= MaxAttempts
      BY <1>1, <1>3, <3>1, PartnerAssumption DEF SenderSound, RowSound, GivenUp
    <3>6. RowSound(r, d)
      BY <1>3, <3>1, <3>3, <3>5 DEF RowSound, RowFormed
    <3>7. r.status # "NONE" /\ r.attempts = delivery[d].attempts
      BY <3>1, <3>3
    <3>8. DOMAIN delivery = Deliveries
      BY DEF WebhooksInv
    <3> HIDE DEF d
    <3> QED BY <3>4, <3>6, <3>7, <3>8
  <2>3. CASE MarkFailed(w) /\ ~Open(d)
    <3>1. delivery' = delivery
      BY <2>3 DEF MarkFailed
    <3>2. DOMAIN delivery = Deliveries
      BY DEF WebhooksInv
    <3> HIDE DEF d
    <3> QED BY <1>2, <1>3, <3>1, <3>2
  <2> QED BY <2>1, <2>2, <2>3
<1> HIDE DEF d
<1>8. \A x \in Deliveries : delivery'[x] = IF x = d THEN r ELSE delivery[x]
  BY <1>7
<1>9. \A v \in Senders : sender'[v] = IF v = w THEN s ELSE sender[v]
  BY <1>6 DEF WebhooksInv
<1>10. \A x \in Deliveries : RowSound(delivery[x], x)'
  BY <1>1, <1>7, <1>8 DEF WebhooksInv, RowSound, RowFormed
<1>11. \A v \in Senders : SenderSound(sender[v])'
  <2>1. ASSUME NEW v \in Senders, v # w PROVE SenderSound(sender[v])'
    <3>1. SenderSound(sender[v]) /\ sender'[v] = sender[v]
      BY <1>9, <2>1 DEF WebhooksInv
    <3> QED BY <1>1, <1>7, <1>8, <3>1 DEF SenderSound, SenderFormed
  <2>2. SenderSound(s)'
    BY <1>1, <1>5, <1>7, <1>8 DEF SenderSound, SenderFormed
  <2> QED BY <1>9, <2>1, <2>2 DEF SenderSound, SenderFormed
<1>12. ASSUME mishaps' = 0, NEW v \in Senders PROVE PostedAlone(v)'
  <2>1. \A u \in Senders : PostedAlone(u) /\ SenderSound(sender[u])
    BY <1>1, <1>12 DEF WebhooksInv
  <2>2. CASE v = w
    BY <1>5, <1>9, <2>2 DEF PostedAlone
  <2>3. CASE v # w
    <3>1. sender[v].on # d
      BY <1>2, <2>1, <2>3 DEF PostedAlone, d
    <3>2. sender[v].on # None => sender[v].on \in Deliveries
      BY <2>1 DEF SenderSound
    <3> QED BY <1>5, <1>8, <1>9, <2>1, <2>3, <3>1, <3>2 DEF PostedAlone
  <2> QED BY <2>2, <2>3
<1>13. /\ DOMAIN delivery' = Deliveries /\ DOMAIN posted' = Deliveries
       /\ DOMAIN sender' = Senders /\ mishaps' \in Nat
  BY <1>1, <1>6, <1>7 DEF WebhooksInv
<1> QED BY <1>10, <1>11, <1>12, <1>13 DEF WebhooksInv

\* A sender that reads a batch, posts or stops writes no row.
LEMMA SenderMoveKept ==
    ASSUME WebhooksInv, NEW w \in Senders,
           ReadBatch(w) \/ BatchDone(w) \/ SenderCrash(w) \/ PostAccepted(w) \/ PostFails(w)
    PROVE  WebhooksInv'
<1>1. SenderSound(sender[w]) /\ mishaps \in Nat /\ DOMAIN posted = Deliveries
  BY DEF WebhooksInv
<1>2. CASE ReadBatch(w)
  <2>1. PICK found : found = {[on |-> d, status |-> delivery[d].status,
                               attempts |-> delivery[d].attempts] :
                                  d \in {x \in Deliveries : Waiting(x)}}
    OBVIOUS
  <2>2. PICK s : s = [SenderIdle EXCEPT !.at = "loop", !.batch = found]
    OBVIOUS
  <2>3. s = [at |-> "loop", batch |-> found, on |-> None, attempts |-> 0]
    BY <2>2 DEF SenderIdle
  <2>4. sender' = [sender EXCEPT ![w] = s] /\ UNCHANGED <<delivery, posted, mishaps>>
    BY <1>2, <2>1, <2>2 DEF ReadBatch
  <2>5. \A seen \in found :
           /\ seen.on \in Deliveries /\ seen.attempts = delivery[seen.on].attempts
           /\ delivery[seen.on].due /\ delivery[seen.on].status # "NONE"
    BY <2>1 DEF Waiting
  <2>6. \A d \in Deliveries : delivery[d].attempts \in Nat
    BY DEF WebhooksInv, RowSound
  <2>7. SenderSound(s)'
    BY <2>3, <2>4, <2>5, <2>6 DEF SenderSound, SenderFormed
  <2> QED BY <1>1, <2>3, <2>4, <2>5, <2>7, SenderReplaced
<1>3. CASE BatchDone(w) \/ SenderCrash(w)
  <2>1. PICK s : s = SenderIdle
    OBVIOUS
  <2>2. s = [at |-> "idle", batch |-> {}, on |-> None, attempts |-> 0]
    BY <2>1 DEF SenderIdle
  <2>3. sender' = [sender EXCEPT ![w] = s] /\ UNCHANGED <<delivery, posted>>
    BY <1>3, <2>1 DEF BatchDone, SenderCrash
  <2>4. mishaps' \in Nat /\ (mishaps' = 0 => mishaps = 0)
    BY <1>1, <1>3, MishapCounted DEF BatchDone, SenderCrash
  <2>5. SenderSound(s)'
    BY <2>2, <2>3 DEF SenderSound, SenderFormed
  <2> QED BY <1>1, <2>2, <2>3, <2>4, <2>5, SenderReplaced
<1>4. CASE PostAccepted(w) \/ PostFails(w)
  <2>1. PICK at \in {"accepted", "failed"} :
           /\ sender' = [sender EXCEPT ![w].at = at]
           /\ at = "accepted" => posted' = [posted EXCEPT ![sender[w].on] = 1]
    BY <1>4 DEF PostAccepted, PostFails
  <2>2. /\ posted' \in {posted, [posted EXCEPT ![sender[w].on] = 1]}
        /\ sender[w].at = "post" /\ UNCHANGED <<delivery, mishaps>>
    BY <1>4 DEF PostAccepted, PostFails
  <2>3. PICK s : s = [sender[w] EXCEPT !.at = at]
    OBVIOUS
  <2>4. s = [at |-> at, batch |-> sender[w].batch, on |-> sender[w].on,
             attempts |-> sender[w].attempts]
    BY <1>1, <2>3, PosterRecord DEF SenderSound
  <2>5. sender' = [sender EXCEPT ![w] = s]
    BY <2>1, <2>3
  <2>6. /\ DOMAIN posted' = Deliveries
        /\ \A d \in Deliveries : posted[d] = 1 => posted'[d] = 1
    BY <1>1, <2>2
  <2>7. SenderSound(s)'
    <3>1. at = "accepted" => posted'[sender[w].on] = 1
      BY <1>1, <2>1, <2>2 DEF SenderSound
    <3> QED BY <1>1, <2>2, <2>4, <3>1 DEF SenderSound, SenderFormed
  <2> QED BY <1>1, <2>2, <2>4, <2>5, <2>6, <2>7, SenderReplaced
<1> QED BY <1>2, <1>3, <1>4

\* A delivery is given up after its attempts and marked delivered after the endpoint
\* had it, and two processes are at one only after a claim lapsed or a process died
\* (processDeliveries).
THEOREM WebhooksHandedOver ==
    PartnerInit /\ [][PartnerNext]_partnerVars => [](GivenUpLate /\ SharedOnlyAfterLapse)
<1>1. PartnerInit => WebhooksInv
  <2> SUFFICES ASSUME PartnerInit PROVE WebhooksInv
    OBVIOUS
  <2>1. \A d \in Deliveries : RowSound(delivery[d], d)
    BY DEF PartnerInit, NoDelivery, RowSound, RowFormed
  <2>2. \A w \in Senders : SenderSound(sender[w]) /\ PostedAlone(w)
    BY DEF PartnerInit, SenderIdle, SenderSound, SenderFormed, PostedAlone
  <2> QED BY <2>1, <2>2 DEF PartnerInit, WebhooksInv
<1>2. WebhooksInv /\ [PartnerNext]_partnerVars => WebhooksInv'
  <2> SUFFICES ASSUME WebhooksInv, [PartnerNext]_partnerVars PROVE WebhooksInv'
    OBVIOUS
  <2>1. ASSUME UNCHANGED <<delivery, posted, sender>>, mishaps' \in Nat,
               mishaps' = 0 => mishaps = 0
        PROVE  WebhooksInv'
    BY <2>1 DEF WebhooksInv, RowSound, RowFormed, SenderSound, SenderFormed, PostedAlone
  <2>2. ASSUME NEW c \in Shops,
               \/ ShopCrash(c)
               \/ \E o \in Orders :
                     SubmitRead(c, o) \/ Submit(c, o) \/ FulfillRead(c, o) \/ Fulfill(c, o)
        PROVE  WebhooksInv'
    <3>1. UNCHANGED <<delivery, posted, sender>> /\ (UNCHANGED mishaps \/ Mishap)
      BY <2>2 DEF ShopCrash, SubmitRead, Submit, FulfillRead, Fulfill
    <3>2. mishaps \in Nat
      BY DEF WebhooksInv
    <3> QED BY <2>1, <3>1, <3>2, MishapCounted
  <2>3. ASSUME NEW d \in Deliveries,
               \/ \E c \in Shops, o \in Orders : EnqueueWebhook(c, o, d)
               \/ \E x \in Deliveries : ReplayWebhook(x, d)
        PROVE  WebhooksInv'
    <3>1. PICK about : /\ delivery' = [delivery EXCEPT ![d] =
                              [status |-> "PENDING", attempts |-> 0, due |-> TRUE,
                               about |-> about]]
                       /\ delivery[d] = NoDelivery /\ UNCHANGED <<posted, mishaps, sender>>
      BY <2>3 DEF EnqueueWebhook, ReplayWebhook
    <3>2. PICK r : r = [status |-> "PENDING", attempts |-> 0, due |-> TRUE, about |-> about]
      OBVIOUS
    <3>3. RowSound(r, d) /\ delivery' = [delivery EXCEPT ![d] = r]
      BY <3>1, <3>2 DEF RowSound, RowFormed
    <3>4. delivery[d].status = "NONE" /\ mishaps \in Nat
      BY <3>1 DEF NoDelivery, WebhooksInv
    <3>5. mishaps = 0 => \A w \in Senders : sender[w].on # d
      BY <3>4, PartnerAssumption DEF WebhooksInv, PostedAlone
    <3> QED BY <3>1, <3>3, <3>4, <3>5, RowReplaced
  <2>4. ASSUME NEW d \in Deliveries, ComesDue(d) PROVE WebhooksInv'
    <3>1. PICK r : r = [delivery[d] EXCEPT !.due = TRUE]
      OBVIOUS
    <3>2. RowSound(delivery[d], d) /\ delivery[d].status # "NONE" /\ mishaps \in Nat
      BY <2>4 DEF WebhooksInv, ComesDue
    <3>3. r = [status |-> delivery[d].status, attempts |-> delivery[d].attempts, due |-> TRUE,
               about |-> delivery[d].about]
      BY <3>1, <3>2, DueRecord DEF RowSound
    <3>4. RowSound(r, d) /\ r.status # "NONE" /\ r.attempts = delivery[d].attempts
      BY <3>2, <3>3 DEF RowSound, RowFormed
    <3>5. delivery' = [delivery EXCEPT ![d] = r] /\ UNCHANGED <<posted, sender>>
      BY <2>4, <3>1 DEF ComesDue
    <3>6. \/ mishaps' \in Nat /\ mishaps' # 0
          \/ UNCHANGED mishaps /\ \A w \in Senders : sender[w].on # d
      BY <2>4, MishapCounted DEF ComesDue, HeldBy
    <3> QED BY <3>2, <3>4, <3>5, <3>6, RowReplaced
  <2>5. ASSUME NEW w \in Senders, SenderStep(w) \/ SenderCrash(w) PROVE WebhooksInv'
    BY <2>5, SenderMoveKept, ClaimKept, MarkKept DEF SenderStep
  <2>6. CASE UNCHANGED partnerVars
    <3>1. mishaps \in Nat
      BY DEF WebhooksInv
    <3> QED BY <2>1, <2>6, <3>1 DEF partnerVars
  <2> QED BY <2>2, <2>3, <2>4, <2>5, <2>6 DEF PartnerNext
<1>3. WebhooksInv => GivenUpLate /\ SharedOnlyAfterLapse
  <2> SUFFICES ASSUME WebhooksInv PROVE GivenUpLate /\ SharedOnlyAfterLapse
    OBVIOUS
  <2>1. GivenUpLate
    BY DEF WebhooksInv, RowSound, GivenUpLate
  <2>2. SharedOnlyAfterLapse
    BY DEF WebhooksInv, PostedAlone, SharedOnlyAfterLapse
  <2> QED BY <2>1, <2>2
<1> QED BY <1>1, <1>2, <1>3, PTL

-----------------------------------------------------------------------------
(***************************************************************************)
(* Capacities.                                                             *)
(***************************************************************************)

\* The units of one row.
LEMMA UnitsOfOne ==
    ASSUME NEW x, NEW n \in Nat
    PROVE  IsFiniteSet({x} \X (1..n)) /\ Cardinality({x} \X (1..n)) = n
<1>1. IsFiniteSet({x}) /\ Cardinality({x}) = 1
  BY FS_Singleton
<1>2. IsFiniteSet(1..n) /\ Cardinality(1..n) = n
  BY FS_Interval
<1> DEFINE X == {x}
           Y == 1..n
<1>3. IsFiniteSet(X) /\ Cardinality(X) = 1 /\ IsFiniteSet(Y) /\ Cardinality(Y) = n
  BY <1>1, <1>2
<1> HIDE DEF X, Y
<1>4. IsFiniteSet(X \X Y) /\ Cardinality(X \X Y) = Cardinality(X) * Cardinality(Y)
  BY ONLY <1>3, FS_Product
<1>5. Cardinality(X) * Cardinality(Y) = n
  <2>1. 1 * n = n
    OBVIOUS
  <2> QED BY <1>3, <2>1
<1> QED BY <1>4, <1>5 DEF X, Y

\* A sum grows by no more than what is added.
LEMMA UnitsAdded ==
    ASSUME NEW S, IsFiniteSet(S), NEW x, NEW n \in Nat
    PROVE  /\ IsFiniteSet(S \cup ({x} \X (1..n)))
           /\ Cardinality(S \cup ({x} \X (1..n))) <= Cardinality(S) + n
<1> DEFINE T == {x} \X (1..n)
<1>1. IsFiniteSet(T) /\ Cardinality(T) = n
  BY UnitsOfOne
<1> HIDE DEF T
<1>2. /\ IsFiniteSet(S \cup T) /\ IsFiniteSet(S \cap T)
      /\ Cardinality(S \cup T) = Cardinality(S) + Cardinality(T) - Cardinality(S \cap T)
  BY <1>1, FS_Union, FS_Intersection
<1>3. Cardinality(S) \in Nat /\ Cardinality(S \cap T) \in Nat
  BY <1>2, FS_CardinalityType
<1>4. Cardinality(S \cup T) <= Cardinality(S) + n
  BY <1>1, <1>2, <1>3
<1> QED BY <1>2, <1>4 DEF T

\* What a request of the plan has checked: the members it read leave room for its
\* booking, the loads it read are weighed.
SumsInv ==
    /\ DOMAIN planner = Planners
    /\ \A c \in Planners :
         /\ planner[c].op = "member" => CapacityLeft(planner[c].rows, planner[c].on)
         /\ planner[c].op = "move" /\ planner[c].on = "LOADED" => planner[c].rows \subseteq weighed

\* The request that reads, and the one that writes.
LEMMA PlannerReadsSound ==
    ASSUME SumsInv, NEW c \in Planners, NEW op, NEW x, NEW rows, PlannerReads(c, op, x, rows),
           op = "member" => CapacityLeft(rows, x),
           op = "move" /\ x = "LOADED" => rows \subseteq weighed
    PROVE  SumsInv'
<1>1. PICK w : w = [op |-> op, on |-> x, plan |-> plan, rows |-> rows]
  OBVIOUS
<1>2. planner' = [planner EXCEPT ![c] = w] /\ weighed' = weighed
  BY <1>1 DEF PlannerReads
<1>3. w.op = op /\ w.on = x /\ w.rows = rows
  BY <1>1
<1>4. DOMAIN planner' = Planners
      /\ \A b \in Planners : planner'[b] = IF b = c THEN w ELSE planner[b]
  BY <1>2 DEF SumsInv
<1> QED BY <1>2, <1>3, <1>4 DEF SumsInv, CapacityLeft

LEMMA PlannerWritesSound ==
    ASSUME SumsInv, NEW c \in Planners, NEW op, NEW x, PlannerWrites(c, op, x)
    PROVE  SumsInv'
<1>1. /\ planner' = [planner EXCEPT ![c] = PlannerIdle] /\ weighed' = weighed
      /\ PlannerIdle.op = "idle"
  BY DEF PlannerWrites, PlannerIdle
<1>2. DOMAIN planner' = Planners
      /\ \A b \in Planners : planner'[b] = IF b = c THEN PlannerIdle ELSE planner[b]
  BY <1>1 DEF SumsInv
<1> QED BY <1>1, <1>2 DEF SumsInv, CapacityLeft

LEMMA SumsKept ==
    ASSUME SumsInv, [ConsolidationNext]_consolidationVars
    PROVE  SumsInv'
<1>1. ASSUME NEW c \in Planners, NEW b \in Members, AddMemberRead(c, b) PROVE SumsInv'
  BY <1>1, PlannerReadsSound DEF AddMemberRead
<1>2. ASSUME NEW c \in Planners, NEW b \in Members, AddMember(c, b) PROVE SumsInv'
  BY <1>2, PlannerWritesSound DEF AddMember
<1>3. ASSUME NEW c \in Planners, NEW u \in Units, AddLoadRead(c, u) PROVE SumsInv'
  BY <1>3, PlannerReadsSound DEF AddLoadRead
<1>4. ASSUME NEW c \in Planners, NEW u \in Units, AddLoad(c, u) PROVE SumsInv'
  BY <1>4, PlannerWritesSound DEF AddLoad
<1>5. ASSUME NEW c \in Planners, NEW next \in {move[2] : move \in PlanMoves},
             TransitionPlanRead(c, next)
      PROVE  SumsInv'
  <2>1. next = "LOADED" => Loaded \subseteq weighed
    BY <1>5 DEF TransitionPlanRead, Ready
  <2>2. PlannerReads(c, "move", next, Loaded)
    BY <1>5 DEF TransitionPlanRead
  <2> QED BY <2>1, <2>2, PlannerReadsSound
<1>6. ASSUME NEW c \in Planners, NEW next \in {move[2] : move \in PlanMoves},
             TransitionPlan(c, next)
      PROVE  SumsInv'
  BY <1>6, PlannerWritesSound DEF TransitionPlan
<1>7. ASSUME UNCHANGED planner, weighed \subseteq weighed' PROVE SumsInv'
  BY <1>7 DEF SumsInv, CapacityLeft
<1>8. CASE \/ CutoffPasses \/ (\E w \in CutoffSweepers : CutoffSweep(w))
           \/ \E u \in Units : FillUnit(u) \/ VerifyVgm(u)
  BY <1>7, <1>8 DEF CutoffPasses, CutoffSweep, CutoffLook, CutoffReport, FillUnit, VerifyVgm
<1>9. CASE UNCHANGED consolidationVars
  BY <1>7, <1>9 DEF consolidationVars
<1> QED BY <1>1, <1>2, <1>3, <1>4, <1>5, <1>6, <1>8, <1>9 DEF ConsolidationNext

\* A plan is overbooked only by a request that did not see a member another request
\* added meanwhile (addConsolidationMember, assertCapacity).
THEOREM OverbookingsRaceOnly == ConsolidationSpec => OverbookedOnlyInARace
<1> DEFINE Raced ==
       (TotalWeight(members) <= MaxWeight /\ ~(TotalWeight(members') <= MaxWeight))
       => \E c \in Planners : planner[c].op = "member" /\ planner[c].rows # members
<1>1. ConsolidationInit => SumsInv
  BY DEF ConsolidationInit, SumsInv, PlannerIdle
<1>2. ASSUME SumsInv, [ConsolidationNext]_consolidationVars PROVE Raced
  <2>1. ASSUME UNCHANGED members PROVE Raced
    BY <2>1
  <2>2. ASSUME NEW c \in Planners, NEW b \in Members, AddMember(c, b) PROVE Raced
    <3>1. planner[c].op = "member" /\ planner[c].on = b
      BY <2>2 DEF AddMember, PlannerWrites
    <3>2. CapacityLeft(planner[c].rows, b)
      BY <1>2, <3>1 DEF SumsInv
    <3>3. CASE planner[c].rows = members /\ b \notin members
      <4>1. members' = members \cup {b}
        BY <2>2, <3>3 DEF AddMember
      <4> QED BY <3>2, <3>3, <4>1 DEF CapacityLeft
    <3>4. CASE planner[c].rows # members
      BY <3>1, <3>4
    <3>5. CASE b \in members
      <4>1. members' = members
        BY <2>2, <3>5 DEF AddMember
      <4> QED BY <2>1, <4>1
    <3> QED BY <3>3, <3>4, <3>5
  <2>3. ASSUME NEW c \in Planners,
               \/ \E b \in Members : AddMemberRead(c, b)
               \/ \E u \in Units : AddLoadRead(c, u) \/ AddLoad(c, u)
               \/ \E next \in {move[2] : move \in PlanMoves} :
                     TransitionPlanRead(c, next) \/ TransitionPlan(c, next)
        PROVE  UNCHANGED members
    BY <2>3 DEF AddMemberRead, AddLoadRead, AddLoad, TransitionPlanRead, TransitionPlan,
                PlannerReads
  <2>4. ASSUME \/ CutoffPasses \/ (\E w \in CutoffSweepers : CutoffSweep(w))
               \/ \E u \in Units : FillUnit(u) \/ VerifyVgm(u)
        PROVE  UNCHANGED members
    BY <2>4 DEF CutoffPasses, CutoffSweep, CutoffLook, CutoffReport, FillUnit, VerifyVgm
  <2>5. CASE UNCHANGED consolidationVars
    BY <2>1, <2>5 DEF consolidationVars
  <2> HIDE DEF Raced
  <2> QED BY <1>2, <2>1, <2>2, <2>3, <2>4, <2>5 DEF ConsolidationNext
<1>3. (SumsInv /\ [ConsolidationNext]_consolidationVars) => [Raced]_consolidationVars
  BY <1>2
<1>4. OverbookedOnlyInARace <=> [][Raced]_consolidationVars
  BY DEF OverbookedOnlyInARace
<1>5. SumsInv /\ [ConsolidationNext]_consolidationVars => SumsInv'
  BY SumsKept
<1> HIDE DEF Raced
<1> QED BY <1>1, <1>3, <1>4, <1>5, PTL DEF ConsolidationSpec

\* A container without verified gross mass is marked LOADED only when it was added to
\* the plan between the check and the write (transitionConsolidation).
THEOREM UnweighedRaceOnly == ConsolidationSpec => UnweighedLoadedOnlyInARace
<1> DEFINE Raced == \A u \in Units :
         (loads[u] # "LOADED" /\ loads'[u] = "LOADED" /\ u \notin weighed) =>
            \E c \in Planners : planner[c].op = "move" /\ u \notin planner[c].rows
           Shape == DOMAIN loads = Units
<1>1. ConsolidationInit => SumsInv /\ Shape
  BY DEF ConsolidationInit, SumsInv, PlannerIdle
<1>2. ASSUME SumsInv, Shape, [ConsolidationNext]_consolidationVars PROVE Raced /\ Shape'
  <2>1. ASSUME UNCHANGED loads PROVE Raced /\ Shape'
    BY <1>2, <2>1
  <2>2. ASSUME NEW c \in Planners, NEW next \in {move[2] : move \in PlanMoves},
               TransitionPlan(c, next)
        PROVE  Raced /\ Shape'
    <3>1. planner[c].op = "move" /\ planner[c].on = next
      BY <2>2 DEF TransitionPlan, PlannerWrites
    <3>2. \/ UNCHANGED loads
          \/ loads' = [u \in Units |->
                IF u \notin Loaded \/ next \notin {"LOADED", "DECONSOLIDATED"} THEN loads[u]
                ELSE IF next = "LOADED" THEN "LOADED" ELSE "UNLOADED"]
      BY <2>2 DEF TransitionPlan
    <3>3. next = "LOADED" => planner[c].rows \subseteq weighed
      BY <1>2, <3>1 DEF SumsInv
    <3>4. CASE loads' = [u \in Units |->
                IF u \notin Loaded \/ next \notin {"LOADED", "DECONSOLIDATED"} THEN loads[u]
                ELSE IF next = "LOADED" THEN "LOADED" ELSE "UNLOADED"]
      <4>1. ASSUME NEW u \in Units, loads[u] # "LOADED", loads'[u] = "LOADED", u \notin weighed
            PROVE  u \notin planner[c].rows
        BY <3>3, <3>4, <4>1
      <4> QED BY <3>1, <3>4, <4>1
    <3> QED BY <2>1, <3>2, <3>4
  <2>3. ASSUME NEW c \in Planners, NEW u \in Units, AddLoad(c, u) PROVE Raced /\ Shape'
    <3>1. loads' = [loads EXCEPT ![u] = IF loads[u] = "NONE" THEN "PLANNED" ELSE loads[u]]
      BY <2>3 DEF AddLoad
    <3> QED BY <1>2, <3>1
  <2>4. ASSUME NEW c \in Planners,
               \/ \E b \in Members : AddMemberRead(c, b) \/ AddMember(c, b)
               \/ \E u \in Units : AddLoadRead(c, u)
               \/ \E next \in {move[2] : move \in PlanMoves} : TransitionPlanRead(c, next)
        PROVE  UNCHANGED loads
    BY <2>4 DEF AddMemberRead, AddMember, AddLoadRead, TransitionPlanRead, PlannerReads
  <2>5. ASSUME \/ CutoffPasses \/ (\E w \in CutoffSweepers : CutoffSweep(w))
               \/ \E u \in Units : FillUnit(u) \/ VerifyVgm(u)
        PROVE  UNCHANGED loads
    BY <2>5 DEF CutoffPasses, CutoffSweep, CutoffLook, CutoffReport, FillUnit, VerifyVgm
  <2>6. CASE UNCHANGED consolidationVars
    BY <2>1, <2>6 DEF consolidationVars
  <2> HIDE DEF Raced, Shape
  <2> QED BY <1>2, <2>1, <2>2, <2>3, <2>4, <2>5, <2>6 DEF ConsolidationNext
<1>3. (SumsInv /\ Shape /\ [ConsolidationNext]_consolidationVars)
         => [Raced]_consolidationVars /\ Shape'
  BY <1>2
<1>4. UnweighedLoadedOnlyInARace <=> [][Raced]_consolidationVars
  BY DEF UnweighedLoadedOnlyInARace
<1>5. SumsInv /\ [ConsolidationNext]_consolidationVars => SumsInv'
  BY SumsKept
<1> HIDE DEF Raced, Shape
<1> QED BY <1>1, <1>3, <1>4, <1>5, PTL DEF ConsolidationSpec

\* The grams of the allocations of a linehaul, when one is added.
LEMMA GramsAdded ==
    ASSUME NEW rows, IsFiniteSet(Grams(rows)), NEW h \in Linehauls, NEW p \in LinehaulPlans
    PROVE  /\ IsFiniteSet(Grams(rows \cup {<<h, p>>}))
           /\ WeightOf(rows \cup {<<h, p>>}) <= WeightOf(rows) + PlanWeight[p]
<1> DEFINE x == <<h, p>>
<1>1. PlanWeight[p] \in Nat /\ x[2] = p
  BY LinehaulAssumption
<1>2. Grams(rows \cup {x}) = Grams(rows) \cup ({x} \X (1..PlanWeight[p]))
  BY <1>1 DEF Grams
<1> HIDE DEF x
<1>3. /\ IsFiniteSet(Grams(rows) \cup ({x} \X (1..PlanWeight[p])))
      /\ Cardinality(Grams(rows) \cup ({x} \X (1..PlanWeight[p])))
           <= Cardinality(Grams(rows)) + PlanWeight[p]
  BY <1>1, UnitsAdded
<1> QED BY <1>2, <1>3 DEF WeightOf, x

\* Fewer allocations weigh a finite number of grams, too.
LEMMA GramsOfSome ==
    ASSUME NEW rows, IsFiniteSet(Grams(rows)), NEW h
    PROVE  IsFiniteSet(Grams(Carries(rows, h)))
<1>1. Grams(Carries(rows, h)) \subseteq Grams(rows)
  BY DEF Grams, Carries
<1> QED BY <1>1, FS_Subset

\* What a caller has read left room for its plan.
AllocationsInv ==
    /\ DOMAIN allocator = Allocators /\ IsFiniteSet(Grams(allocated))
    /\ \A c \in Allocators :
         allocator[c].linehaul # None =>
            /\ WeightLeft(allocator[c].rows, allocator[c].linehaul, allocator[c].plan)
            /\ IsFiniteSet(Grams(allocator[c].rows))

LEMMA AllocationsKept ==
    ASSUME AllocationsInv, [LinehaulNext]_linehaulVars
    PROVE  AllocationsInv'
<1>1. ASSUME UNCHANGED <<allocated, allocator>> PROVE AllocationsInv'
  BY <1>1 DEF AllocationsInv, WeightLeft
<1>2. ASSUME NEW c \in Allocators, NEW h \in Linehauls, NEW p \in LinehaulPlans,
             AllocateLinehaulRead(c, h, p)
      PROVE  AllocationsInv'
  <2>1. PICK w : w = [linehaul |-> h, plan |-> p, rows |-> allocated]
    OBVIOUS
  <2>2. /\ w.linehaul = h /\ w.plan = p /\ w.rows = allocated
        /\ allocator' = [allocator EXCEPT ![c] = w] /\ allocated' = allocated
        /\ WeightLeft(allocated, h, p)
    BY <1>2, <2>1 DEF AllocateLinehaulRead
  <2>3. DOMAIN allocator' = Allocators
        /\ \A b \in Allocators : allocator'[b] = IF b = c THEN w ELSE allocator[b]
    BY <2>2 DEF AllocationsInv
  <2> QED BY <2>2, <2>3 DEF AllocationsInv
<1>3. ASSUME NEW c \in Allocators, NEW h \in Linehauls, NEW p \in LinehaulPlans,
             AllocateLinehaul(c, h, p)
      PROVE  AllocationsInv'
  <2>1. /\ allocator' = [allocator EXCEPT ![c] = AllocatorIdle]
        /\ allocated' = allocated \cup {<<h, p>>} /\ AllocatorIdle.linehaul = None
    BY <1>3 DEF AllocateLinehaul, AllocatorIdle
  <2>2. DOMAIN allocator' = Allocators
        /\ \A b \in Allocators : allocator'[b] = IF b = c THEN AllocatorIdle ELSE allocator[b]
    BY <2>1 DEF AllocationsInv
  <2>3. IsFiniteSet(Grams(allocated'))
    BY <2>1, GramsAdded DEF AllocationsInv
  <2> QED BY <2>1, <2>2, <2>3 DEF AllocationsInv
<1>4. ASSUME \/ \E h \in Linehauls : CreateLinehaul(h)
             \/ \E g \in PostalRuns : CreatePostalConsignment(g)
             \/ \E g \in PostalRuns, r \in PostalReceptacles : AddReceptacleToConsignment(g, r)
      PROVE  AllocationsInv'
  BY <1>1, <1>4 DEF CreateLinehaul, CreatePostalConsignment, AddReceptacleToConsignment
<1>5. CASE UNCHANGED linehaulVars
  BY <1>1, <1>5 DEF linehaulVars
<1> QED BY <1>2, <1>3, <1>4, <1>5 DEF LinehaulNext

\* A linehaul is overloaded only if an allocation was inserted after a request had
\* summed them (allocateLinehaul, assertCapacity).
THEOREM OverloadsRaceOnly == LinehaulSpec => OverloadedOnlyInARace
<1> DEFINE Raced == \A h \in Linehauls : Carries(allocated', h) # Carries(allocated, h) =>
          \/ WeightOf(Carries(allocated', h)) <= LinehaulWeight
          \/ \E c \in Allocators : /\ allocator[c].linehaul = h
                                   /\ Carries(allocator[c].rows, h) # Carries(allocated, h)
<1>1. LinehaulInit => AllocationsInv
  <2> SUFFICES ASSUME LinehaulInit PROVE AllocationsInv
    OBVIOUS
  <2>1. Grams(allocated) = {}
    BY DEF LinehaulInit, Grams
  <2>2. IsFiniteSet(Grams(allocated))
    BY <2>1, FS_EmptySet
  <2> QED BY <2>2 DEF LinehaulInit, AllocationsInv, AllocatorIdle
<1>2. ASSUME AllocationsInv, [LinehaulNext]_linehaulVars PROVE Raced
  <2>1. ASSUME UNCHANGED allocated PROVE Raced
    BY <2>1
  <2>2. ASSUME NEW c \in Allocators, NEW k \in Linehauls, NEW p \in LinehaulPlans,
               AllocateLinehaul(c, k, p)
        PROVE  Raced
    <3> SUFFICES ASSUME NEW h \in Linehauls, Carries(allocated', h) # Carries(allocated, h),
                        \A b \in Allocators : allocator[b].linehaul = h =>
                           Carries(allocator[b].rows, h) = Carries(allocated, h)
                 PROVE  WeightOf(Carries(allocated', h)) <= LinehaulWeight
      OBVIOUS
    <3>1. /\ allocator[c].linehaul = k /\ allocator[c].plan = p
          /\ allocated' = allocated \cup {<<k, p>>}
      BY <2>2 DEF AllocateLinehaul
    <3>2. h = k
      BY <3>1 DEF Carries
    <3>3. Carries(allocated', h) = Carries(allocator[c].rows, h) \cup {<<h, p>>}
      <4>1. Carries(allocated', h) = Carries(allocated, h) \cup {<<h, p>>}
        BY <3>1, <3>2 DEF Carries
      <4> QED BY <3>1, <3>2, <4>1
    <3>4. k # None
      BY LinehaulAssumption
    <3>5. WeightLeft(allocator[c].rows, h, p) /\ IsFiniteSet(Grams(allocator[c].rows))
      BY <1>2, <3>1, <3>2, <3>4 DEF AllocationsInv
    <3> DEFINE read == Carries(allocator[c].rows, h)
    <3>6. IsFiniteSet(Grams(read))
      BY <3>5, GramsOfSome
    <3>7. WeightOf(read) + PlanWeight[p] <= LinehaulWeight
      BY <3>5 DEF WeightLeft
    <3> HIDE DEF read
    <3>8. WeightOf(read \cup {<<h, p>>}) <= WeightOf(read) + PlanWeight[p]
          /\ IsFiniteSet(Grams(read \cup {<<h, p>>}))
      BY <3>6, GramsAdded
    <3>9. WeightOf(read) \in Nat /\ WeightOf(read \cup {<<h, p>>}) \in Nat
      BY <3>6, <3>8, FS_CardinalityType DEF WeightOf
    <3>10. WeightOf(read \cup {<<h, p>>}) <= LinehaulWeight
      BY <3>7, <3>8, <3>9, LinehaulAssumption
    <3> QED BY <3>3, <3>10 DEF read
  <2>3. ASSUME \/ \E h \in Linehauls : CreateLinehaul(h)
               \/ \E c \in Allocators, h \in Linehauls, p \in LinehaulPlans :
                     AllocateLinehaulRead(c, h, p)
               \/ \E g \in PostalRuns : CreatePostalConsignment(g)
               \/ \E g \in PostalRuns, r \in PostalReceptacles : AddReceptacleToConsignment(g, r)
        PROVE  UNCHANGED allocated
    BY <2>3 DEF CreateLinehaul, AllocateLinehaulRead, CreatePostalConsignment,
                AddReceptacleToConsignment
  <2>4. CASE UNCHANGED linehaulVars
    BY <2>1, <2>4 DEF linehaulVars
  <2> HIDE DEF Raced
  <2> QED BY <1>2, <2>1, <2>2, <2>3, <2>4 DEF LinehaulNext
<1>3. (AllocationsInv /\ [LinehaulNext]_linehaulVars) => [Raced]_linehaulVars
  BY <1>2
<1>4. OverloadedOnlyInARace <=> [][Raced]_linehaulVars
  BY DEF OverloadedOnlyInARace
<1>5. AllocationsInv /\ [LinehaulNext]_linehaulVars => AllocationsInv'
  BY AllocationsKept
<1> HIDE DEF Raced
<1> QED BY <1>1, <1>3, <1>4, <1>5, PTL DEF LinehaulSpec

\* The packages of some contents, when one is added.
LEMMA ParcelsAdded ==
    ASSUME NEW rows, IsFiniteSet(Parcels(rows)), NEW k \in Packings
    PROVE  /\ IsFiniteSet(Parcels(rows \cup {k}))
           /\ PackagesIn(rows \cup {k}) <= PackagesIn(rows) + Packages[k]
<1>1. Packages[k] \in Nat
  BY HandlingAssumption
<1>2. Parcels(rows \cup {k}) = Parcels(rows) \cup ({k} \X (1..Packages[k]))
  BY DEF Parcels
<1>3. /\ IsFiniteSet(Parcels(rows) \cup ({k} \X (1..Packages[k])))
      /\ Cardinality(Parcels(rows) \cup ({k} \X (1..Packages[k])))
           <= Cardinality(Parcels(rows)) + Packages[k]
  BY <1>1, UnitsAdded
<1> QED BY <1>2, <1>3 DEF PackagesIn

\* What a caller has read left room for what it packs.
ContentsInv ==
    /\ DOMAIN handler = Handlers /\ IsFiniteSet(Parcels(packed))
    /\ \A c \in Handlers :
         handler[c].op = "content" =>
            Packs(handler[c].rows, handler[c].on) /\ IsFiniteSet(Parcels(handler[c].rows))

LEMMA ContentsKept ==
    ASSUME ContentsInv, [HandlingNext]_handlingVars
    PROVE  ContentsInv'
<1>r. ASSUME NEW c \in Handlers, NEW op, NEW x, NEW rows, HandlerReads(c, op, x, rows),
             op = "content" => Packs(rows, x) /\ IsFiniteSet(Parcels(rows))
      PROVE  ContentsInv'
  <2>1. PICK w : w = [op |-> op, on |-> x, rows |-> rows]
    OBVIOUS
  <2>2. /\ w.op = op /\ w.on = x /\ w.rows = rows
        /\ handler' = [handler EXCEPT ![c] = w] /\ packed' = packed
    BY <1>r, <2>1 DEF HandlerReads
  <2>3. DOMAIN handler' = Handlers
        /\ \A b \in Handlers : handler'[b] = IF b = c THEN w ELSE handler[b]
    BY <2>2 DEF ContentsInv
  <2> QED BY <1>r, <2>2, <2>3 DEF ContentsInv
<1>w. ASSUME NEW c \in Handlers, NEW op, NEW x, HandlerWrites(c, op, x),
             IsFiniteSet(Parcels(packed'))
      PROVE  ContentsInv'
  <2>1. handler' = [handler EXCEPT ![c] = HandlerIdle] /\ HandlerIdle.op = "idle"
    BY <1>w DEF HandlerWrites, HandlerIdle
  <2>2. DOMAIN handler' = Handlers
        /\ \A b \in Handlers : handler'[b] = IF b = c THEN HandlerIdle ELSE handler[b]
    BY <2>1 DEF ContentsInv
  <2> QED BY <1>w, <2>1, <2>2 DEF ContentsInv
<1>1. ASSUME NEW c \in Handlers, NEW k \in Packings, AddContentRead(c, k) PROVE ContentsInv'
  BY <1>r, <1>1 DEF AddContentRead, ContentsInv
<1>2. ASSUME NEW c \in Handlers, NEW k \in Packings, AddContent(c, k) PROVE ContentsInv'
  <2>1. packed' = packed \cup {k} /\ HandlerWrites(c, "content", k)
    BY <1>2 DEF AddContent
  <2>2. IsFiniteSet(Parcels(packed'))
    BY <2>1, ParcelsAdded DEF ContentsInv
  <2> QED BY <1>w, <2>1, <2>2
<1>3. ASSUME NEW c \in Handlers, NEW e \in HandlingEvents,
             HandlingEventRead(c, e) \/ RecordHandlingEvent(c, e)
      PROVE  ContentsInv'
  <2>1. CASE HandlingEventRead(c, e)
    BY <1>r, <2>1 DEF HandlingEventRead
  <2>2. CASE RecordHandlingEvent(c, e)
    <3>1. packed' = packed
      BY <2>2 DEF RecordHandlingEvent
    <3>2. IsFiniteSet(Parcels(packed'))
      BY <3>1 DEF ContentsInv
    <3> QED BY <1>w, <2>2, <3>2 DEF RecordHandlingEvent
  <2> QED BY <1>3, <2>1, <2>2
<1>4. CASE UNCHANGED handlingVars
  BY <1>4 DEF handlingVars, ContentsInv, Packs
<1> QED BY <1>1, <1>2, <1>3, <1>4 DEF HandlingNext

\* More of a cargo item is packed than there is only by a request that did not see
\* what another one packed meanwhile (addHandlingContent).
THEOREM OverpackingsRaceOnly == HandlingSpec => OverpackedOnlyInARace
<1> DEFINE Raced ==
       (PackagesIn(packed) <= CargoPackages /\ PackagesIn(packed') > CargoPackages)
       => \E c \in Handlers : handler[c].op = "content" /\ handler[c].rows # packed
<1>1. HandlingInit => ContentsInv
  <2> SUFFICES ASSUME HandlingInit PROVE ContentsInv
    OBVIOUS
  <2>1. Parcels(packed) = {}
    BY DEF HandlingInit, Parcels
  <2>2. IsFiniteSet(Parcels(packed))
    BY <2>1, FS_EmptySet
  <2> QED BY <2>2 DEF HandlingInit, ContentsInv, HandlerIdle
<1>2. ASSUME ContentsInv, [HandlingNext]_handlingVars PROVE Raced
  <2>1. ASSUME UNCHANGED packed PROVE Raced
    <3>1. PackagesIn(packed) \in Nat
      BY <1>2, FS_CardinalityType DEF ContentsInv, PackagesIn
    <3>2. PackagesIn(packed') = PackagesIn(packed)
      BY <2>1
    <3> QED BY <3>1, <3>2, HandlingAssumption
  <2>2. ASSUME NEW c \in Handlers, NEW k \in Packings, AddContent(c, k) PROVE Raced
    <3>1. handler[c].op = "content" /\ handler[c].on = k /\ packed' = packed \cup {k}
      BY <2>2 DEF AddContent, HandlerWrites
    <3>2. CASE handler[c].rows # packed
      BY <3>1, <3>2
    <3>3. CASE handler[c].rows = packed
      <4>1. PackagesIn(packed) + Packages[k] <= CargoPackages /\ IsFiniteSet(Parcels(packed))
        BY <1>2, <3>1, <3>3 DEF ContentsInv, Packs
      <4>2. /\ PackagesIn(packed \cup {k}) <= PackagesIn(packed) + Packages[k]
            /\ IsFiniteSet(Parcels(packed \cup {k}))
        BY <4>1, ParcelsAdded
      <4>3. PackagesIn(packed) \in Nat /\ PackagesIn(packed \cup {k}) \in Nat
        BY <4>1, <4>2, FS_CardinalityType DEF PackagesIn
      <4>4. ~(PackagesIn(packed \cup {k}) > CargoPackages)
        BY <4>1, <4>2, <4>3, HandlingAssumption
      <4> QED BY <3>1, <4>4
    <3> QED BY <3>2, <3>3
  <2>3. ASSUME NEW c \in Handlers,
               \/ \E k \in Packings : AddContentRead(c, k)
               \/ \E e \in HandlingEvents : HandlingEventRead(c, e) \/ RecordHandlingEvent(c, e)
        PROVE  UNCHANGED packed
    BY <2>3 DEF AddContentRead, HandlingEventRead, RecordHandlingEvent, HandlerReads
  <2>4. CASE UNCHANGED handlingVars
    BY <2>1, <2>4 DEF handlingVars
  <2> HIDE DEF Raced
  <2> QED BY <1>2, <2>1, <2>2, <2>3, <2>4 DEF HandlingNext
<1>3. (ContentsInv /\ [HandlingNext]_handlingVars) => [Raced]_handlingVars
  BY <1>2
<1>4. OverpackedOnlyInARace <=> [][Raced]_handlingVars
  BY DEF OverpackedOnlyInARace
<1>5. ContentsInv /\ [HandlingNext]_handlingVars => ContentsInv'
  BY ContentsKept
<1> HIDE DEF Raced
<1> QED BY <1>1, <1>3, <1>4, <1>5, PTL DEF HandlingSpec

-----------------------------------------------------------------------------
(***************************************************************************)
(* The composition.                                                        *)
(***************************************************************************)

allVars == <<focus, documentVars, dispatchVars, papersVars, customsVars, insuranceVars,
             consolidationVars, handlingVars, postalVars, sessionsVars, partnerVars,
             linehaulVars, enrolmentVars, accessVars, throttleVars, partnerKeysVars>>

\* A step of the composition is a step of every component: of the one in focus, while
\* the others stand still.
LEMMA StepsOfComponents ==
    ASSUME [Next]_allVars
    PROVE  /\ [DocumentNext]_documentVars /\ [DispatchNext]_dispatchVars
           /\ [PapersNext]_papersVars /\ [CustomsNext]_customsVars
           /\ [InsuranceNext]_insuranceVars /\ [ConsolidationNext]_consolidationVars
           /\ [HandlingNext]_handlingVars /\ [PostalNext]_postalVars
           /\ [SessionsNext]_sessionsVars /\ [PartnerNext]_partnerVars
           /\ [LinehaulNext]_linehaulVars
           /\ [EnrolmentNext]_enrolmentVars /\ [AccessNext]_accessVars
           /\ [ThrottleNext]_throttleVars /\ [PartnerKeysNext]_partnerKeysVars
<1>1. CASE Next
  <2>1. /\ focus # "documents" => UNCHANGED documentVars
        /\ focus # "dispatch" => UNCHANGED dispatchVars
        /\ focus # "papers" => UNCHANGED papersVars
        /\ focus # "customs" => UNCHANGED customsVars
        /\ focus # "insurance" => UNCHANGED insuranceVars
        /\ focus # "consolidation" => UNCHANGED consolidationVars
        /\ focus # "handling" => UNCHANGED handlingVars
        /\ focus # "postal" => UNCHANGED postalVars
        /\ focus # "sessions" => UNCHANGED sessionsVars
        /\ focus # "partner" => UNCHANGED partnerVars
        /\ focus # "linehaul" => UNCHANGED linehaulVars
        /\ focus # "enrolment" => UNCHANGED enrolmentVars
        /\ focus # "access" => UNCHANGED accessVars
        /\ focus # "throttle" => UNCHANGED throttleVars
        /\ focus \notin {"keys", "calls", "notices"} => UNCHANGED partnerKeysVars
    BY <1>1 DEF Next, Still
  <2>2. /\ focus = "documents" => DocumentNext
        /\ focus = "dispatch" => DispatchNext
        /\ focus = "papers" => PapersNext
        /\ focus = "customs" => CustomsNext
        /\ focus = "insurance" => InsuranceNext
        /\ focus = "consolidation" => ConsolidationNext
        /\ focus = "handling" => HandlingNext
        /\ focus = "postal" => PostalNext
        /\ focus = "sessions" => SessionsNext
        /\ focus = "partner" => PartnerNext
        /\ focus = "linehaul" => LinehaulNext
        /\ focus = "enrolment" => EnrolmentNext
        /\ focus = "access" => AccessNext
        /\ focus = "throttle" => ThrottleNext
        /\ focus = "keys" => RotationNext
        /\ focus = "calls" => CreateKey(t1) \/ RevokeKey(t1) \/ CallNext
        /\ focus = "notices" => NoticeNext
    BY <1>1 DEF Next
  <2>3. CreateKey(t1) \/ RevokeKey(t1) => RotationNext
    BY CallerAssumption DEF RotationNext
  <2>4. focus \in {"keys", "calls", "notices"} => PartnerKeysNext
    BY <2>2, <2>3 DEF PartnerKeysNext
  <2> QED BY <2>1, <2>2, <2>4
<1>2. CASE UNCHANGED allVars
  BY <1>2 DEF allVars
<1> QED BY <1>1, <1>2

\* A behaviour of the composition is a behaviour of each component.
LEMMA SpecOfComponents ==
    Spec => /\ DocumentSpec /\ DispatchSpec /\ PapersSpec /\ CustomsSpec /\ InsuranceSpec
            /\ ConsolidationSpec /\ HandlingSpec /\ PostalSpec /\ SessionsSpec
            /\ PartnerInit /\ [][PartnerNext]_partnerVars /\ LinehaulSpec
            /\ EnrolmentSpec /\ AccessSpec /\ ThrottleSpec /\ PartnerKeysSpec
<1>1. Init => /\ DocumentInit /\ DispatchInit /\ PapersInit /\ CustomsInit /\ InsuranceInit
              /\ ConsolidationInit /\ HandlingInit /\ PostalInit /\ SessionsInit
              /\ PartnerInit /\ LinehaulInit /\ EnrolmentInit /\ AccessInit /\ ThrottleInit
              /\ PartnerKeysInit
  BY DEF Init
<1> QED
  BY <1>1, StepsOfComponents, PTL
     DEF Spec, allVars, DocumentSpec, DispatchSpec, PapersSpec, CustomsSpec, InsuranceSpec,
         ConsolidationSpec, HandlingSpec, PostalSpec, SessionsSpec, LinehaulSpec,
         EnrolmentSpec, AccessSpec, ThrottleSpec, PartnerKeysSpec

\* What is sent again, under one key or as one event, is done once, and what is sent by
\* several processes is with one of them (recordHandlingEvent, recordPostalEvent,
\* submitOrder, receiveWebhook, processDeliveries).
THEOREM RepetitionsDoNothing == Spec => []RepeatedOnce
BY SpecOfComponents, EventsHandledOnce, ReportsOnce, OrdersAcceptedOnce, NoticesOnce,
   WebhooksHandedOver, PTL DEF RepeatedOnce

\* Records that overlapping requests write one after another agree
\* (transitionInsuranceClaim, transitionPostalDispatch, createDocument,
\* processDeliveries).
THEOREM RecordsStayInAgreement == Spec => []RecordsAgree
BY SpecOfComponents, PaymentsApproved, HistoriesConnected, DispatchesFilled, RevisionsRunOn,
   WebhooksHandedOver, PTL DEF RecordsAgree

\* Overlapping requests get no more keys, attempts, calls or recovery codes than one
\* after another would (rotateCredential, consume, consumeRate, enroll).
THEOREM AccessIsSound == Spec => []AccessSound
BY SpecOfComponents, KeysSucceedOnce, AttemptsLimited, CallsLimited, CodesGoWithTheirFactor,
   PTL DEF AccessSound

\* What was weighed or counted before it was loaded exceeds its room only when
\* another request came in between (assertCapacity, allocateLinehaul,
\* addHandlingContent, transitionConsolidation).
THEOREM CapacitiesRaceOnly == Spec => CapacityExceededOnlyInARace
BY SpecOfComponents, OverbookingsRaceOnly, OverloadsRaceOnly, OverpackingsRaceOnly,
   UnweighedRaceOnly, PTL DEF CapacityExceededOnlyInARace

\* No request undoes what customs decided, the expiry of a quote or a policy, the
\* outcome of a webhook or the handover of mail; a departed plan goes back to OPEN only
\* by a member written after a read that found it a DRAFT (transitionCustomsFiling,
\* acceptInsuranceQuote, processDeliveries, addConsolidationMember,
\* transitionConsolidation, transitionPostalDispatch, transitionReceptacle).
THEOREM DecisionsAreKept == Spec => DecisionsStand
BY SpecOfComponents, CustomsDecides, ExpiredBindsNobody, ExpiredStaysExpired, OutcomesFinal,
   DepartedStaysOutside, HandoversDespatch, ReceptaclesFollow, PTL
   DEF DecisionsStand

\* A right that was taken away is gone for every request that did not hold it already
\* (setUserRoles, MachineAuthGuard, rotateRefreshToken, enroll, confirm).
THEOREM RightsAreEnded == Spec => RightsEnd
BY SpecOfComponents, ExcessExplained, RevokedKeysRefused, ReuseEndsTheSession, FactorsStayOn,
   FactorsProven, PTL DEF RightsEnd

\* A transport completes with its proof, and a session is what its tokens, codes and
\* resets say, in the composition too (completeBooking, rotateRefreshToken,
\* resetPassword).
THEOREM TransportAndSessionsSound == Spec => [](TransportProven /\ SessionsSound)
BY SpecOfComponents, TransportsProven, SessionsAreSound, PTL
=============================================================================
