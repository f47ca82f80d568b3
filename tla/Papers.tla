--------------------------------- MODULE Papers ---------------------------------
(***************************************************************************)
(* Papers of one transport consignment (InternationalLogisticsRepository): *)
(* the revisions of its transport document of one type (createDocument,    *)
(* transitionDocument) and its customs filings of one type                 *)
(* (createCustomsFiling, transitionCustomsFiling).  The two share no state *)
(* and no step.                                                            *)
(*                                                                         *)
(* The next revision is counted, and the status checked, on a read before  *)
(* the write; a document is then written by id.  A filing is written by id *)
(* and the version the client read.  CustomsFiling.version is that lock    *)
(* and also the number of the filing, unique among filings of its type.    *)
(***************************************************************************)
EXTENDS Naturals, FiniteSets, FiniteSetsExt, Rows

CONSTANTS
    Papers,     \* transport documents that may be created
    Carriers,   \* concurrent HTTP requests about them
    Filings,    \* customs filings that may be created
    Declarants  \* concurrent HTTP requests about them

ASSUME PapersAssumption == None \notin Papers /\ IsFiniteSet(Papers)

VARIABLES
    paper,      \* TransportDocument.status, "NONE" before the row exists
    paperRevision, \* TransportDocument.revision, 0 before
    carrier     \* what a caller has read and goes on to write

papersVars == <<paper, paperRevision, carrier>>

CarrierIdle == [op |-> "idle", on |-> None, revision |-> 0]

PapersInit ==
    /\ paper = [d \in Papers |-> "NONE"] /\ paperRevision = [d \in Papers |-> 0]
    /\ carrier = [c \in Carriers |-> CarrierIdle]

CarrierReads(c, op, d, n) ==
    /\ carrier[c] = CarrierIdle
    /\ carrier' = [carrier EXCEPT ![c] = [op |-> op, on |-> d, revision |-> n]]
    /\ UNCHANGED <<paper, paperRevision>>

CarrierWrites(c, op, d) ==
    /\ carrier[c].op = op /\ carrier[c].on = d
    /\ carrier' = [carrier EXCEPT ![c] = CarrierIdle]

\* The highest revision in use, 0 when there is none.
HighestRevision == Max({0} \cup {paperRevision[d] : d \in Papers})

\* The document a new one supersedes must not be VOID; nothing is done with it,
\* and a request that names none is not held up.
CreatePaperRead(c, d) ==
    paper[d] = "NONE" /\ CarrierReads(c, "create", d, HighestRevision + 1)

RevisionUnused(n) == \A d \in Papers : paperRevision[d] # n

\* The number counted before is unique in consignment and type.
CreatePaper(c, d) ==
    /\ CarrierWrites(c, "create", d)
    /\ IF paper[d] = "NONE" /\ RevisionUnused(carrier[c].revision)
         THEN /\ paper' = [paper EXCEPT ![d] = "DRAFT"]
              /\ paperRevision' = [paperRevision EXCEPT ![d] = carrier[c].revision]
         ELSE UNCHANGED <<paper, paperRevision>>

PaperMoves ==
    {<<"DRAFT", "ISSUED">>, <<"DRAFT", "VOID">>,
     <<"ISSUED", "SIGNED">>, <<"ISSUED", "SURRENDERED">>, <<"ISSUED", "VOID">>,
     <<"SIGNED", "SURRENDERED">>, <<"SIGNED", "VOID">>, <<"SURRENDERED", "VOID">>}

TransitionPaperRead(c, d, next) ==
    <<paper[d], next>> \in PaperMoves /\ CarrierReads(c, next, d, 0)

\* A VOID document comes back if its voiding overtook the request.
TransitionPaper(c, d, next) ==
    /\ CarrierWrites(c, next, d)
    /\ paper' = [paper EXCEPT ![d] = next]
    /\ UNCHANGED paperRevision

PapersNext ==
    \E c \in Carriers, d \in Papers :
       \/ CreatePaperRead(c, d) \/ CreatePaper(c, d)
       \/ \E next \in {"ISSUED", "SIGNED", "SURRENDERED", "VOID"} :
             TransitionPaperRead(c, d, next) \/ TransitionPaper(c, d, next)

PapersSpec == PapersInit /\ [][PapersNext]_papersVars

-----------------------------------------------------------------------------
(***************************************************************************)
(* Customs filings.                                                        *)
(***************************************************************************)
ASSUME CustomsAssumption == None \notin Filings

VARIABLES
    filing,     \* CustomsFiling.status, "NONE" before the row exists
    filingVersion,
    declarant   \* what a caller has read and goes on to write

customsVars == <<filing, filingVersion, declarant>>

DeclarantIdle == [op |-> "idle", on |-> None, version |-> 0]

CustomsInit ==
    /\ filing = [f \in Filings |-> "NONE"] /\ filingVersion = [f \in Filings |-> 0]
    /\ declarant = [c \in Declarants |-> DeclarantIdle]

DeclarantReads(c, op, x, version) ==
    /\ declarant[c] = DeclarantIdle
    /\ declarant' = [declarant EXCEPT ![c] = [op |-> op, on |-> x, version |-> version]]
    /\ UNCHANGED <<filing, filingVersion>>

DeclarantWrites(c, op, x) ==
    /\ declarant[c].op = op /\ declarant[c].on = x
    /\ declarant' = [declarant EXCEPT ![c] = DeclarantIdle]

\* The highest version in use, 0 when there is none.
HighestVersion == Max({0} \cup {filingVersion[f] : f \in Filings})

-----------------------------------------------------------------------------
CreateFilingRead(c, f) ==
    filing[f] = "NONE" /\ DeclarantReads(c, "filing", f, HighestVersion + 1)

VersionUnused(n) == \A f \in Filings : filingVersion[f] # n

CreateFiling(c, f) ==
    /\ DeclarantWrites(c, "filing", f)
    /\ IF filing[f] = "NONE" /\ VersionUnused(declarant[c].version)
         THEN /\ filing' = [filing EXCEPT ![f] = "DRAFT"]
              /\ filingVersion' = [filingVersion EXCEPT ![f] = declarant[c].version]
         ELSE UNCHANGED <<filing, filingVersion>>

FilingMoves ==
    {<<"DRAFT", "LODGED">>, <<"LODGED", "HELD">>, <<"LODGED", "RELEASED">>,
     <<"LODGED", "REJECTED">>, <<"HELD", "RELEASED">>, <<"HELD", "REJECTED">>}

TransitionFilingRead(c, f, next) ==
    <<filing[f], next>> \in FilingMoves /\ DeclarantReads(c, next, f, filingVersion[f])

\* Mutant: the row is written by id alone.
FilingUnclaimed(c, f) == TRUE

FilingClaimed(c, f) == filingVersion[f] = declarant[c].version

\* The version is incremented, which another filing's number may forbid.
TransitionFiling(c, f, next) ==
    /\ DeclarantWrites(c, next, f)
    /\ IF FilingClaimed(c, f) /\ VersionUnused(filingVersion[f] + 1)
         THEN /\ filing' = [filing EXCEPT ![f] = next]
              /\ filingVersion' = [filingVersion EXCEPT ![f] = @ + 1]
         ELSE UNCHANGED <<filing, filingVersion>>

CustomsNext ==
    \E c \in Declarants, f \in Filings :
       \/ CreateFilingRead(c, f) \/ CreateFiling(c, f)
       \/ \E next \in {"LODGED", "HELD", "RELEASED", "REJECTED"} :
             TransitionFilingRead(c, f, next) \/ TransitionFiling(c, f, next)

CustomsSpec == CustomsInit /\ [][CustomsNext]_customsVars

-----------------------------------------------------------------------------
(***************************************************************************)
(* Properties.                                                             *)
(***************************************************************************)

\* Revisions counted by overlapping requests are 1, 2, ... without a repetition
\* (createDocument and the unique revision).
RevisionsCounted ==
    LET issued == {d \in Papers : paper[d] # "NONE"} IN
    {paperRevision[d] : d \in issued} = 1..Cardinality(issued)

\* The decision of the customs office is final: no answer that was on its way
\* changes a RELEASED or REJECTED filing (transitionCustomsFiling).
CustomsDecisionFinal ==
    [][\A f \in Filings :
         filing[f] \in {"RELEASED", "REJECTED"} => filing'[f] = filing[f]]_customsVars

\* allowed of transitionCustomsFiling says where a LODGED or HELD filing can go
\* next: a client that has its version can take it there.
LodgedCanBeDecided ==
    \A f \in Filings :
       filing[f] \in {"LODGED", "HELD"} => VersionUnused(filingVersion[f] + 1)
=============================================================================
