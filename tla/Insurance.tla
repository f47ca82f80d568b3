------------------------------- MODULE Insurance -------------------------------
(***************************************************************************)
(* Cargo insurance of one freight request: quotes, the policy and premium  *)
(* invoice an accepted quote becomes, its payment, the claims on it and    *)
(* the worker that expires quotes and policies                             *)
(* (InternationalLogisticsRepository, TransportOperationsSweeper).         *)
(*                                                                         *)
(* A quote is taken by its status, a claim by the version the client read. *)
(***************************************************************************)
EXTENDS Naturals, FiniteSets, Rows

CONSTANTS
    CoverQuotes,  \* insurance quotes, each may become one policy
    Free,         \* quotes whose total is zero
    Claims,       \* claims that may be made
    ClaimPolicy,  \* [Claims -> CoverQuotes]: the policy of the claim
    Claimed,      \* [Claims -> Nat]: claimedAmountMinor
    Amounts,      \* amounts a transition may approve or pay
    Assessors     \* concurrent HTTP requests

ASSUME InsuranceAssumption ==
    /\ Free \subseteq CoverQuotes
    /\ ClaimPolicy \in [Claims -> CoverQuotes] /\ Claimed \in [Claims -> Nat]
    /\ Amounts \subseteq Nat
    /\ None \notin CoverQuotes \cup Claims \cup Amounts

VARIABLES
    coverQuote,  \* CargoInsuranceQuote.status, "NONE" before the row exists
    quoteOver,   \* validUntil has passed
    policy,      \* CargoInsurancePolicy.status, "NONE" before the row exists
    coverOver,   \* coverageEndAt has passed
    premium,     \* premium invoice: "NONE", "ISSUED" or "PAID"
    claim,       \* CargoInsuranceClaim: status, version, approved, paid
    claimEvents, \* STATUS_CHANGED events of each claim, <<from, to>> by version
    assessor     \* what a caller has read and goes on to write

insuranceVars == <<coverQuote, quoteOver, policy, coverOver, premium, claim, claimEvents,
                   assessor>>

NoClaim == [status |-> "NONE", version |-> 0, approved |-> 0, paid |-> 0]
AssessorIdle == [op |-> "idle", on |-> None, seen |-> NoClaim, next |-> "NONE"]

InsuranceInit ==
    /\ coverQuote = [q \in CoverQuotes |-> "NONE"] /\ quoteOver = [q \in CoverQuotes |-> FALSE]
    /\ policy = [q \in CoverQuotes |-> "NONE"] /\ coverOver = [q \in CoverQuotes |-> FALSE]
    /\ premium = [q \in CoverQuotes |-> "NONE"]
    /\ claim = [k \in Claims |-> NoClaim] /\ claimEvents = [k \in Claims |-> {}]
    /\ assessor = [c \in Assessors |-> AssessorIdle]

AssessorReads(c, op, x, seen, next) ==
    /\ assessor[c] = AssessorIdle
    /\ assessor' = [assessor EXCEPT ![c] = [op |-> op, on |-> x, seen |-> seen, next |-> next]]
    /\ UNCHANGED <<coverQuote, quoteOver, policy, coverOver, premium, claim, claimEvents>>

AssessorWrites(c, op, x) ==
    /\ assessor[c].op = op /\ assessor[c].on = x
    /\ assessor' = [assessor EXCEPT ![c] = AssessorIdle]

-----------------------------------------------------------------------------
CreateInsuranceQuote(q) ==
    /\ coverQuote[q] = "NONE"
    /\ coverQuote' = [coverQuote EXCEPT ![q] = "QUOTED"]
    /\ UNCHANGED <<quoteOver, policy, coverOver, premium, claim, claimEvents, assessor>>

AcceptCoverRead(c, q) ==
    /\ coverQuote[q] = "QUOTED" /\ ~quoteOver[q]
    /\ AssessorReads(c, "accept", q, NoClaim, "NONE")

QuoteTaken(q) == coverQuote[q] = "QUOTED"

\* Quote, invoice and policy in one transaction; a policy is unique in its quote.
AcceptCover(c, q) ==
    /\ AssessorWrites(c, "accept", q)
    /\ IF QuoteTaken(q) /\ policy[q] = "NONE"
         THEN /\ coverQuote' = [coverQuote EXCEPT ![q] = "ACCEPTED"]
              /\ premium' = [premium EXCEPT ![q] = "ISSUED"]
              /\ policy' = [policy EXCEPT ![q] =
                              IF q \in Free THEN "ACTIVE" ELSE "AWAITING_PAYMENT"]
         ELSE UNCHANGED <<coverQuote, premium, policy>>
    /\ UNCHANGED <<quoteOver, coverOver, claim, claimEvents>>

Activates(q) == policy[q] = "AWAITING_PAYMENT"

\* The billing service applies the last payment of the premium invoice.
PayPremium(q) ==
    /\ premium[q] = "ISSUED"
    /\ premium' = [premium EXCEPT ![q] = "PAID"]
    /\ policy' = [policy EXCEPT ![q] = IF Activates(q) THEN "ACTIVE" ELSE @]
    /\ UNCHANGED <<coverQuote, quoteOver, coverOver, claim, claimEvents, assessor>>

Passes(q) ==
    /\ \/ ~quoteOver[q] /\ quoteOver' = [quoteOver EXCEPT ![q] = TRUE] /\ UNCHANGED coverOver
       \/ ~coverOver[q] /\ coverOver' = [coverOver EXCEPT ![q] = TRUE] /\ UNCHANGED quoteOver
    /\ UNCHANGED <<coverQuote, policy, premium, claim, claimEvents, assessor>>

\* The sweeper's two updates.
ExpireQuotes ==
    LET over == {q \in CoverQuotes : coverQuote[q] = "QUOTED" /\ quoteOver[q]} IN
    /\ over # {}
    /\ coverQuote' = [q \in CoverQuotes |-> IF q \in over THEN "EXPIRED" ELSE coverQuote[q]]
    /\ UNCHANGED <<quoteOver, policy, coverOver, premium, claim, claimEvents, assessor>>

ExpirePolicies ==
    LET over == {q \in CoverQuotes : policy[q] \in {"AWAITING_PAYMENT", "ACTIVE"} /\ coverOver[q]}
    IN
    /\ over # {}
    /\ policy' = [q \in CoverQuotes |-> IF q \in over THEN "EXPIRED" ELSE policy[q]]
    /\ UNCHANGED <<coverQuote, quoteOver, coverOver, premium, claim, claimEvents, assessor>>

-----------------------------------------------------------------------------
(***************************************************************************)
(* Claims.                                                                 *)
(***************************************************************************)

\* An ACTIVE policy; a claim is no more than the insured value (any claim here).
CreateClaimRead(c, k) ==
    /\ claim[k] = NoClaim /\ policy[ClaimPolicy[k]] = "ACTIVE"
    /\ AssessorReads(c, "claim", k, NoClaim, "NONE")

CreateClaim(c, k) ==
    /\ AssessorWrites(c, "claim", k)
    /\ IF claim[k] = NoClaim
         THEN claim' = [claim EXCEPT ![k] = [NoClaim EXCEPT !.status = "DRAFT", !.version = 1]]
         ELSE UNCHANGED claim
    /\ UNCHANGED <<coverQuote, quoteOver, policy, coverOver, premium, claimEvents>>

ClaimMoves ==
    {<<"DRAFT", "SUBMITTED">>, <<"DRAFT", "CANCELLED">>,
     <<"SUBMITTED", "UNDER_REVIEW">>, <<"SUBMITTED", "INFO_REQUIRED">>,
     <<"SUBMITTED", "REJECTED">>,
     <<"INFO_REQUIRED", "SUBMITTED">>, <<"INFO_REQUIRED", "CANCELLED">>,
     <<"UNDER_REVIEW", "INFO_REQUIRED">>, <<"UNDER_REVIEW", "APPROVED">>,
     <<"UNDER_REVIEW", "PARTIALLY_APPROVED">>, <<"UNDER_REVIEW", "REJECTED">>,
     <<"APPROVED", "PAID">>, <<"PARTIALLY_APPROVED", "PAID">>,
     <<"REJECTED", "CLOSED">>, <<"PAID", "CLOSED">>}

\* Bound: SUBMITTED and INFO_REQUIRED alternate at most once.
MaxClaimVersion == 6

TransitionClaimRead(c, k, next) ==
    /\ <<claim[k].status, next>> \in ClaimMoves
    /\ claim[k].version < MaxClaimVersion
    /\ AssessorReads(c, "move", k, claim[k], next)

\* Mutant: the version the client read is not compared.
ClaimTakenById(c, k) == TRUE

ClaimTaken(c, k) == claim[k].version = assessor[c].seen.version

\* An amount may come with any transition; without one the row keeps its own,
\* and the limits are checked on what was read.
TransitionClaim(c, k, approval, payment) ==
    LET seen == assessor[c].seen
        approved == IF approval = None THEN seen.approved ELSE approval
        paid == IF payment = None THEN seen.paid ELSE payment
    IN
    /\ AssessorWrites(c, "move", k)
    /\ IF approved <= Claimed[k] /\ paid <= approved /\ ClaimTaken(c, k)
         THEN /\ claim' = [claim EXCEPT ![k] =
                    [status   |-> assessor[c].next,
                     version  |-> @.version + 1,
                     approved |-> IF approval = None THEN @.approved ELSE approval,
                     paid     |-> IF payment = None THEN @.paid ELSE payment]]
              /\ claimEvents' = [claimEvents EXCEPT ![k] =
                    @ \cup {[at |-> claim[k].version, from |-> seen.status,
                             to |-> assessor[c].next]}]
         ELSE UNCHANGED <<claim, claimEvents>>
    /\ UNCHANGED <<coverQuote, quoteOver, policy, coverOver, premium>>

InsuranceNext ==
    \/ ExpireQuotes \/ ExpirePolicies
    \/ \E q \in CoverQuotes : CreateInsuranceQuote(q) \/ PayPremium(q) \/ Passes(q)
    \/ \E c \in Assessors :
          \/ \E q \in CoverQuotes : AcceptCoverRead(c, q) \/ AcceptCover(c, q)
          \/ \E k \in Claims :
                \/ CreateClaimRead(c, k) \/ CreateClaim(c, k)
                \/ \E next \in {move[2] : move \in ClaimMoves} : TransitionClaimRead(c, k, next)
                \/ \E approval, payment \in Amounts \cup {None} :
                      TransitionClaim(c, k, approval, payment)

InsuranceSpec == InsuranceInit /\ [][InsuranceNext]_insuranceVars

-----------------------------------------------------------------------------
(***************************************************************************)
(* Properties.                                                             *)
(***************************************************************************)

\* A quote the sweeper expired never becomes a policy, although the customer's
\* request may have found it valid (acceptInsuranceQuote, sweep).
ExpiredNeverBinds ==
    [][\A q \in CoverQuotes : coverQuote[q] = "EXPIRED" =>
          coverQuote'[q] = "EXPIRED" /\ policy'[q] = "NONE"]_insuranceVars

\* A policy that ended unpaid is not revived by a late payment of its premium
\* (applySucceededPayment, sweep).
ExpiredPolicyStays ==
    [][\A q \in CoverQuotes : policy[q] = "EXPIRED" => policy'[q] = "EXPIRED"]_insuranceVars

\* Whatever transitions overlap, what is paid was approved and what is approved
\* was claimed (transitionInsuranceClaim).
PaidWithinApproved ==
    \A k \in Claims : claim[k].paid <= claim[k].approved /\ claim[k].approved <= Claimed[k]

\* The events of a claim are one history: each begins where the last one ended
\* (transitionInsuranceClaim).
ClaimHistoryConnected ==
    \A k \in Claims : \A e, f \in claimEvents[k] :
       (f.at = e.at + 1 => f.from = e.to) /\ (e.at = f.at => e = f)
=============================================================================
