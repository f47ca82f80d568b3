-------------------------------- MODULE Catalog --------------------------------
(***************************************************************************)
(* A supplier's product submissions, their review, and the offers made on  *)
(* the products that come of them (CatalogRepository).                     *)
(*                                                                         *)
(* Submitting and rejecting are one conditional update each.  approve and  *)
(* publishOffer read in the snapshot of their transaction and write by id: *)
(* another request may commit in between.                                  *)
(***************************************************************************)
EXTENDS Naturals, FiniteSets, Rows

CONSTANTS
    Submissions,    \* product submissions that may be created
    SlugOf,         \* [Submissions -> slug, unique among the products of a store]
    Attributes,     \* attribute keys that may be defined
    GivenAttributes, \* [Submissions -> SUBSET Attributes]: the attributes filled in
    Offers,         \* offers that may be created
    OfferOf,        \* [Offers -> <<submission of the product, seller>>]
    Reviewers       \* concurrent HTTP requests

ASSUME CatalogAssumption ==
    /\ None \notin Submissions \cup Offers
    /\ GivenAttributes \in [Submissions -> SUBSET Attributes]
    /\ DOMAIN SlugOf = Submissions /\ DOMAIN OfferOf = Offers
    /\ IsFiniteSet(Reviewers)

VARIABLES
    submission,     \* ProductSubmission.status, "NONE" before the row exists
    products,       \* products created of a submission
    defined,        \* AttributeDefinition.key
    required,       \* those with isRequired
    offer,          \* Offer.status, "NONE" before the row exists
    published,      \* catalog.offer.published.v1 events of an offer
    reviewer        \* what a caller has read and goes on to write

catalogVars == <<submission, products, defined, required, offer, published, reviewer>>

ReviewerIdle == [op |-> "idle", on |-> None, required |-> {}]

CatalogInit ==
    /\ submission = [s \in Submissions |-> "NONE"] /\ products = [s \in Submissions |-> 0]
    /\ defined = {} /\ required = {}
    /\ offer = [o \in Offers |-> "NONE"] /\ published = [o \in Offers |-> 0]
    /\ reviewer = [c \in Reviewers |-> ReviewerIdle]

CreateAttribute(a, isRequired) ==
    /\ a \notin defined
    /\ defined' = defined \cup {a}
    /\ required' = IF isRequired THEN required \cup {a} ELSE required
    /\ UNCHANGED <<submission, products, offer, published, reviewer>>

MoveSubmission(s, from, to) ==
    /\ submission[s] = from
    /\ submission' = [submission EXCEPT ![s] = to]
    /\ UNCHANGED <<products, defined, required, offer, published, reviewer>>

CreateSubmission(s) == MoveSubmission(s, "NONE", "DRAFT")

SubmitProduct(s) == MoveSubmission(s, "DRAFT", "SUBMITTED")

Reject(s) == MoveSubmission(s, "SUBMITTED", "REJECTED")

ReviewerReads(c, op, x) ==
    /\ reviewer[c] = ReviewerIdle
    /\ reviewer' = [reviewer EXCEPT ![c] = [op |-> op, on |-> x, required |-> required]]
    /\ UNCHANGED <<submission, products, defined, required, offer, published>>

ReviewerWrites(c, op, x) ==
    /\ reviewer[c].op = op /\ reviewer[c].on = x
    /\ reviewer' = [reviewer EXCEPT ![c] = ReviewerIdle]

Approvable(s) == submission[s] = "SUBMITTED"

\* No attribute is unknown, and no required one is missing.
AttributesComplete(s) == GivenAttributes[s] \subseteq defined /\ required \subseteq GivenAttributes[s]

ApproveRead(c, s) == Approvable(s) /\ AttributesComplete(s) /\ ReviewerReads(c, "approve", s)

SlugFree(s) == \A other \in Submissions : SlugOf[other] = SlugOf[s] => products[other] = 0

\* The product is created, or its slug is taken and nothing happens. The
\* submission is written by id: a rejection after the read is overwritten.
Approve(c, s) ==
    /\ ReviewerWrites(c, "approve", s)
    /\ IF SlugFree(s)
         THEN /\ products' = [products EXCEPT ![s] = @ + 1]
              /\ submission' = [submission EXCEPT ![s] = "APPROVED"]
         ELSE UNCHANGED <<products, submission>>
    /\ UNCHANGED <<defined, required, offer, published>>

OfferFree(o) == \A other \in Offers : OfferOf[other] = OfferOf[o] => offer[other] = "NONE"

\* The product's variant is read before; a product is never taken away.
CreateOffer(o) ==
    /\ offer[o] = "NONE" /\ products[OfferOf[o][1]] > 0 /\ OfferFree(o)
    /\ offer' = [offer EXCEPT ![o] = "DRAFT"]
    /\ UNCHANGED <<submission, products, defined, required, published, reviewer>>

\* Nothing sets SUSPENDED, the other status publishOffer accepts.
Publishable(o) == offer[o] = "DRAFT"

PublishOfferRead(c, o) == Publishable(o) /\ ReviewerReads(c, "publish", o)

\* By id: each of two overlapping requests announces the offer.
PublishOffer(c, o) ==
    /\ ReviewerWrites(c, "publish", o)
    /\ offer' = [offer EXCEPT ![o] = "ACTIVE"]
    /\ published' = [published EXCEPT ![o] = @ + 1]
    /\ UNCHANGED <<submission, products, defined, required>>

CatalogNext ==
    \/ \E a \in Attributes, isRequired \in BOOLEAN : CreateAttribute(a, isRequired)
    \/ \E s \in Submissions : CreateSubmission(s) \/ SubmitProduct(s) \/ Reject(s)
    \/ \E c \in Reviewers, s \in Submissions : ApproveRead(c, s) \/ Approve(c, s)
    \/ \E o \in Offers : CreateOffer(o)
    \/ \E c \in Reviewers, o \in Offers : PublishOfferRead(c, o) \/ PublishOffer(c, o)

CatalogSpec == CatalogInit /\ [][CatalogNext]_catalogVars

-----------------------------------------------------------------------------
(***************************************************************************)
(* Properties.                                                             *)
(***************************************************************************)

InHand(op, x) == {c \in Reviewers : reviewer[c].op = op /\ reviewer[c].on = x}

\* A rejection is taken back only by an approval that had read the submission
\* before it: no other picks it up, and with none under way it is final
\* (approve, reject).
RejectedUnlessOvertaken ==
    [][\A s \in Submissions : submission[s] = "REJECTED" =>
          /\ InHand("approve", s)' \subseteq InHand("approve", s)
          /\ InHand("approve", s) = {} => submission'[s] = "REJECTED"]_catalogVars

\* Each request announces an offer at most once, and one that comes after the
\* offer is ACTIVE does not (publishOffer).
AnnouncedOncePerReader ==
    \A o \in Offers :
       published[o] + Cardinality(InHand("publish", o)) <= Cardinality(Reviewers)
=============================================================================
