----------------------------- MODULE Marketplace -----------------------------
(***************************************************************************)
(* Sellers and listings of the C2C marketplace before and beside the deal  *)
(* (C2CRepository: verifySeller, createListing, submit, moderate, review). *)
(* What happens to an offer and its hold is Escrow's.                      *)
(*                                                                         *)
(* The listing's status is checked on a read and then written by id, so a  *)
(* submission or a moderation may come after another has gone on.          *)
(***************************************************************************)
EXTENDS Naturals, FiniteSets, Rows

CONSTANTS
    Listings,       \* listings that may be created, of one seller
    Prohibited,     \* those whose text matches the prohibited goods
    Parties,        \* buyer and seller of a transaction
    Moderators      \* concurrent HTTP requests

\* A review is kept under its author, every other write under its name.
ASSUME MarketplaceAssumption ==
    /\ None \notin Listings /\ Prohibited \subseteq Listings
    /\ Parties \cap {"idle", "create", "submit", "ACTIVE", "REJECTED", "VERIFIED"} = {}

VARIABLES
    profile,        \* C2CSellerProfile.status, "NONE" before the row exists
    listed,         \* C2CListing.status, "NONE" before the row exists
    offered,        \* listings with an offer
    deal,           \* "NONE", "OPEN" or "COMPLETED": C2CTransaction of a listing
    reviews,        \* C2CReview rows of a listing's transaction, by author
    moderator       \* what a request has read and goes on to write

marketplaceVars == <<profile, listed, offered, deal, reviews, moderator>>

ModeratorIdle == [op |-> "idle", on |-> None]

MarketplaceInit ==
    /\ profile = "NONE" /\ listed = [l \in Listings |-> "NONE"] /\ offered = {}
    /\ deal = [l \in Listings |-> "NONE"]
    /\ reviews = [l \in Listings |-> [p \in Parties |-> 0]]
    /\ moderator = [c \in Moderators |-> ModeratorIdle]

ModeratorReads(c, op, x) ==
    /\ moderator[c] = ModeratorIdle
    /\ moderator' = [moderator EXCEPT ![c] = [op |-> op, on |-> x]]
    /\ UNCHANGED <<profile, listed, offered, deal, reviews>>

ModeratorWrites(c, op, x) ==
    /\ moderator[c] = [op |-> op, on |-> x]
    /\ moderator' = [moderator EXCEPT ![c] = ModeratorIdle]

-----------------------------------------------------------------------------
(***************************************************************************)
(* The seller's verification.                                              *)
(***************************************************************************)

\* The identity provider's answer, APPROVED or not, or an error: then the
\* request ends and nothing is written.
Verify(c, answer) ==
    /\ answer \in {"VERIFIED", "REJECTED"}
    /\ ModeratorReads(c, answer, None)

\* Of two answers the one written last counts.
VerifySeller(c, answer) ==
    /\ ModeratorWrites(c, answer, None)
    /\ profile' = answer
    /\ UNCHANGED <<listed, offered, deal, reviews>>

-----------------------------------------------------------------------------
(***************************************************************************)
(* A listing.                                                              *)
(***************************************************************************)

CreateListingRead(c, l) ==
    profile = "VERIFIED" /\ listed[l] = "NONE" /\ ModeratorReads(c, "create", l)

ListingWritten(c, op, l, status) ==
    /\ ModeratorWrites(c, op, l)
    /\ listed' = [listed EXCEPT ![l] = status]
    /\ UNCHANGED <<profile, offered, deal, reviews>>

\* A listing is one request's.
CreateListing(c, l) == listed[l] = "NONE" /\ ListingWritten(c, "create", l, "DRAFT")

Submittable(l) == listed[l] = "DRAFT"

SubmitListingRead(c, l) == Submittable(l) /\ ModeratorReads(c, "submit", l)

\* Mutant: the policy's verdict is left to the moderator.
SubmittedForModeration(l) == "PENDING_MODERATION"

Submitted(l) == IF l \in Prohibited THEN "REJECTED" ELSE "PENDING_MODERATION"

SubmitListing(c, l) == ListingWritten(c, "submit", l, Submitted(l))

ModerateRead(c, l, decision) ==
    listed[l] = "PENDING_MODERATION" /\ ModeratorReads(c, decision, l)

\* By id: it may overwrite another moderator's decision, or the sale.
Moderate(c, l, decision) ==
    decision \in {"ACTIVE", "REJECTED"} /\ ListingWritten(c, decision, l, decision)

-----------------------------------------------------------------------------
(***************************************************************************)
(* The deal, as far as a listing sees it.                                  *)
(***************************************************************************)

\* A buyer's offer on an ACTIVE listing that has not expired.
MakeOffer(l) ==
    /\ listed[l] = "ACTIVE"
    /\ offered' = offered \cup {l}
    /\ UNCHANGED <<profile, listed, deal, reviews, moderator>>

\* An offer is accepted: the listing is SOLD whatever its status, and has one
\* transaction.
AcceptOffer(l) ==
    /\ l \in offered /\ deal[l] = "NONE"
    /\ listed' = [listed EXCEPT ![l] = "SOLD"]
    /\ deal' = [deal EXCEPT ![l] = "OPEN"]
    /\ UNCHANGED <<profile, offered, reviews, moderator>>

\* Delivery and payout, or their end in a dispute, which may also be opened on
\* a transaction that is COMPLETED.
DealMoves(l) ==
    /\ deal[l] \in {"OPEN", "COMPLETED"}
    /\ deal' = [deal EXCEPT ![l] = IF @ = "OPEN" THEN "COMPLETED" ELSE "OPEN"]
    /\ UNCHANGED <<profile, listed, offered, reviews, moderator>>

ReviewRead(c, l, p) == deal[l] = "COMPLETED" /\ ModeratorReads(c, p, l)

FirstReview(l, p) == reviews[l][p] = 0

Review(c, l, p) ==
    /\ ModeratorWrites(c, p, l)
    /\ reviews' = IF FirstReview(l, p) THEN [reviews EXCEPT ![l][p] = @ + 1] ELSE reviews
    /\ UNCHANGED <<profile, listed, offered, deal>>

MarketplaceNext ==
    \/ \E c \in Moderators, answer \in {"VERIFIED", "REJECTED"} :
          Verify(c, answer) \/ VerifySeller(c, answer)
    \/ \E c \in Moderators, l \in Listings :
          \/ CreateListingRead(c, l) \/ CreateListing(c, l)
          \/ SubmitListingRead(c, l) \/ SubmitListing(c, l)
          \/ \E decision \in {"ACTIVE", "REJECTED"} :
                ModerateRead(c, l, decision) \/ Moderate(c, l, decision)
          \/ \E p \in Parties : ReviewRead(c, l, p) \/ Review(c, l, p)
    \/ \E l \in Listings : MakeOffer(l) \/ AcceptOffer(l) \/ DealMoves(l)

MarketplaceSpec == MarketplaceInit /\ [][MarketplaceNext]_marketplaceVars

-----------------------------------------------------------------------------
(***************************************************************************)
(* Properties.                                                             *)
(***************************************************************************)

\* However requests overlap, a listing the policy prohibits is never offered to
\* buyers (submit, moderate).
ProhibitedNeverOffered ==
    \A l \in Prohibited : listed[l] \notin {"ACTIVE", "SOLD"} /\ l \notin offered

WritesListing(l) ==
    {c \in Moderators : moderator[c].on = l /\ moderator[c].op \in {"submit", "ACTIVE", "REJECTED"}}

\* A sold listing comes back for sale, or is rejected, only by a request that
\* had read it before the sale: none reads it afterwards, and with none under
\* way it stays SOLD (submit and moderate write by id).
SoldUnlessOvertaken ==
    [][\A l \in Listings :
          /\ listed[l] = "SOLD" /\ WritesListing(l) = {} => listed'[l] = "SOLD"
          /\ listed[l] = "SOLD" => WritesListing(l)' \subseteq WritesListing(l)
      ]_marketplaceVars

=============================================================================
