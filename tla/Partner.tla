-------------------------------- MODULE Partner --------------------------------
(***************************************************************************)
(* Orders of a partner shop and the webhooks that tell its one endpoint    *)
(* about them (PartnerRepository, PartnerDeliveryScheduler).               *)
(*                                                                         *)
(* An order is stored before its webhook is; a delivery is claimed for 60  *)
(* seconds by one of several API processes, posted and then marked, and    *)
(* comes due again when the claim or the delay after a failure runs out.   *)
(***************************************************************************)
EXTENDS Naturals, FiniteSets, Rows

CONSTANTS
    Orders,         \* requests to submit an order
    ShopKey,        \* [Orders -> externalKey]
    Deliveries,     \* webhook deliveries that may be created
    Shops,          \* concurrent requests of the partner
    Senders,        \* API processes running the scheduler
    MaxAttempts,    \* attempts before DEAD_LETTER, 5 in the code
    MaxMishaps      \* bound on crashes and lapsed claims

ASSUME PartnerAssumption ==
    /\ DOMAIN ShopKey = Orders /\ MaxAttempts \in Nat \ {0} /\ MaxMishaps \in Nat
    /\ None \notin Orders \cup Deliveries

VARIABLES
    order,      \* ShopOrder.status, "NONE" before the row exists
    delivery,   \* WebhookDelivery: status, attempts, nextAttemptAt reached, order
    posted,     \* how often the endpoint accepted a delivery
    mishaps,
    shop,       \* what a request has read and goes on to do
    sender      \* a scheduler: deliveries read, and the one it is at

partnerVars == <<order, delivery, posted, mishaps, shop, sender>>

NoDelivery == [status |-> "NONE", attempts |-> 0, due |-> FALSE, about |-> None]
ShopIdle == [op |-> "idle", on |-> None]
SenderIdle == [at |-> "idle", batch |-> {}, on |-> None, attempts |-> 0]

PartnerInit ==
    /\ order = [o \in Orders |-> "NONE"]
    /\ delivery = [d \in Deliveries |-> NoDelivery]
    /\ posted = [d \in Deliveries |-> 0] /\ mishaps = 0
    /\ shop = [c \in Shops |-> ShopIdle]
    /\ sender = [w \in Senders |-> SenderIdle]

Mishap == mishaps < MaxMishaps /\ mishaps' = mishaps + 1

-----------------------------------------------------------------------------
(***************************************************************************)
(* Orders.                                                                 *)
(***************************************************************************)

ShopGoesOn(c, from, x, to) ==
    /\ shop[c] = [op |-> from, on |-> x]
    /\ shop' = [shop EXCEPT ![c] = IF to = "idle" THEN ShopIdle ELSE [op |-> to, on |-> x]]

Stored(o) == \E other \in Orders : ShopKey[other] = ShopKey[o] /\ order[other] # "NONE"

SubmitRead(c, o) ==
    /\ shop[c] = ShopIdle /\ ~Stored(o)
    /\ shop' = [shop EXCEPT ![c] = [op |-> "submit", on |-> o]]
    /\ UNCHANGED <<order, delivery, posted, mishaps, sender>>

KeyFree(o) == ~Stored(o)

Submit(c, o) ==
    /\ ShopGoesOn(c, "submit", o, IF KeyFree(o) THEN "accepted" ELSE "idle")
    /\ order' = [order EXCEPT ![o] = IF KeyFree(o) THEN "ACCEPTED" ELSE @]
    /\ UNCHANGED <<delivery, posted, mishaps, sender>>

FulfillRead(c, o) ==
    /\ shop[c] = ShopIdle /\ order[o] = "ACCEPTED"
    /\ shop' = [shop EXCEPT ![c] = [op |-> "fulfill", on |-> o]]
    /\ UNCHANGED <<order, delivery, posted, mishaps, sender>>

\* Written by id: another request may have done so already.
Fulfill(c, o) ==
    /\ ShopGoesOn(c, "fulfill", o, "fulfilled")
    /\ order' = [order EXCEPT ![o] = "FULFILLED"]
    /\ UNCHANGED <<delivery, posted, mishaps, sender>>

\* The endpoint is subscribed to both events.
EnqueueWebhook(c, o, d) ==
    /\ delivery[d] = NoDelivery
    /\ ShopGoesOn(c, "accepted", o, "idle") \/ ShopGoesOn(c, "fulfilled", o, "idle")
    /\ delivery' = [delivery EXCEPT ![d] =
          [status |-> "PENDING", attempts |-> 0, due |-> TRUE, about |-> <<shop[c].op, o>>]]
    /\ UNCHANGED <<order, posted, mishaps, sender>>

ShopCrash(c) ==
    /\ shop[c] # ShopIdle /\ Mishap
    /\ shop' = [shop EXCEPT ![c] = ShopIdle]
    /\ UNCHANGED <<order, delivery, posted, sender>>

\* A new delivery of the same event, whatever became of the first.
ReplayWebhook(d, new) ==
    /\ delivery[d] # NoDelivery /\ delivery[new] = NoDelivery
    /\ delivery' = [delivery EXCEPT ![new] =
          [status |-> "PENDING", attempts |-> 0, due |-> TRUE, about |-> delivery[d].about]]
    /\ UNCHANGED <<order, posted, mishaps, shop, sender>>

-----------------------------------------------------------------------------
(***************************************************************************)
(* Deliveries.                                                             *)
(***************************************************************************)

Waiting(d) == delivery[d].status \in {"PENDING", "RETRYING", "PROCESSING"} /\ delivery[d].due

ReadBatch(w) ==
    /\ sender[w] = SenderIdle /\ \E d \in Deliveries : Waiting(d)
    /\ sender' = [sender EXCEPT ![w] = [SenderIdle EXCEPT !.at = "loop",
          !.batch = {[on |-> d, status |-> delivery[d].status, attempts |-> delivery[d].attempts] :
                       d \in {x \in Deliveries : Waiting(x)}}]]
    /\ UNCHANGED <<order, delivery, posted, mishaps, shop>>

\* The status read, and no later nextAttemptAt than when the batch was read.
ClaimableDelivery(seen) ==
    /\ delivery[seen.on].status = seen.status /\ delivery[seen.on].attempts = seen.attempts

ClaimDelivery(w) ==
    /\ sender[w].at = "loop"
    /\ \E seen \in sender[w].batch :
          LET rest == sender[w].batch \ {seen} IN
          IF ClaimableDelivery(seen)
            THEN /\ delivery' = [delivery EXCEPT
                       ![seen.on] = [@ EXCEPT !.status = "PROCESSING", !.due = FALSE,
                                              !.attempts = delivery[seen.on].attempts + 1]]
                 /\ sender' = [sender EXCEPT ![w] =
                       [at |-> "post", batch |-> rest, on |-> seen.on,
                        attempts |-> seen.attempts + 1]]
            ELSE /\ sender' = [sender EXCEPT ![w].batch = rest]
                 /\ UNCHANGED delivery
    /\ UNCHANGED <<order, posted, mishaps, shop>>

BatchDone(w) ==
    /\ sender[w].at = "loop" /\ sender[w].batch = {}
    /\ sender' = [sender EXCEPT ![w] = SenderIdle]
    /\ UNCHANGED <<order, delivery, posted, mishaps, shop>>

\* The endpoint accepts; or it fails, or its answer is lost.
PostAccepted(w) ==
    /\ sender[w].at = "post"
    /\ posted' = [posted EXCEPT ![sender[w].on] = 1]
    /\ sender' = [sender EXCEPT ![w].at = "accepted"]
    /\ UNCHANGED <<order, delivery, mishaps, shop>>

PostFails(w) ==
    /\ sender[w].at = "post"
    /\ \/ posted' = [posted EXCEPT ![sender[w].on] = 1]
       \/ UNCHANGED posted
    /\ sender' = [sender EXCEPT ![w].at = "failed"]
    /\ UNCHANGED <<order, delivery, mishaps, shop>>

BackToLoop(w) ==
    sender' = [sender EXCEPT ![w] = [@ EXCEPT !.at = "loop", !.on = None, !.attempts = 0]]

Open(d) == delivery[d].status = "PROCESSING"

MarkDelivered(w) ==
    LET d == sender[w].on IN
    /\ sender[w].at = "accepted"
    /\ delivery' = [delivery EXCEPT ![d].status = IF Open(d) THEN "DELIVERED" ELSE @]
    /\ BackToLoop(w)
    /\ UNCHANGED <<order, posted, mishaps, shop>>

GivenUp(attempts) == attempts >= MaxAttempts

MarkFailed(w) ==
    LET d == sender[w].on IN
    /\ sender[w].at = "failed"
    /\ delivery' = IF Open(d)
                     THEN [delivery EXCEPT
                             ![d] = [@ EXCEPT !.due = FALSE, !.status =
                                IF GivenUp(sender[w].attempts) THEN "DEAD_LETTER" ELSE "RETRYING"]]
                     ELSE delivery
    /\ BackToLoop(w)
    /\ UNCHANGED <<order, posted, mishaps, shop>>

HeldBy(w, d) == sender[w].on = d

\* The delay is over; for a delivery being posted, before its sender is done.
ComesDue(d) ==
    /\ delivery[d].status \in {"RETRYING", "PROCESSING"} /\ ~delivery[d].due
    /\ delivery' = [delivery EXCEPT ![d].due = TRUE]
    /\ IF \E w \in Senders : HeldBy(w, d) THEN Mishap ELSE UNCHANGED mishaps
    /\ UNCHANGED <<order, posted, shop, sender>>

SenderCrash(w) ==
    /\ sender[w] # SenderIdle /\ Mishap
    /\ sender' = [sender EXCEPT ![w] = SenderIdle]
    /\ UNCHANGED <<order, delivery, posted, shop>>

SenderStep(w) ==
    \/ ReadBatch(w) \/ ClaimDelivery(w) \/ BatchDone(w)
    \/ PostAccepted(w) \/ PostFails(w) \/ MarkDelivered(w) \/ MarkFailed(w)

PartnerNext ==
    \/ \E c \in Shops :
          \/ ShopCrash(c)
          \/ \E o \in Orders :
                \/ SubmitRead(c, o) \/ Submit(c, o) \/ FulfillRead(c, o) \/ Fulfill(c, o)
                \/ \E d \in Deliveries : EnqueueWebhook(c, o, d)
    \/ \E d \in Deliveries : ComesDue(d) \/ (\E new \in Deliveries : ReplayWebhook(d, new))
    \/ \E w \in Senders : SenderStep(w) \/ SenderCrash(w)

\* Delays run out and schedulers run; requests, mishaps and answers are free.
PartnerFairness ==
    /\ \A d \in Deliveries :
          WF_partnerVars(ComesDue(d) /\ \A w \in Senders : ~HeldBy(w, d))
    /\ \A w \in Senders : WF_partnerVars(SenderStep(w))

PartnerSpec == PartnerInit /\ [][PartnerNext]_partnerVars /\ PartnerFairness

-----------------------------------------------------------------------------
(***************************************************************************)
(* Properties.                                                             *)
(***************************************************************************)

\* Requests repeated under one external key, also at once, store and announce
\* one order (submitOrder).
AcceptedAnnouncedOnce ==
    \A k \in {ShopKey[o] : o \in Orders} :
       LET same == {o \in Orders : ShopKey[o] = k /\ order[o] # "NONE"} IN
       /\ Cardinality(same) <= 1
       /\ \A c, e \in Shops :
             (shop[c].op = "accepted" /\ shop[e].op = "accepted" /\ c # e) =>
                ShopKey[shop[c].on] # ShopKey[shop[e].on]

\* What became of a delivery is final, whoever else still had it: a late answer
\* changes neither DELIVERED nor DEAD_LETTER (processDeliveries).
OutcomeFinal ==
    [][\A d \in Deliveries :
         delivery[d].status \in {"DELIVERED", "DEAD_LETTER"} =>
            delivery'[d].status = delivery[d].status]_partnerVars

\* A delivery is given up only after the attempts it is allowed
\* (processDeliveries, attempts >= 5), and delivered only if the endpoint had it.
GivenUpLate ==
    \A d \in Deliveries :
       /\ delivery[d].status = "DEAD_LETTER" => delivery[d].attempts >= MaxAttempts
       /\ delivery[d].status = "DELIVERED" => posted[d] = 1

\* Two processes are at one delivery only after a claim lapsed before its holder
\* was done (processDeliveries, nextAttemptAt).
SharedOnlyAfterLapse ==
    \A w, v \in Senders : (w # v /\ sender[w].on # None /\ mishaps = 0) =>
                             sender[w].on # sender[v].on

\* Every delivery is delivered or given up in the end, although processes crash
\* between claim and mark (processDeliveries, processAllDeliveries).
EventuallySettled ==
    \A d \in Deliveries :
       delivery[d].status = "PENDING" ~> delivery[d].status \in {"DELIVERED", "DEAD_LETTER"}
=============================================================================
