------------------------------- MODULE Freight -------------------------------
(***************************************************************************)
(* Freight brokerage: a customer's request, the quotes staff make for it,  *)
(* and the acceptance that turns one quote into a booking and an invoice.  *)
(*                                                                         *)
(* Every handler of FreightRepository checks in plain reads and writes in  *)
(* a later transaction, by id and without repeating the check: each is a   *)
(* ...Check step that starts a caller's work and a commit step that ends   *)
(* it.  Only the edit compares versions, and only unique indexes (revision *)
(* of a request, booking of a request) refuse a commit.                    *)
(***************************************************************************)
EXTENDS Naturals, FiniteSets, Rows

CONSTANTS
    FreightRequests, \* freight requests of one business account
    Quotes,          \* quotes, drafted at most once each
    QuoteRequest,    \* [Quotes -> FreightRequests]
    NetTerms,        \* quotes whose payment policy is NET_TERMS
    AlreadyQuoted,   \* quotes that start as the published one of their request
    CreditLimit,     \* BusinessAccount.creditLimitMinor, in quote totals
    Perishing,       \* bound: quotes whose validity may end
    FreightCallers   \* concurrent HTTP requests

ASSUME FreightAssumption ==
    /\ QuoteRequest \in [Quotes -> FreightRequests]
    /\ NetTerms \subseteq Quotes /\ Perishing \subseteq Quotes
    /\ AlreadyQuoted \subseteq Quotes
    /\ \A p, q \in AlreadyQuoted : QuoteRequest[p] = QuoteRequest[q] => p = q
    /\ CreditLimit \in Nat
    /\ None \notin Quotes

VARIABLES
    freight,      \* FreightRequest.status
    content,      \* FreightRequest's customer fields, changed by each edit
    outdated,     \* callers whose known request version is no longer current
    quote,        \* FreightQuote.status, "NONE" before the row exists
    revision,     \* FreightQuote.revision
    lapsedQuotes, \* quotes whose validUntil is past
    booked,       \* the quote of the request's FreightBooking, or None
    openInvoices, \* quotes whose invoice is ISSUED, PARTIALLY_PAID or OVERDUE
    freightCaller \* what a caller has checked and goes on to write

freightVars == <<freight, content, outdated, quote, revision, lapsedQuotes,
                 booked, openInvoices, freightCaller>>

FreightIdle == [op |-> "idle", about |-> None, seen |-> 0]
QuotesOf(f) == {q \in Quotes : QuoteRequest[q] = f}
Stored(f) == {q \in QuotesOf(f) : quote[q] # "NONE"}

FreightInit ==
    /\ freight = [f \in FreightRequests |->
                    IF QuotesOf(f) \cap AlreadyQuoted # {} THEN "QUOTED" ELSE "NONE"]
    /\ content = [f \in FreightRequests |-> 0]
    /\ outdated = {}
    /\ quote = [q \in Quotes |-> IF q \in AlreadyQuoted THEN "PUBLISHED" ELSE "NONE"]
    /\ revision = [q \in Quotes |-> IF q \in AlreadyQuoted THEN 1 ELSE 0]
    /\ lapsedQuotes = {}
    /\ booked = [f \in FreightRequests |-> None]
    /\ openInvoices = {}
    /\ freightCaller = [c \in FreightCallers |-> FreightIdle]

\* Caller c has passed the checks of op about x, having read n.
Checked(c, op, x, n) ==
    /\ freightCaller[c] = FreightIdle
    /\ freightCaller' = [freightCaller EXCEPT ![c] = [op |-> op, about |-> x, seen |-> n]]
    /\ UNCHANGED <<freight, content, outdated, quote, revision, lapsedQuotes,
                   booked, openInvoices>>

\* Caller c commits, or gives up, what it had checked.
Doing(c, op, x) == freightCaller[c].op = op /\ freightCaller[c].about = x
Finished(c) == freightCaller' = [freightCaller EXCEPT ![c] = FreightIdle]

\* The request gets status s and a new version.
SetFreight(f, s) ==
    /\ freight' = [freight EXCEPT ![f] = s]
    /\ outdated' = outdated \cup
         {c \in FreightCallers : freightCaller[c].op = "edit" /\ freightCaller[c].about = f}

-----------------------------------------------------------------------------
(***************************************************************************)
(* The customer's side of a request.                                       *)
(***************************************************************************)
CreateRequest(f) ==
    /\ freight[f] = "NONE"
    /\ freight' = [freight EXCEPT ![f] = "DRAFT"]
    /\ UNCHANGED <<content, outdated, quote, revision, lapsedQuotes, booked,
                   openInvoices, freightCaller>>

\* The client names the version it edits.
UpdateCheck(c, f) == freight[f] = "DRAFT" /\ Checked(c, "edit", f, 0)

UpdateRequest(c, f) ==
    /\ Doing(c, "edit", f)
    /\ IF c \in outdated
         THEN /\ outdated' = outdated \ {c}
              /\ UNCHANGED <<freight, content>>
         ELSE /\ content' = [content EXCEPT ![f] = 1 - @]
              /\ freight' = freight
              /\ outdated' = outdated \cup
                   {d \in FreightCallers \ {c} :
                        freightCaller[d].op = "edit" /\ freightCaller[d].about = f}
    /\ Finished(c)
    /\ UNCHANGED <<quote, revision, lapsedQuotes, booked, openInvoices>>

SubmitCheck(c, f) == freight[f] = "DRAFT" /\ Checked(c, "submit", f, 0)

Submit(c, f) ==
    /\ Doing(c, "submit", f)
    /\ SetFreight(f, "SUBMITTED")
    /\ Finished(c)
    /\ UNCHANGED <<content, quote, revision, lapsedQuotes, booked, openInvoices>>

RequestTerminal == {"ACCEPTED", "REJECTED", "EXPIRED", "CANCELLED"}

CancelCheck(c, f) ==
    freight[f] \notin RequestTerminal \cup {"NONE"} /\ Checked(c, "cancel", f, 0)

Cancel(c, f) ==
    /\ Doing(c, "cancel", f)
    /\ SetFreight(f, "CANCELLED")
    /\ Finished(c)
    /\ UNCHANGED <<content, quote, revision, lapsedQuotes, booked, openInvoices>>

-----------------------------------------------------------------------------
(***************************************************************************)
(* Staff: estimates and quotes.                                            *)
(***************************************************************************)
Quotable(f) == freight[f] \in {"SUBMITTED", "UNDER_REVIEW", "QUOTED"}

\* seen is 1 if the estimate was made of a SUBMITTED request.
EstimateCheck(c, f) ==
    Quotable(f) /\ Checked(c, "estimate", f, IF freight[f] = "SUBMITTED" THEN 1 ELSE 0)

Estimate(c, f) ==
    /\ Doing(c, "estimate", f)
    /\ IF freightCaller[c].seen = 1
         THEN SetFreight(f, "UNDER_REVIEW")
         ELSE UNCHANGED <<freight, outdated>>
    /\ Finished(c)
    /\ UNCHANGED <<content, quote, revision, lapsedQuotes, booked, openInvoices>>

MaxRevision(f) ==
    CHOOSE n \in {0} \cup {revision[q] : q \in Stored(f)} :
        \A q \in Stored(f) : revision[q] <= n

\* seen is the next revision.
CreateQuoteCheck(c, q) ==
    /\ quote[q] = "NONE" /\ Quotable(QuoteRequest[q])
    /\ \A d \in FreightCallers : ~Doing(d, "quote", q)
    /\ Checked(c, "quote", q, MaxRevision(QuoteRequest[q]) + 1)

\* The unique index [tenantId, requestId, revision].
RevisionFree(f, n) == \A q \in Stored(f) : revision[q] # n

\* The open quotes of the request are superseded and the new one is drafted;
\* nothing is written if another caller took the revision.
CreateQuote(c, q) ==
    LET f == QuoteRequest[q]
        n == freightCaller[c].seen IN
    /\ Doing(c, "quote", q)
    /\ IF RevisionFree(f, n)
         THEN /\ quote' = [p \in Quotes |->
                   IF p = q THEN "DRAFT"
                   ELSE IF p \in QuotesOf(f) /\ quote[p] \in {"DRAFT", "PUBLISHED"}
                     THEN "SUPERSEDED" ELSE quote[p]]
              /\ revision' = [revision EXCEPT ![q] = n]
         ELSE UNCHANGED <<quote, revision>>
    /\ Finished(c)
    /\ UNCHANGED <<freight, content, outdated, lapsedQuotes, booked, openInvoices>>

PublishQuoteCheck(c, q) ==
    quote[q] = "DRAFT" /\ q \notin lapsedQuotes /\ Checked(c, "publish", q, 0)

PublishQuote(c, q) ==
    /\ Doing(c, "publish", q)
    /\ quote' = [quote EXCEPT ![q] = "PUBLISHED"]
    /\ SetFreight(QuoteRequest[q], "QUOTED")
    /\ Finished(c)
    /\ UNCHANGED <<content, revision, lapsedQuotes, booked, openInvoices>>

-----------------------------------------------------------------------------
(***************************************************************************)
(* The customer's decision.                                                *)
(***************************************************************************)
DeclineQuoteCheck(c, q) == quote[q] = "PUBLISHED" /\ Checked(c, "decline", q, 0)

DeclineQuote(c, q) ==
    /\ Doing(c, "decline", q)
    /\ quote' = [quote EXCEPT ![q] = "DECLINED"]
    /\ Finished(c)
    /\ UNCHANGED <<freight, content, outdated, revision, lapsedQuotes, booked, openInvoices>>

\* A limit of 0 means none; every quote total is 1.
CreditAllows(q) ==
    q \in NetTerms => \/ CreditLimit = 0
                      \/ Cardinality(openInvoices) + 1 <= CreditLimit

\* seen is the number of open invoices.
AcceptQuoteCheck(c, q) ==
    /\ quote[q] = "PUBLISHED" /\ q \notin lapsedQuotes
    /\ booked[QuoteRequest[q]] = None
    /\ CreditAllows(q)
    /\ Checked(c, "accept", q, Cardinality(openInvoices))

\* Mutant: no unique index on the request of a booking.
BookableAlways(f) == TRUE

\* The unique index on FreightBooking.requestId.
Bookable(f) == booked[f] = None

\* Invoice, booking, quote and request in one transaction.
AcceptQuote(c, q) ==
    LET f == QuoteRequest[q] IN
    /\ Doing(c, "accept", q)
    /\ IF Bookable(f)
         THEN /\ booked' = [booked EXCEPT ![f] = q]
              /\ openInvoices' = openInvoices \cup {q}
              /\ quote' = [quote EXCEPT ![q] = "ACCEPTED"]
              /\ SetFreight(f, "ACCEPTED")
         ELSE UNCHANGED <<booked, openInvoices, quote, freight, outdated>>
    /\ Finished(c)
    /\ UNCHANGED <<content, revision, lapsedQuotes>>

\* The clock passes validUntil.
QuoteLapses(q) ==
    /\ q \in Perishing /\ quote[q] \in {"DRAFT", "PUBLISHED"} /\ q \notin lapsedQuotes
    /\ lapsedQuotes' = lapsedQuotes \cup {q}
    /\ UNCHANGED <<freight, content, outdated, quote, revision, booked,
                   openInvoices, freightCaller>>

\* The customer pays an invoice in full (module Payments).
InvoicePaid(q) ==
    /\ q \in openInvoices
    /\ openInvoices' = openInvoices \ {q}
    /\ UNCHANGED <<freight, content, outdated, quote, revision, lapsedQuotes,
                   booked, freightCaller>>

RequestStep(f) ==
    \/ CreateRequest(f)
    \/ \E c \in FreightCallers :
         \/ UpdateCheck(c, f)   \/ UpdateRequest(c, f)
         \/ SubmitCheck(c, f)   \/ Submit(c, f)
         \/ CancelCheck(c, f)   \/ Cancel(c, f)
         \/ EstimateCheck(c, f) \/ Estimate(c, f)

QuoteStep(q) ==
    \/ QuoteLapses(q) \/ InvoicePaid(q)
    \/ \E c \in FreightCallers :
         \/ CreateQuoteCheck(c, q)  \/ CreateQuote(c, q)
         \/ PublishQuoteCheck(c, q) \/ PublishQuote(c, q)
         \/ DeclineQuoteCheck(c, q) \/ DeclineQuote(c, q)
         \/ AcceptQuoteCheck(c, q)  \/ AcceptQuote(c, q)

FreightNext ==
    \/ \E f \in FreightRequests : RequestStep(f)
    \/ \E q \in Quotes : QuoteStep(q)

FreightSpec == FreightInit /\ [][FreightNext]_freightVars

-----------------------------------------------------------------------------
(***************************************************************************)
(* Properties.                                                             *)
(***************************************************************************)

\* What a customer has submitted stays what it was: an edit that overlaps the
\* submission is refused by the version (updateRequest).
SubmittedIsFrozen ==
    [][\A f \in FreightRequests :
         freight[f] \notin {"NONE", "DRAFT"} => content'[f] = content[f]]_freightVars

\* However many quotes of a request are accepted at once, the accepted one is
\* the one that is booked and invoiced (acceptQuote).
AcceptedIsBooked ==
    \A q \in Quotes : quote[q] = "ACCEPTED" => booked[QuoteRequest[q]] = q

\* The quotes of a request are numbered 1, 2, ... without a repetition,
\* although the next number is read before the transaction (createQuote).
RevisionsCount ==
    \A f \in FreightRequests :
        {revision[q] : q \in Stored(f)} = 1..Cardinality(Stored(f))

\* The credit limit is exceeded only by an acceptance that another one has
\* overtaken since it looked: never by requests one at a time (acceptQuote).
CreditExceededOnlyInARace ==
    [][\A q \in NetTerms \ openInvoices :
         (/\ CreditLimit > 0 /\ q \in openInvoices'
          /\ Cardinality(openInvoices') > CreditLimit)
           => \E c \in FreightCallers :
                Doing(c, "accept", q) /\ Cardinality(openInvoices) > freightCaller[c].seen
      ]_freightVars
=============================================================================
