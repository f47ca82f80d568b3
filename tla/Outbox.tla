-------------------------------- MODULE Outbox --------------------------------
(***************************************************************************)
(* The outbox publisher: workers poll due events, claim each with its      *)
(* status and availableAt, add it to the queue and mark it PUBLISHED       *)
(* (OutboxPublisher.publishBatch).  Two batches of one process overlap     *)
(* like two processes do: the timer does not wait for the last poll.       *)
(*                                                                         *)
(* A claim and a failure move availableAt past the "now" of every batch    *)
(* read before, so availableAt <= now at the claim says that it has not    *)
(* moved since the read: the model counts its moves.                       *)
(***************************************************************************)
EXTENDS Naturals, FiniteSets, Rows

CONSTANTS
    OutboxEvents,
    Publishers,   \* batches in progress
    MaxTrouble    \* bound: crashes, failed calls, slow claims and expired jobs

ASSUME OutboxAssumption == MaxTrouble \in Nat /\ None \notin OutboxEvents

VARIABLES
    outbox,     \* OutboxEvent.status, "NONE" before the row exists
    moves,      \* changes of availableAt
    due,        \* availableAt <= now
    queue,      \* jobs the queue still knows by their id
    jobs,       \* jobs made of each event
    publisher,  \* batch read, event in hand and how far it is
    trouble     \* bounded events so far

outboxVars == <<outbox, moves, due, queue, jobs, publisher, trouble>>

PublisherIdle == [batch |-> {}, stage |-> "idle", event |-> None]

OutboxInit ==
    /\ outbox = [e \in OutboxEvents |-> "NONE"]
    /\ moves = [e \in OutboxEvents |-> 0]
    /\ due = [e \in OutboxEvents |-> FALSE]
    /\ queue = {}
    /\ jobs = [e \in OutboxEvents |-> 0]
    /\ publisher = [p \in Publishers |-> PublisherIdle]
    /\ trouble = 0

Trouble == trouble < MaxTrouble /\ trouble' = trouble + 1

\* A transaction of any component appends an event, due at once.
Append(e) ==
    /\ outbox[e] = "NONE"
    /\ outbox' = [outbox EXCEPT ![e] = "PENDING"]
    /\ due' = [due EXCEPT ![e] = TRUE]
    /\ UNCHANGED <<moves, queue, jobs, publisher, trouble>>

InHand(e) == \E p \in Publishers : publisher[p].event = e

\* Time passes; for an event in somebody's hand that means a slow claim.
BecomesDue(e) ==
    /\ outbox[e] \in {"PROCESSING", "FAILED"} /\ ~due[e]
    /\ due' = [due EXCEPT ![e] = TRUE]
    /\ IF InHand(e) THEN Trouble ELSE UNCHANGED trouble
    /\ UNCHANGED <<outbox, moves, queue, jobs, publisher>>

\* Mutant: an event another poll has claimed is left to it for ever.
PollableUnclaimed(e) == outbox[e] \in {"PENDING", "FAILED"} /\ due[e]

Pollable(e) == outbox[e] \in {"PENDING", "PROCESSING", "FAILED"} /\ due[e]

Poll(p) ==
    /\ publisher[p] = PublisherIdle
    /\ \E e \in OutboxEvents : Pollable(e)
    /\ publisher' = [publisher EXCEPT ![p].batch =
                       {[event |-> e, status |-> outbox[e], moves |-> moves[e]] :
                          e \in {x \in OutboxEvents : Pollable(x)}}]
    /\ UNCHANGED <<outbox, moves, due, queue, jobs, trouble>>

\* The conditional update; an event somebody else has claimed is skipped.
Claim(p) ==
    /\ publisher[p].stage = "idle"
    /\ \E seen \in publisher[p].batch :
          LET e == seen.event
              rest == publisher[p].batch \ {seen}
          IN IF outbox[e] = seen.status /\ moves[e] = seen.moves
               THEN /\ outbox' = [outbox EXCEPT ![e] = "PROCESSING"]
                    /\ moves' = [moves EXCEPT ![e] = @ + 1]
                    /\ due' = [due EXCEPT ![e] = FALSE]
                    /\ publisher' = [publisher EXCEPT ![p] =
                                       [batch |-> rest, stage |-> "claimed", event |-> e]]
               ELSE /\ publisher' = [publisher EXCEPT ![p].batch = rest]
                    /\ UNCHANGED <<outbox, moves, due>>
    /\ UNCHANGED <<queue, jobs, trouble>>

\* A job id the queue still has makes no second job.
Enqueue(e) ==
    /\ queue' = queue \cup {e}
    /\ jobs' = [jobs EXCEPT ![e] = IF e \in queue THEN @ ELSE @ + 1]

Add(p) ==
    /\ publisher[p].stage = "claimed"
    /\ Enqueue(publisher[p].event)
    /\ publisher' = [publisher EXCEPT ![p].stage = "added"]
    /\ UNCHANGED <<outbox, moves, due, trouble>>

\* The call throws; the job may have been added all the same.  So may the
\* update after it throw.
AddFails(p) ==
    /\ publisher[p].stage \in {"claimed", "added"}
    /\ Trouble
    /\ \/ publisher[p].stage = "claimed" /\ Enqueue(publisher[p].event)
       \/ UNCHANGED <<queue, jobs>>
    /\ publisher' = [publisher EXCEPT ![p].stage = "failed"]
    /\ UNCHANGED <<outbox, moves, due>>

PublisherDone(p) ==
    publisher' = [publisher EXCEPT ![p].stage = "idle", ![p].event = None]

\* Only a PROCESSING event is marked, whoever claimed it.
MarkPublished(p) ==
    LET e == publisher[p].event IN
    /\ publisher[p].stage = "added"
    /\ outbox' = [outbox EXCEPT ![e] = IF @ = "PROCESSING" THEN "PUBLISHED" ELSE @]
    /\ PublisherDone(p)
    /\ UNCHANGED <<moves, due, queue, jobs, trouble>>

\* Mutant: a failure is recorded whatever has become of the row.
RecordFailureAlways(p) ==
    LET e == publisher[p].event IN
    /\ publisher[p].stage = "failed"
    /\ outbox' = [outbox EXCEPT ![e] = "FAILED"]
    /\ moves' = [moves EXCEPT ![e] = @ + 1]
    /\ due' = [due EXCEPT ![e] = FALSE]
    /\ PublisherDone(p)
    /\ UNCHANGED <<queue, jobs, trouble>>

RecordFailure(p) ==
    LET e == publisher[p].event IN
    /\ publisher[p].stage = "failed"
    /\ IF outbox[e] = "PROCESSING"
         THEN /\ outbox' = [outbox EXCEPT ![e] = "FAILED"]
              /\ moves' = [moves EXCEPT ![e] = @ + 1]
              /\ due' = [due EXCEPT ![e] = FALSE]
         ELSE UNCHANGED <<outbox, moves, due>>
    /\ PublisherDone(p)
    /\ UNCHANGED <<queue, jobs, trouble>>

\* The process dies, or its connection to the database.
PublisherCrash(p) ==
    /\ publisher[p] # PublisherIdle
    /\ Trouble
    /\ publisher' = [publisher EXCEPT ![p] = PublisherIdle]
    /\ UNCHANGED <<outbox, moves, due, queue, jobs>>

\* A finished job ages out of the queue (removeOnComplete, removeOnFail).
JobForgotten(e) ==
    /\ e \in queue
    /\ Trouble
    /\ queue' = queue \ {e}
    /\ UNCHANGED <<outbox, moves, due, jobs, publisher>>

PublisherStep(p) ==
    \/ Poll(p) \/ Claim(p) \/ Add(p) \/ MarkPublished(p) \/ RecordFailure(p)

OutboxNext ==
    \/ \E e \in OutboxEvents : Append(e) \/ BecomesDue(e) \/ JobForgotten(e)
    \/ \E p \in Publishers : PublisherStep(p) \/ AddFails(p) \/ PublisherCrash(p)

\* Timers fire and calls return; producers, failures and crashes are free.
OutboxFairness ==
    /\ \A e \in OutboxEvents : WF_outboxVars(BecomesDue(e) /\ ~InHand(e))
    /\ \A p \in Publishers : WF_outboxVars(PublisherStep(p))

OutboxSpec == OutboxInit /\ [][OutboxNext]_outboxVars /\ OutboxFairness

-----------------------------------------------------------------------------
(***************************************************************************)
(* Properties.                                                             *)
(***************************************************************************)

\* Nothing is PUBLISHED that did not reach the queue, whichever worker marked
\* it after whatever claim (publishBatch).
PublishedIsQueued ==
    \A e \in OutboxEvents : outbox[e] = "PUBLISHED" => jobs[e] > 0

\* A published event is over: no batch that read it before, no claim that lapsed
\* and no failure recorded late takes it up again (publishBatch).
PublishedForGood ==
    [][\A e \in OutboxEvents : outbox[e] = "PUBLISHED" => outbox'[e] = "PUBLISHED"]_outboxVars

\* Every appended event is published in the end, through crashes between the
\* claim, the queue and the mark, and through failures recorded over the claim
\* of another worker (publishBatch).
EventuallyPublished ==
    \A e \in OutboxEvents : outbox[e] = "PENDING" ~> outbox[e] = "PUBLISHED"
=============================================================================
