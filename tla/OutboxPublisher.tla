-------------------------- MODULE OutboxPublisher ---------------------------
(***************************************************************************)
(* The worker that drains outbox_events into Kafka: run_forever around     *)
(* OutboxPublisher.publish_batch.  The producer is librdkafka: produce()   *)
(* only appends to a local queue, a background thread sends from it, and   *)
(* delivery reports reach _on_delivery only inside flush(), which returns  *)
(* after flush_timeout even when messages are still queued.                *)
(*                                                                         *)
(* An event is named by its created_at, the start of the transaction that  *)
(* wrote it; rows become visible in commit order, which may differ.        *)
(***************************************************************************)
EXTENDS Integers, Sequences, SequencesExt, FiniteSets

CONSTANTS
    Publishers,  \* worker processes; one is deployed, two overlap in a rollout
    Events,      \* outbox rows that may be committed
    Partitions,
    Partition,   \* event -> partition its aggregate_id hashes to
    BatchSize,   \* batch_size
    QueueLimit,  \* queue.buffering.max.messages
    MaxFaults    \* bound on crashes, failed deliveries and commits, and full queues

ASSUME PublisherAssumption ==
    /\ Events \subseteq Nat /\ IsFiniteSet(Events)
    /\ Partition \in [Events -> Partitions]
    /\ BatchSize \in Nat \ {0} /\ QueueLimit \in Nat \ {0} /\ MaxFaults \in Nat

VARIABLES
    outbox,     \* committed rows
    published,  \* rows whose published_at is committed
    pc,         \* where each worker stands in publish_batch
    batch,      \* the rows it fetched, in order
    queue,      \* its producer's local queue
    reports,    \* an error report waits for the next flush to reach _delivery_errors
    topic,      \* partition -> its log
    timedOut,   \* some flush returned with messages left in the queue
    faults

workers == <<pc, batch, queue, reports>>
vars    == <<outbox, published, workers, topic, timedOut, faults>>

(* ORDER BY created_at.                                                    *)
OldestFirst(rows) ==
    CHOOSE s \in SetToSeqs(rows) : \A i, j \in DOMAIN s : i < j => s[i] < s[j]

Limited(rows) == IF Len(rows) <= BatchSize THEN rows ELSE SubSeq(rows, 1, BatchSize)

(* Mutation: the filter on published_at is missing.                        *)
BugPending == OldestFirst(outbox)

(* Rows still to be sent, oldest first.                                    *)
Pending == OldestFirst(outbox \ published)

(* Mutation: the limit is applied before the filter on published_at.       *)
BugFetchUnpublished ==
    SelectSeq(Limited(OldestFirst(outbox)), LAMBDA e : e \notin published)

fetch_unpublished == Limited(Pending)

Logged(e) == \E p \in Partitions : e \in ToSet(topic[p])
Queued(e) == \E w \in Publishers : e \in ToSet(queue[w])

Init ==
    /\ outbox = {} /\ published = {}
    /\ LET first == CHOOSE w \in Publishers : TRUE IN
       pc = [w \in Publishers |-> IF w = first THEN "fetch" ELSE "down"]
    /\ batch = [w \in Publishers |-> <<>>]
    /\ queue = [w \in Publishers |-> <<>>]
    /\ reports = [w \in Publishers |-> FALSE]
    /\ topic = [p \in Partitions |-> <<>>]
    /\ timedOut = FALSE /\ faults = 0

Fault == faults < MaxFaults /\ faults' = faults + 1

(* publish_batch returns or raises, and the loop starts over.              *)
Loop(w) == pc' = [pc EXCEPT ![w] = "fetch"] /\ batch' = [batch EXCEPT ![w] = <<>>]

(* A money operation commits: add_event was part of its transaction.       *)
CommitEvent(e) ==
    /\ e \in Events \ outbox
    /\ outbox' = outbox \cup {e}
    /\ UNCHANGED <<published, workers, topic, timedOut, faults>>

(* A rollout starts a new worker while the old one still runs.             *)
Start(w) ==
    /\ pc[w] = "down"
    /\ pc' = [pc EXCEPT ![w] = "fetch"]
    /\ UNCHANGED <<outbox, published, batch, queue, reports, topic, timedOut, faults>>

(* A plain SELECT of the oldest batch; nothing to send means sleep and     *)
(* look again.                                                             *)
Fetch(w) ==
    /\ pc[w] = "fetch"
    /\ fetch_unpublished # <<>>
    /\ batch' = [batch EXCEPT ![w] = fetch_unpublished]
    /\ pc' = [pc EXCEPT ![w] = "produce"]
    /\ UNCHANGED <<outbox, published, queue, reports, topic, timedOut, faults>>

(* Mutation: the local queue has no limit.                                 *)
BugProduce(w) ==
    /\ pc[w] = "produce"
    /\ queue' = [queue EXCEPT ![w] = @ \o batch[w]]
    /\ pc' = [pc EXCEPT ![w] = "flush"]
    /\ UNCHANGED <<outbox, published, batch, reports, topic, timedOut, faults>>

Produce(w) ==
    /\ pc[w] = "produce"
    /\ Len(queue[w]) + Len(batch[w]) <= QueueLimit
    /\ queue' = [queue EXCEPT ![w] = @ \o batch[w]]
    /\ pc' = [pc EXCEPT ![w] = "flush"]
    /\ UNCHANGED <<outbox, published, batch, reports, topic, timedOut, faults>>

(* produce() raises when the queue is full; what was queued stays queued,  *)
(* so that the retry adds to it.  MaxFaults bounds how often: after that a *)
(* batch that does not fit waits for Deliver.                              *)
QueueFull(w) ==
    /\ pc[w] = "produce"
    /\ Fault
    /\ Len(queue[w]) + Len(batch[w]) > QueueLimit
    /\ queue' = [queue EXCEPT ![w] = @ \o SubSeq(batch[w], 1, QueueLimit - Len(@))]
    /\ Loop(w)
    /\ UNCHANGED <<outbox, published, reports, topic, timedOut>>

(* The oldest queued message of its partition; the idempotent producer     *)
(* keeps the order within a partition.                                     *)
Sendable(w, i) ==
    /\ i \in 1..Len(queue[w])
    /\ \A j \in 1..(i-1) : Partition[queue[w][j]] # Partition[queue[w][i]]

LogAppend(e) == topic' = [topic EXCEPT ![Partition[e]] = Append(@, e)]

(* The background thread sends a message and the brokers acknowledge it.   *)
Deliver(w, i) ==
    /\ Sendable(w, i)
    /\ LogAppend(queue[w][i])
    /\ queue' = [queue EXCEPT ![w] = RemoveAt(@, i)]
    /\ UNCHANGED <<outbox, published, pc, batch, reports, timedOut, faults>>

(* librdkafka gives a message up; it may have reached the log all the same. *)
GiveUp(w, i) ==
    /\ Sendable(w, i)
    /\ Fault
    /\ topic' = topic \/ LogAppend(queue[w][i])
    /\ queue' = [queue EXCEPT ![w] = RemoveAt(@, i)]
    /\ reports' = [reports EXCEPT ![w] = TRUE]
    /\ UNCHANGED <<outbox, published, pc, batch, timedOut>>

(* flush returns: the reports so far were served, and any error among them *)
(* makes publish_batch raise, so that nothing is marked.                   *)
AfterFlush(w) ==
    /\ reports' = [reports EXCEPT ![w] = FALSE]
    /\ IF reports[w] THEN Loop(w)
       ELSE pc' = [pc EXCEPT ![w] = "mark"] /\ UNCHANGED batch
    /\ UNCHANGED <<outbox, published, queue, topic, faults>>

(* Mutation: no flush between produce and mark_published.                  *)
BugFlushAcked(w) == pc[w] = "flush" /\ AfterFlush(w) /\ UNCHANGED timedOut

FlushAcked(w) == pc[w] = "flush" /\ queue[w] = <<>> /\ AfterFlush(w) /\ UNCHANGED timedOut

(* flush_timeout passes; the number of messages left is not looked at.     *)
FlushTimeout(w) == pc[w] = "flush" /\ queue[w] # <<>> /\ AfterFlush(w) /\ timedOut' = TRUE

(* mark_published for every row of the batch, then the caller's commit.    *)
MarkPublished(w) ==
    /\ pc[w] = "mark"
    /\ published' = published \cup ToSet(batch[w])
    /\ Loop(w)
    /\ UNCHANGED <<outbox, queue, reports, topic, timedOut, faults>>

(* The database refuses the update or the commit: rollback and retry.      *)
CommitFails(w) ==
    /\ pc[w] = "mark"
    /\ Fault
    /\ Loop(w)
    /\ UNCHANGED <<outbox, published, queue, reports, topic, timedOut>>

(* The process dies with its local queue and is started again.             *)
Crash(w) ==
    /\ pc[w] # "down"
    /\ Fault
    /\ Loop(w)
    /\ queue' = [queue EXCEPT ![w] = <<>>]
    /\ reports' = [reports EXCEPT ![w] = FALSE]
    /\ UNCHANGED <<outbox, published, topic, timedOut>>

PublishStep(w) ==
    \/ Fetch(w) \/ Produce(w)
    \/ FlushAcked(w) \/ FlushTimeout(w) \/ MarkPublished(w)

Next ==
    \/ \E e \in Events : CommitEvent(e)
    \/ \E w \in Publishers :
          \/ Start(w) \/ PublishStep(w) \/ QueueFull(w) \/ CommitFails(w) \/ Crash(w)
          \/ \E i \in 1..Len(queue[w]) : Deliver(w, i) \/ GiveUp(w, i)

Spec == Init /\ [][Next]_vars

(* The worker loop never stops, and the brokers acknowledge what keeps     *)
(* being sent to them.                                                     *)
FairSpec ==
    /\ Spec
    /\ \A w \in Publishers :
          /\ WF_vars(PublishStep(w))
          /\ WF_vars(\E i \in 1..Len(queue[w]) : Deliver(w, i))
-----------------------------------------------------------------------------
(* The workers' variables keep their shape and the local queue its limit.  *)
TypeOK ==
    /\ outbox \subseteq Events /\ published \subseteq outbox
    /\ pc \in [Publishers -> {"down", "fetch", "produce", "flush", "mark"}]
    /\ batch \in [Publishers -> Seq(Events)] /\ queue \in [Publishers -> Seq(Events)]
    /\ \A w \in Publishers : Len(batch[w]) <= BatchSize /\ Len(queue[w]) <= QueueLimit
    /\ reports \in [Publishers -> BOOLEAN]
    /\ topic \in [Partitions -> Seq(Events)]
    /\ timedOut \in BOOLEAN /\ faults \in 0..MaxFaults

(* At-least-once: a row that will never be fetched again is in the log, as *)
(* long as every flush waited for its acknowledgements; also while two     *)
(* workers send and mark the same rows.                                    *)
PublishedIsLogged == ~timedOut => \A e \in published : Logged(e)

(* The same, counting a message that a live producer may still send.       *)
NoEventLost == \A e \in published : Logged(e) \/ Queued(e)

(* Without a fault a worker that runs alone sends no event twice, however  *)
(* slow the brokers are.                                                   *)
SentOnceWithoutFaults ==
    faults = 0 /\ Cardinality({w \in Publishers : pc[w] # "down"}) = 1 =>
       /\ \A p \in Partitions : IsInjective(topic[p])
       /\ \A w \in Publishers : /\ IsInjective(queue[w])
                                /\ \A i \in 1..Len(queue[w]) : ~Logged(queue[w][i])

(* Every committed event reaches the log, whatever fails, unless a flush   *)
(* timed out as well; a time-out alone only delays.                        *)
EveryEventShipped ==
    \A e \in Events : e \in outbox ~> Logged(e) \/ (timedOut /\ faults > 0)
=============================================================================
