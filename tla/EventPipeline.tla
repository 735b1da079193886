--------------------------- MODULE EventPipeline ----------------------------
(***************************************************************************)
(* From the commit of a transaction to its notification: the outbox        *)
(* publisher and the notification consumer group around one Kafka topic.   *)
(* The publisher appends to the partitions the group reads, so every       *)
(* repeat in the log is one that a crash, a failed delivery or a second    *)
(* worker really causes.                                                   *)
(***************************************************************************)
EXTENDS OutboxPublisher

CONSTANTS Instances, MaxMoves

VARIABLES owner, position, offset, moves,   \* the group
          member, msg, seen,                \* its members
          notified

N == INSTANCE NotificationConsumer WITH log <- topic, pc <- member, MaxLog <- 0

publisherOnly == <<outbox, published, workers, timedOut, faults>>
consumerOnly  == <<owner, position, offset, moves, member, msg, seen, notified>>
pipelineVars  == <<publisherOnly, topic, consumerOnly>>

PipelineInit == Init /\ N!Init

PipelineNext ==
    \/ Next /\ UNCHANGED consumerOnly
    \/ N!Next /\ UNCHANGED publisherOnly

(* Both loops keep running and the brokers answer.                         *)
PipelineSpec ==
    /\ PipelineInit /\ [][PipelineNext]_pipelineVars
    /\ \A w \in Publishers :
          /\ WF_pipelineVars(PublishStep(w) /\ UNCHANGED consumerOnly)
          /\ WF_pipelineVars((\E i \in 1..Len(queue[w]) : Deliver(w, i)) /\ UNCHANGED consumerOnly)
    /\ \A i \in Instances : WF_pipelineVars(N!Step(i) /\ UNCHANGED publisherOnly)
-----------------------------------------------------------------------------
(* At-least-once: an offset is committed only past events somebody was     *)
(* notified of.                                                            *)
NotifiedBeforeCommitted == N!NotifiedBeforeCommitted

(* The repeats the publisher puts in the log notify nobody twice: every    *)
(* extra notification of an event is paid for by a restart or a rebalance  *)
(* of the group.                                                           *)
RepeatsNeedAMove == N!RepeatsNeedAMove

(* Every committed transaction is notified in the end: through crashes on  *)
(* either side, only a flush that timed out together with a fault on the   *)
(* publisher's side can lose it.                                           *)
EveryCommitNotified ==
    \A e \in Events : e \in outbox ~> notified[e] > 0 \/ (timedOut /\ faults > 0)
=============================================================================
