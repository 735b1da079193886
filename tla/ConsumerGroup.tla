--------------------------- MODULE ConsumerGroup ----------------------------
(***************************************************************************)
(* What the consumer processes use of Kafka (external code): a log per     *)
(* partition, a group that assigns each partition to one member, a fetch   *)
(* position that lives with the assignment, and committed offsets that     *)
(* outlive it.  Offsets are committed by hand after a message was handled  *)
(* (enable.auto.commit is False) and a fresh group starts at the earliest  *)
(* message.  A member learns of a rebalance only when it polls, so it may  *)
(* still be handling a message of a partition that was given away.         *)
(***************************************************************************)
EXTENDS Integers, Sequences, FiniteSets

CONSTANTS
    Instances,   \* members of the group
    Events,      \* transactions whose events are published
    Partitions,
    Partition,   \* event -> partition of its key
    MaxLog,      \* bound on the messages produced, repeats included
    MaxMoves     \* bound on crashes and rebalances together

ASSUME GroupAssumption ==
    /\ Partition \in [Events -> Partitions]
    /\ MaxLog \in Nat /\ MaxMoves \in Nat

VARIABLES
    log,       \* partition -> messages
    owner,     \* partition -> member it is assigned to
    position,  \* partition -> messages its owner has fetched
    offset,    \* partition -> committed offset
    moves      \* crashes and rebalances so far

groupVars == <<log, owner, position, offset, moves>>

GroupInit ==
    /\ log = [p \in Partitions |-> <<>>]
    /\ owner \in [Partitions -> Instances]
    /\ position = [p \in Partitions |-> 0]
    /\ offset = [p \in Partitions |-> 0]
    /\ moves = 0

GroupTypeOK ==
    /\ log \in [Partitions -> Seq(Events)]
    /\ owner \in [Partitions -> Instances]
    /\ position \in [Partitions -> Nat] /\ offset \in [Partitions -> Nat]
    /\ \A p \in Partitions : offset[p] <= position[p] /\ position[p] <= Len(log[p])
    /\ moves \in 0..MaxMoves

(* The messages of partition p that the group will not be given again.     *)
Consumed(p) == {log[p][n] : n \in 1..offset[p]}

Produced == UNION {{log[p][n] : n \in 1..Len(log[p])} : p \in Partitions}

LogLength(L) ==
    LET sum[S \in SUBSET Partitions] ==
          IF S = {} THEN 0
          ELSE LET p == CHOOSE p \in S : TRUE IN Len(L[p]) + sum[S \ {p}]
    IN  sum[Partitions]

(* The publisher is at-least-once: any event, at any time, any number of   *)
(* times, always to the partition of its key.                              *)
Publish(e) ==
    /\ LogLength(log) < MaxLog
    /\ log' = [log EXCEPT ![Partition[e]] = Append(@, e)]
    /\ UNCHANGED <<owner, position, offset, moves>>

(* consumer.poll returns the next message of an assigned partition.        *)
Fetched(i, p) ==
    /\ owner[p] = i
    /\ position[p] < Len(log[p])
    /\ position' = [position EXCEPT ![p] = @ + 1]
    /\ UNCHANGED <<log, owner, offset, moves>>

(* consumer.commit(msg) is asynchronous: the request takes effect, or it   *)
(* is lost, or refused because the partition has moved on; the member does *)
(* not learn which.                                                        *)
Committed(i, p, n) ==
    /\ \/ owner[p] = i /\ offset' = [offset EXCEPT ![p] = n]
       \/ UNCHANGED offset
    /\ UNCHANGED <<log, owner, position, moves>>

(* Member i ends and is back: its partitions start again where the group   *)
(* last committed.                                                         *)
Restarted(i) ==
    /\ moves < MaxMoves /\ moves' = moves + 1
    /\ position' = [p \in Partitions |-> IF owner[p] = i THEN offset[p] ELSE position[p]]
    /\ UNCHANGED <<log, owner, offset>>

(* The group moves partition p to member i.                                *)
Moved(p, i) ==
    /\ moves < MaxMoves /\ moves' = moves + 1
    /\ owner[p] # i
    /\ owner' = [owner EXCEPT ![p] = i]
    /\ position' = [position EXCEPT ![p] = offset[p]]
    /\ UNCHANGED <<log, offset>>
=============================================================================
