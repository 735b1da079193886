------------------------- MODULE AnalyticsConsumer --------------------------
(***************************************************************************)
(* The analytics consumer: the poll loop of run_analytics_consumer around  *)
(* AnalyticsService.handle_event.  One message is one database transaction *)
(* that inserts the (consumer, transaction_id) row into processed_events   *)
(* and adds the event to its row of transaction_stats.  Members run        *)
(* concurrently under READ COMMITTED; the stats row is read without a lock *)
(* and written back as absolute values.                                    *)
(***************************************************************************)
EXTENDS ConsumerGroup

CONSTANTS
    Buckets,      \* (currency, type) pairs
    Bucket,       \* event -> its pair
    Amount,       \* event -> amount
    NoStat,       \* no row for the pair yet
    MaxFailures   \* bound on database errors inside the handler

StatRow == [count : Nat, total_amount : Nat]

ASSUME AnalyticsAssumption ==
    /\ Bucket \in [Events -> Buckets]
    /\ Amount \in [Events -> Nat \ {0}]
    /\ NoStat \notin StatRow
    /\ MaxFailures \in Nat

VARIABLES
    pc,         \* where each member stands in its loop
    msg,        \* the message it handles: partition, offset after it, event
    read,       \* the stats row as its session loaded it
    processed,  \* processed_events, committed
    stats,      \* transaction_stats, committed
    clashed,    \* rows of stats that two sessions have had open at once
    failures

handlers == <<pc, msg, read>>
database == <<processed, stats>>
vars     == <<groupVars, handlers, database, clashed, failures>>

NoMsg    == <<>>
Event(i) == msg[i].event
Row(i)   == Bucket[Event(i)]

Init ==
    /\ GroupInit
    /\ pc = [i \in Instances |-> "poll"]
    /\ msg = [i \in Instances |-> NoMsg]
    /\ read = [i \in Instances |-> NoStat]
    /\ processed = {}
    /\ stats = [b \in Buckets |-> NoStat]
    /\ clashed = {} /\ failures = 0

Goto(i, l) == pc' = [pc EXCEPT ![i] = l]

(* Uncommitted INSERTs and UPDATEs that another session has to wait for.   *)
HoldsEvent(i) == pc[i] \in {"read", "write", "commit"}
HoldsRow(i)   == pc[i] = "commit"

(* Mutation: the offset is committed when the message is fetched.          *)
BugPoll(i, p) ==
    /\ pc[i] = "poll"
    /\ owner[p] = i /\ position[p] < Len(log[p])
    /\ position' = [position EXCEPT ![p] = @ + 1]
    /\ offset' = [offset EXCEPT ![p] = position[p] + 1]
    /\ msg' = [msg EXCEPT ![i] = [part |-> p, next |-> position[p] + 1,
                                  event |-> log[p][position[p] + 1]]]
    /\ Goto(i, "check")
    /\ UNCHANGED <<log, owner, moves, read, database, clashed, failures>>

Poll(i, p) ==
    /\ pc[i] = "poll"
    /\ Fetched(i, p)
    /\ msg' = [msg EXCEPT ![i] = [part |-> p, next |-> position[p] + 1,
                                  event |-> log[p][position[p] + 1]]]
    /\ Goto(i, "check")
    /\ UNCHANGED <<read, database, clashed, failures>>

is_processed(i) ==
    /\ pc[i] = "check"
    /\ Goto(i, IF Event(i) \in processed THEN "offset" ELSE "insert")
    /\ UNCHANGED <<groupVars, msg, read, database, clashed, failures>>

(* Mutation: processed_events has no primary key.                          *)
BugMarkProcessed(i) ==
    /\ pc[i] = "insert"
    /\ Goto(i, "read")
    /\ UNCHANGED <<groupVars, msg, read, database, clashed, failures>>

(* The INSERT is flushed at once: it waits for another session's insert of *)
(* the same key.  If that one commits, the IntegrityError leaves           *)
(* handle_event, whose try only covers the commit, and the loop swallows   *)
(* it.                                                                     *)
mark_processed(i) ==
    /\ pc[i] = "insert"
    /\ \A j \in Instances \ {i} : HoldsEvent(j) => Event(j) # Event(i)
    /\ Goto(i, IF Event(i) \in processed THEN "offset" ELSE "read")
    /\ UNCHANGED <<groupVars, msg, read, database, clashed, failures>>

(* increment: the row is loaded, ...                                       *)
ReadStat(i) ==
    /\ pc[i] = "read"
    /\ read' = [read EXCEPT ![i] = stats[Row(i)]]
    /\ clashed' = clashed \cup {Row(j) : j \in {k \in Instances \ {i} :
                                    pc[k] \in {"write", "commit"} /\ Row(k) = Row(i)}}
    /\ Goto(i, "write")
    /\ UNCHANGED <<groupVars, msg, database, failures>>

(* ... and flushed: an UPDATE waits for the row lock, an INSERT for the    *)
(* primary key, which refuses it if the row exists by now.                 *)
WriteStat(i) ==
    /\ pc[i] = "write"
    /\ \A j \in Instances \ {i} : HoldsRow(j) => Row(j) # Row(i)
    /\ Goto(i, IF read[i] = NoStat /\ stats[Row(i)] # NoStat THEN "offset" ELSE "commit")
    /\ UNCHANGED <<groupVars, msg, read, database, clashed, failures>>

Increment(s, e) ==
    IF s = NoStat THEN [count |-> 1, total_amount |-> Amount[e]]
    ELSE [count |-> s.count + 1, total_amount |-> s.total_amount + Amount[e]]

(* Mutation: the event is recorded and the aggregate updated separately.   *)
BugCommit(i) ==
    /\ pc[i] = "commit"
    /\ stats' = [stats EXCEPT ![Row(i)] = Increment(read[i], Event(i))]
    /\ Goto(i, "offset")
    /\ UNCHANGED <<groupVars, msg, read, processed, clashed, failures>>

(* One commit for the processed row and the aggregate.                     *)
Commit(i) ==
    /\ pc[i] = "commit"
    /\ processed' = processed \cup {Event(i)}
    /\ stats' = [stats EXCEPT ![Row(i)] = Increment(read[i], Event(i))]
    /\ Goto(i, "offset")
    /\ UNCHANGED <<groupVars, msg, read, clashed, failures>>

(* Any exception of the handler is logged, the session closed and the loop *)
(* goes on to commit the offset.                                           *)
HandlerFails(i) ==
    /\ pc[i] \in {"check", "insert", "read", "write", "commit"}
    /\ failures < MaxFailures /\ failures' = failures + 1
    /\ Goto(i, "offset")
    /\ UNCHANGED <<groupVars, msg, read, database, clashed>>

(* Mutation: the offset committed is one too far.                          *)
BugCommitOffset(i) ==
    /\ pc[i] = "offset"
    /\ Committed(i, msg[i].part, msg[i].next + 1)
    /\ Goto(i, "poll")
    /\ msg' = [msg EXCEPT ![i] = NoMsg]
    /\ read' = [read EXCEPT ![i] = NoStat]
    /\ UNCHANGED <<database, clashed, failures>>

(* consumer.commit(msg), whatever became of the handler.                   *)
CommitOffset(i) ==
    /\ pc[i] = "offset"
    /\ Committed(i, msg[i].part, msg[i].next)
    /\ Goto(i, "poll")
    /\ msg' = [msg EXCEPT ![i] = NoMsg]
    /\ read' = [read EXCEPT ![i] = NoStat]
    /\ UNCHANGED <<database, clashed, failures>>

(* The process dies, its database transaction is rolled back, and it joins *)
(* the group again.                                                        *)
Crash(i) ==
    /\ Restarted(i)
    /\ Goto(i, "poll")
    /\ msg' = [msg EXCEPT ![i] = NoMsg]
    /\ read' = [read EXCEPT ![i] = NoStat]
    /\ UNCHANGED <<database, clashed, failures>>

Rebalance(p, i) ==
    /\ pc[i] = "poll"
    /\ Moved(p, i)
    /\ UNCHANGED <<handlers, database, clashed, failures>>

Produce(e) ==
    /\ Publish(e)
    /\ UNCHANGED <<handlers, database, clashed, failures>>

Step(i) ==
    \/ \E p \in Partitions : Poll(i, p)
    \/ is_processed(i) \/ mark_processed(i)
    \/ ReadStat(i) \/ WriteStat(i) \/ Commit(i) \/ CommitOffset(i)

Next ==
    \/ \E e \in Events : Produce(e)
    \/ \E i \in Instances : \/ Step(i) \/ HandlerFails(i) \/ Crash(i)
                            \/ \E p \in Partitions : Rebalance(p, i)

Spec == Init /\ [][Next]_vars

(* Each member's loop keeps running.                                       *)
FairSpec == Spec /\ \A i \in Instances : WF_vars(Step(i))
-----------------------------------------------------------------------------
(* The loops, their sessions and the two tables keep their shape.          *)
TypeOK ==
    /\ GroupTypeOK
    /\ pc \in [Instances -> {"poll", "check", "insert", "read", "write", "commit", "offset"}]
    /\ \A i \in Instances :
          IF pc[i] = "poll" THEN msg[i] = NoMsg
          ELSE msg[i] \in [part : Partitions, next : Nat, event : Events]
    /\ read \in [Instances -> StatRow \cup {NoStat}]
    /\ processed \subseteq Events
    /\ stats \in [Buckets -> StatRow \cup {NoStat}]
    /\ clashed \subseteq Buckets
    /\ failures \in 0..MaxFailures

InBucket(b) == {e \in processed : Bucket[e] = b}
Counted(b)  == IF stats[b] = NoStat THEN 0 ELSE stats[b].count
Summed(b)   == IF stats[b] = NoStat THEN 0 ELSE stats[b].total_amount

(* The money of the recorded events, unit by unit.                         *)
Units(e)    == {e} \X (1..Amount[e])
Recorded(b) == UNION {Units(e) : e \in InBucket(b)}
Expected(b) == Cardinality(Recorded(b))

(* "aggregates are never double-counted": however often an event is        *)
(* delivered and whichever members handle it, it adds to the rollup once.  *)
NeverDoubleCounted ==
    \A b \in Buckets : /\ Counted(b) <= Cardinality(InBucket(b))
                       /\ Summed(b) <= Expected(b)

Exact(b) == Counted(b) = Cardinality(InBucket(b)) /\ Summed(b) = Expected(b)

(* The rollup is what the recorded events add up to.                       *)
RollupExact == \A b \in Buckets : Exact(b)

(* It is, through crashes, rebalances and repeats, as long as no two       *)
(* members had the same row open at the same time.                         *)
ExactUnlessClashed == \A b \in Buckets \ clashed : Exact(b)

(* Two members come to work on one row for the first time only when they   *)
(* read different partitions, or after a handler failed: a partition that  *)
(* moves while its old owner still handles a message lets the new owner    *)
(* repeat that message and wait for the outcome, and no other overlap.     *)
ClashNeedsTwoPartitions ==
    \A i, j \in Instances :
       i # j /\ HoldsEvent(i) /\ HoldsEvent(j) /\ Row(i) = Row(j) /\ Row(i) \notin clashed
       => msg[i].part # msg[j].part \/ failures > 0

(* Events whose offset is committed and which were never recorded, though  *)
(* their row has not clashed.                                              *)
PassedOver ==
    {e \in Events \ processed :
       Bucket[e] \notin clashed /\ \E p \in Partitions : e \in Consumed(p)}

(* An offset is committed past an event that was not recorded only when a  *)
(* handler failed on it, once for each such event, or lost a clash:        *)
(* crashes and rebalances skip nothing.                                    *)
SkippedOnlyByFailures == Cardinality(PassedOver) <= failures

(* Every published event is counted in the end, unless a handler failed or *)
(* lost a clash.                                                           *)
CountedUnlessFailed ==
    \A e \in Events : e \in Produced ~> \/ e \in processed
                                       \/ failures > 0 \/ Bucket[e] \in clashed
=============================================================================
