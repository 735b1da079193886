------------------------ MODULE NotificationConsumer ------------------------
(***************************************************************************)
(* The notification consumer: NotificationConsumer.run_forever, which      *)
(* polls, skips what its in-memory set has seen, notifies, and commits the *)
(* offset.  The set is lost with the process and is not shared between     *)
(* members of the group.                                                   *)
(***************************************************************************)
EXTENDS ConsumerGroup

VARIABLES
    pc,        \* where each member stands in its loop
    msg,       \* the message it handles
    seen,      \* self.seen
    notified   \* event -> notifications sent

handlers == <<pc, msg, seen>>
vars     == <<groupVars, handlers, notified>>

Init ==
    /\ GroupInit
    /\ pc = [i \in Instances |-> "poll"]
    /\ msg = [i \in Instances |-> <<>>]
    /\ seen = [i \in Instances |-> {}]
    /\ notified = [e \in Events |-> 0]

(* Mutation: the offset is committed when the message is fetched.          *)
BugPoll(i, p) ==
    /\ pc[i] = "poll"
    /\ owner[p] = i /\ position[p] < Len(log[p])
    /\ position' = [position EXCEPT ![p] = @ + 1]
    /\ offset' = [offset EXCEPT ![p] = position[p] + 1]
    /\ msg' = [msg EXCEPT ![i] = [part |-> p, next |-> position[p] + 1,
                                  event |-> log[p][position[p] + 1]]]
    /\ pc' = [pc EXCEPT ![i] = "handle"]
    /\ UNCHANGED <<log, owner, moves, seen, notified>>

Poll(i, p) ==
    /\ pc[i] = "poll"
    /\ Fetched(i, p)
    /\ msg' = [msg EXCEPT ![i] = [part |-> p, next |-> position[p] + 1,
                                  event |-> log[p][position[p] + 1]]]
    /\ pc' = [pc EXCEPT ![i] = "handle"]
    /\ UNCHANGED <<seen, notified>>

(* Mutation: self.seen is never filled.                                    *)
BugHandleEvent(i) ==
    /\ pc[i] = "handle"
    /\ notified' = [notified EXCEPT ![msg[i].event] = @ + 1]
    /\ pc' = [pc EXCEPT ![i] = "offset"]
    /\ UNCHANGED <<groupVars, msg, seen>>

(* A duplicate is skipped; anything else is notified and remembered.       *)
handle_event(i) ==
    /\ pc[i] = "handle"
    /\ IF msg[i].event \in seen[i]
       THEN UNCHANGED <<seen, notified>>
       ELSE /\ notified' = [notified EXCEPT ![msg[i].event] = @ + 1]
            /\ seen' = [seen EXCEPT ![i] = @ \cup {msg[i].event}]
    /\ pc' = [pc EXCEPT ![i] = "offset"]
    /\ UNCHANGED <<groupVars, msg>>

CommitOffset(i) ==
    /\ pc[i] = "offset"
    /\ Committed(i, msg[i].part, msg[i].next)
    /\ pc' = [pc EXCEPT ![i] = "poll"]
    /\ msg' = [msg EXCEPT ![i] = <<>>]
    /\ UNCHANGED <<seen, notified>>

(* The process ends, by a crash or by an exception of the handler, and is  *)
(* started again with an empty set.                                        *)
Crash(i) ==
    /\ Restarted(i)
    /\ pc' = [pc EXCEPT ![i] = "poll"]
    /\ msg' = [msg EXCEPT ![i] = <<>>]
    /\ seen' = [seen EXCEPT ![i] = {}]
    /\ UNCHANGED notified

Rebalance(p, i) ==
    /\ pc[i] = "poll"
    /\ Moved(p, i)
    /\ UNCHANGED <<handlers, notified>>

Step(i) ==
    \/ \E p \in Partitions : Poll(i, p)
    \/ handle_event(i)
    \/ CommitOffset(i)

Next == \E i \in Instances : \/ Step(i) \/ Crash(i)
                              \/ \E p \in Partitions : Rebalance(p, i)
-----------------------------------------------------------------------------
(* At-least-once: an offset is committed only past events somebody was     *)
(* notified of.                                                            *)
NotifiedBeforeCommitted ==
    \A p \in Partitions : \A e \in Consumed(p) : notified[e] > 0

(* Repeats in the log alone notify nobody twice: every extra notification  *)
(* of an event is paid for by a restart or a rebalance.                    *)
RepeatsNeedAMove == \A e \in Events : notified[e] <= 1 + moves
=============================================================================
