---------------------------- MODULE MCPublisher -----------------------------
(* Small instances of OutboxPublisher: three events in two partitions, a   *)
(* batch of two, and a local queue that a retry can fill.                  *)
EXTENDS OutboxPublisher

MCEvents == 1..3
MCPartitions == {0, 1}
MCPartition == [e \in MCEvents |-> e % 2]
=============================================================================
