----------------------------- MODULE MCPipeline -----------------------------
(* Two transactions in one partition, one publisher and two members, with  *)
(* a fault on the publisher's side and two moves of the group.             *)
EXTENDS EventPipeline

MCEvents == 1..2
MCPartitions == {0}
MCPartition == [e \in MCEvents |-> 0]
=============================================================================
