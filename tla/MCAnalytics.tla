---------------------------- MODULE MCAnalytics -----------------------------
(* Small instances of AnalyticsConsumer: three events of one bucket, two   *)
(* of them in one partition.                                               *)
EXTENDS AnalyticsConsumer

MCEvents == 1..3
MCBuckets == {"INR-DEPOSIT"}
MCBucket == [e \in MCEvents |-> "INR-DEPOSIT"]
MCAmount == <<1, 2, 1>>
MCPartitions == {0, 1}
MCPartition == [e \in MCEvents |-> e % 2]
=============================================================================
