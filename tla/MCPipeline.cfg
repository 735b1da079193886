CONSTANTS
    Publishers = {w1}
    Events <- MCEvents
    Partitions <- MCPartitions
    Partition <- MCPartition
    BatchSize = 2
    QueueLimit = 2
    MaxFaults = 1
    Instances = {i1, i2}
    MaxMoves = 2
SPECIFICATION PipelineSpec
INVARIANTS
    NotifiedBeforeCommitted
    RepeatsNeedAMove
PROPERTY
    EveryCommitNotified
CHECK_DEADLOCK FALSE
