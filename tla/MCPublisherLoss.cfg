CONSTANTS
    Publishers = {w1}
    Events <- MCEvents
    Partitions <- MCPartitions
    Partition <- MCPartition
    BatchSize = 2
    QueueLimit = 3
    MaxFaults = 1
SPECIFICATION Spec
INVARIANT
    NoEventLost
CHECK_DEADLOCK FALSE
