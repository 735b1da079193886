CONSTANTS
    Publishers = {w1, w2}
    Events <- MCEvents
    Partitions <- MCPartitions
    Partition <- MCPartition
    BatchSize = 2
    QueueLimit = 2
    MaxFaults = 1
SPECIFICATION FairSpec
INVARIANTS
    TypeOK
    PublishedIsLogged
    SentOnceWithoutFaults
PROPERTY
    EveryEventShipped
CHECK_DEADLOCK FALSE
