CONSTANTS
    Instances = {i1, i2}
    Events <- MCEvents
    Partitions <- MCPartitions
    Partition <- MCPartition
    MaxLog = 3
    MaxMoves = 0
    Buckets <- MCBuckets
    Bucket <- MCBucket
    Amount <- MCAmount
    NoStat = NoStat
    MaxFailures = 0
SPECIFICATION Spec
INVARIANT
    RollupExact
CHECK_DEADLOCK FALSE
