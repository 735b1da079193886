CONSTANTS
    Instances = {i1, i2}
    Events <- MCEvents
    Partitions <- MCPartitions
    Partition <- MCPartition
    MaxLog = 3
    MaxMoves = 2
    Buckets <- MCBuckets
    Bucket <- MCBucket
    Amount <- MCAmount
    NoStat = NoStat
    MaxFailures = 1
SPECIFICATION FairSpec
INVARIANTS
    TypeOK
    NeverDoubleCounted
    ExactUnlessClashed
    ClashNeedsTwoPartitions
    SkippedOnlyByFailures
PROPERTY
    CountedUnlessFailed
CHECK_DEADLOCK FALSE
