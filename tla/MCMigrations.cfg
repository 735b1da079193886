CONSTANTS
    Jobs = {j1, j2}
    DownTo = {0, 1, 2, 3, 4, 5, 6, 7}
    MaxRuns = 4
    MaxCrashes = 1
SPECIFICATION FairSpec
INVARIANTS
    VersionMatchesSchema
    FailsOnlyByOverlap
PROPERTY
    EveryRunEnds
CHECK_DEADLOCK FALSE
