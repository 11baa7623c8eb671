CONSTANTS
    BatchSize = 3
    MaxFrames = 6
SPECIFICATION FairSpec
INVARIANTS TypeOK AckedOnce OnlySavedAcked BatchBounded BatchHasTimer
PROPERTY SavedIsAcked
CHECK_DEADLOCK FALSE
