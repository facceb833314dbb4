SPECIFICATION FairSpec
CONSTANTS
  Requests <- CallsUpToSix
  MaxItems = 5
  Parallelism <- OneToFour
  SpawnMayFail = TRUE
CHECK_DEADLOCK FALSE
INVARIANTS TypeOK AnswersEveryItem EverySlotFilled NoThreadOutlivesCall ThreadsAreUseful
PROPERTY CallEnds
