SPECIFICATION FairSpec
CONSTANTS
  Orders = 3
  MaxHits = 2
INVARIANT ReturnMeansDone
INVARIANT FailsOnlyWithTheCall
PROPERTY ClientEnds
CHECK_DEADLOCK FALSE
