SPECIFICATION FairSpec
CONSTANTS
  v1 = v1
  v2 = v2
  v3 = v3
  VM = {v1, v2, v3}
  Initial = 10
  MaxRequests = 2
INVARIANT TypeOK
INVARIANT NoIncrementLost
PROPERTY ImplementsCounter
PROPERTY RequestsEnd
CHECK_DEADLOCK FALSE
