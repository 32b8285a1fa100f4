SPECIFICATION FairSpec
CONSTANTS
  Video = {1, 2, 3}
  Sweep = {s1}
  CategoryOf <- Categories
  AnyCategory = AnyCategory
  Never = Never
  Request <- Requests
  Window = 2
  Lookback = 2
  PageSize = 1
  MaxAttempts = 2
  MaxTime = 3
INVARIANT TypeOK
INVARIANT CoveredIsFound
PROPERTY SweepsEnd
