SPECIFICATION Spec

CONSTANTS
  Capacity = 4
  Multiplier = 1
  NULL = NULL
  NPages = 5
  TinyPages = 1
  SmallPages = 1
  LargePages = {1, 2}
  Kinds <- MCKinds
  PerPage = 1
  MaxHeld = 3
  CacheMax = 1
  FitFactor = 2
  EnableLargeCache = TRUE
  EnableZoneMap = TRUE

INVARIANTS
  LookupComplete
