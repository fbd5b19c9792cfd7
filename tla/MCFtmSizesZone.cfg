SPECIFICATION Spec

CONSTANTS
  Width = 7
  DeltaShift = 3
  Alignment = 2
  BlockHeader = 4
  ZoneHeader = 6
  TagSize = 2
  PointerSize = 1
  PageSize = 16
  TinyMax = 4
  SmallMax = 8
  MinAllocs = 2
  FitNum = 2
  MapMax = 80
  CachedSizes = {0, 64}
  NULL = NULL

INVARIANTS
  NoZoneLeft
