SPECIFICATION Spec
CONSTANTS
  Alignment = 2
  BlockHeader = 4
  ZoneHeader = 6
  TotalSize = 34
  Guard = FALSE
  NULL = NULL
  Sizes = {0, 3, 7, 11}
INVARIANTS
  ChainInv
  NoAdjacentFreeInv
  FreeListInv
  SlackInv
  FullyFreeInv
  FitFoundInv
  ListingTrue
  CheckerExact
PROPERTIES
  Untouched
  RegionSpec
