SPECIFICATION Spec

CONSTANTS
  Alignment = 2
  BlockHeader = 4
  ZoneHeader = 6
  TotalSize = 34
  Guard = FALSE
  NULL = NULL
  Sizes = {1, 5}
  Alignments = {4}
  TagSize = 2
  MagicAddrs = {22}
  USED = USED
  FREE = FREE
  MAGIC = MAGIC
  DATA = DATA

INVARIANTS
  LiveFound
  UsableInside
  FreesOnlyUsed
  DoubleFreeIgnored
