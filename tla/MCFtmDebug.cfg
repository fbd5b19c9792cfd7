SPECIFICATION Spec

CONSTANTS
  Alignment = 2
  BlockHeader = 2
  ZoneHeader = 2
  TotalSize = 18
  Guard = TRUE
  NULL = NULL
  Sizes = {1, 5}
  MaxStrays = 1
  FTM_HISTORY_SIZE = 2
  CANARY = CANARY
  NODE = NODE
  FILL = FILL
  DATA = DATA

INVARIANTS
  NodesIntact
  HistoryShown

PROPERTIES
  ReportExact
  ClientBytesKept
