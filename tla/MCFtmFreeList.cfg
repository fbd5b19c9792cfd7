SPECIFICATION Spec

CONSTANTS
  b1 = b1
  b2 = b2
  b3 = b3
  NULL = NULL
  Block <- MCBlock
  PayloadSize <- MCPayloadSize
  Requests = {2, 3}
  Written <- MCWritten

INVARIANTS
  LinksAgree
  SearchInList

PROPERTIES
  ClientData
  SequenceSpec
  SearchEnds
