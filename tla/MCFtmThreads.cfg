SPECIFICATION FairSpec

CONSTANTS
  Thread = {t1, t2}
  Main = t1
  Block = {b1, b2, b3}
  MaxHeld = 1
  MaxForks = 2
  NULL = NULL

INVARIANTS
  MutexAccounted
  OneOwner
  ContentsKept

PROPERTIES
  LockGivenBack

CHECK_DEADLOCK FALSE
