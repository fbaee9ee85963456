SPECIFICATION MCSpec
CONSTANTS
  p1 = p1
  p2 = p2
  NoPool = NoPool
  Pool = {p1, p2}
  Cluster = {p1, p2}
  MaxImages = 2
  MaxMoves = 1
  MaxFaults = 1
INVARIANTS ConfirmedIsBlocked NoLeakedBlock  MoveKeepsDisk 
PROPERTIES ReleasedIsOpen OnlyOwnerReleases ImplementsPromise EventuallyFenced 
CHECK_DEADLOCK FALSE
