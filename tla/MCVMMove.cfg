CONSTANTS
  p1 = p1
  p2 = p2
  NoPool = NoPool
  Home = p1
  Pool <- TwoPools
  Lossy <- OneLossy
  Covered <- TwoPools
  Race <- NoRace
SPECIFICATION Spec
INVARIANTS SingleWriter 
PROPERTIES ProofBeforeRelease RebindIsFenced
