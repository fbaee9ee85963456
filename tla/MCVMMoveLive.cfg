CONSTANTS
  p1 = p1
  p2 = p2
  NoPool = NoPool
  Home = p1
  Pool <- TwoPools
  Lossy <- NoneLossy
  Covered <- TwoPools
  Race <- MaterializerRace
SPECIFICATION FairSpec
PROPERTIES MoveCompletes
