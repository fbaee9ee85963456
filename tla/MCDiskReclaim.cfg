SPECIFICATION FairSpec
CONSTANTS
  Cluster = {p1}
  MaxImages = 1
  MaxMoves = 0
  MaxFaults = 1
PROPERTIES VolumeGoes
CHECK_DEADLOCK FALSE
