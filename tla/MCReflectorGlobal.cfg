SPECIFICATION Spec
CONSTANTS
  a = a
  b = b
  k1 = k1
  v1 = v1
  f1 = f1
  f2 = f2
  nat1 = nat1
  pub1 = pub1
  Node <- TwoNodes
  NextHop <- TwoNodes
  Owner <- OwnAddress
  VNI = {}
  Key = {}
  VniOf <- NoKeys
  GKey = {nat1, pub1}
  PublicKey = {pub1}
  PublicOwner <- OwnedByA
  Edge = {a, b}
  Fence <- NoFence
  Within <- NoFenceWithin
  MaxSession = 4
INVARIANTS IndexConsistent GlobalFeedMatchesTable
PROPERTIES TakeoverSurvives
CHECK_DEADLOCK FALSE
