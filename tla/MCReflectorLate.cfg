SPECIFICATION Spec
CONSTANTS
  a = a
  b = b
  k1 = k1
  v1 = v1
  f1 = f1
  f2 = f2
  nat1 = nat1
  pub1 = pub1
  Node <- TwoNodes
  NextHop <- TwoNodes
  Owner <- OwnAddress
  VNI = {v1}
  Key = {k1}
  VniOf <- OneVni
  GKey = {}
  PublicKey = {}
  PublicOwner <- NoOwner
  Edge = {}
  Fence <- NoFence
  Within <- NoFenceWithin
  MaxSession = 3
INVARIANTS EndedNodesHaveNoRoutes
