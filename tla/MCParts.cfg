SPECIFICATION MCSpec
CONSTANTS
  k1 = k1
  k2 = k2
  v1 = v1
  b1 = b1
  b2 = b2
  p1 = p1
  p2 = p2
  n1 = n1
  NoBackend = NoBackend
  NoLb = NoLb
  l1 = l1
  Addr = {1, 2}
  Pins = {0, 2}
  LB = {l1}
  Source = {1, 2}
  StartNics <- MCStartNics
  Ports = 2
  Sizes = {1, 2}
  MaxEvents = 1
  Key = {k1, k2}
  HostKey = {k1, k2}
  VniOf <- MCVniOf
  Route = {r1, r2}
  SelfRoute = SelfRoute
  NoRoute = NoRoute
  Anchored = {}
  PortBits = 3
  PortRange <- MCRanges
  Owner <- Owners
  NatOwnersMax = 4
  MaxSet = 2
  Address = {1, 2}
  SvcPort = {1, 2}
  PortSets = {{1, 2}}
  Backend = {b1, b2}
  TableSize = 2
  MaxTable = 3
  Jump = 1
  MaxFaults = 1
  OldMaps <- Olds
INVARIANTS LocalDelivery MeshRouteIsListed ListedIsRouted PrefixesAreListed ReturnsReachOwner ForwardsToOwn EdgeMatchesFeed RestIsServed PublishedIsHeld DisjointBlocks
PROPERTIES AdoptKeepsService KeepsLiveBackends KeepsBlocks
CHECK_DEADLOCK FALSE
