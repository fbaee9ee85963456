SPECIFICATION Spec
CONSTANTS
  Key <- Keys
  HostKey <- GuestKeys
  VniOf <- TableOf
  SelfRoute = SelfRoute
  NoRoute = NoRoute
  Anchored = {}
  Learnable <- Learned
  NextHop = {1, 2}
  Here = 1
  Imports <- OnePeering
  Refuse <- Refused
  StartRib <- FullRib
  StartConfig <- FullConfig
  Prompt = TRUE
  RouteCallsPerTick = 1
  RetryMaxTicks = 2
  UnsubscribeAfterTicks = 2
  MaxChanges = 2
  MaxFaults = 0
PROPERTY RoutesConverge
