CONSTANTS
  h1 = h1
  h2 = h2
  bridge = bridge
  gtp5g = gtp5g
  upf = upf
  smf = smf
  nrf = nrf
  n4 = n4
  cp = cp
  HostOrder <- MCHostOrder
  Containers <- MCContainers
  EveryHost <- MCEveryHost
  OnlyIfNeeded = {gtp5g}
  OneShot = {gtp5g}
  Bridge = bridge
  PlacedOn <- MCPlacedOn
  DependsOn <- MCDependsOn
  Nets = {n4, cp}
  Attached <- MCAttached
  Flags <- MCFlags
  Assuming = {upf}
  Reaches <- MCReaches
  Connects <- MCConnects
  MaxActs = 4
  MaxCrash = 1
SPECIFICATION FairSpec
INVARIANTS
  TypeOK
  PortsInOrder
PROPERTIES
  ComesUp
CHECK_DEADLOCK FALSE
