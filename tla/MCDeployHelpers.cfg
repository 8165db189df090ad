CONSTANTS
  h1 = h1
  h2 = h2
  bridge = bridge
  upf1 = upf1
  upfpfcp1 = upfpfcp1
  smf = smf
  n4 = n4
  HostOrder <- MCHostOrder
  Containers <- MCContainers
  EveryHost = {bridge}
  OnlyIfNeeded = {}
  OneShot = {}
  Bridge = bridge
  PlacedOn <- MCPlacedOn
  DependsOn <- MCDependsOn
  Nets = {n4}
  Attached <- MCAttached
  Flags <- MCFlags
  Assuming = {upf1}
  Reaches <- MCReaches
  Connects <- MCConnects
  MaxActs = 2
  MaxCrash = 1
SPECIFICATION Spec
INVARIANTS
  OnItsHost
CHECK_DEADLOCK FALSE
