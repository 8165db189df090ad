CONSTANTS
  a = a
  b = b
  d = d
  bridge = bridge
  h1 = h1
  Services = {a, b, d, bridge}
  Order <- MCOrder
  EveryHost = {bridge}
  Hosts = {h1}
  Primary = Primary
  NoHost = NoHost
  CpuCounts = {0, 1, 2}
  Inputs <- MCInputs
SPECIFICATION Spec
INVARIANTS
  TypeOK
  CpuIsolation
  FirstRuleWins
CHECK_DEADLOCK FALSE
