CONSTANTS
  ue1 = ue1
  ue2 = ue2
  dnA = dnA
  dnB = dnB
  dnC = dnC
  UEs = {ue1, ue2}
  Subs <- MCSubs
  Image <- MCImage
  DNs <- MCDNs
  SubscribedDN <- MCSubscribedDN
  DnService <- MCDnService
  Pool <- MCPool
  FlowDefs <- MCFlowDefs
  BasePort = 3
  FlowPorts = {0, 4}
  MaxChanges = 1
SPECIFICATION PlanSpec
INVARIANTS
  PlanTypeOK
  FlowsServed
  StableTable
  Listed
CHECK_DEADLOCK FALSE
