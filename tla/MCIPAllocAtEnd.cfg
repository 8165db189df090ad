CONSTANTS
  Nets = {n2, n3}
  Hosts = {amf, gnb, upf}
  Dot0 = Dot0
  Dot1 = Dot1
  MaxCount = 2
  FirstNet = 1
  LastNet = 1
  LastHost = 4
  Octet = 6
  FixedLists <- MCFixedAtEnd
SPECIFICATION Spec
INVARIANT RunWithinSubnet
CHECK_DEADLOCK FALSE
