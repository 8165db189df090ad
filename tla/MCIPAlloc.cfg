CONSTANTS
  Nets = {n2, n3}
  Hosts = {amf, gnb, upf}
  Dot0 = Dot0
  Dot1 = Dot1
  MaxCount = 2
  FirstNet = 1
  LastNet = 1
  LastHost = 4
  Octet = 6
  FixedLists <- MCFixedLists
SPECIFICATION Spec
SYMMETRY Symmetry
INVARIANTS
  TypeOK
  HostRangesDisjoint
  AssignmentsHonoured
  NoNumberWasted
PROPERTIES
  NumbersKept
CHECK_DEADLOCK FALSE
