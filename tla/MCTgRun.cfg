CONSTANTS
  h1 = h1
  h2 = h2
  s1 = s1
  s2 = s2
  c1 = c1
  c2 = c2
  HostOrder <- MCHostOrder
  CtOrder <- MCCtOrder
  Servers = {s1, s2}
  HostOf <- MCHostOf
  MaxRuns = 3
  MaxFaults = 2
SPECIFICATION FairSpec
INVARIANTS
  TypeOK
  SoundResults
PROPERTIES
  StepsInOrder
  Ends
CHECK_DEADLOCK FALSE
