CONSTANTS
  a = a
  b = b
  Host = Host
  VMs = {a, b}
  SriovVMs = {b}
  MaxUps = 2
  MaxFaults = 0
  MaxReboots = 1
SPECIFICATION Spec
INVARIANTS
  VfsReady
CHECK_DEADLOCK FALSE
