CONSTANTS
  a = a
  b = b
  Host = Host
  VMs = {a, b}
  SriovVMs = {b}
  MaxUps = 2
  MaxFaults = 1
  MaxReboots = 1
SPECIFICATION FairSpec
INVARIANTS
  TypeOK
  ImageReady
  VfsUntilReboot
PROPERTIES
  ImageKept
  ComesUp
CHECK_DEADLOCK FALSE
