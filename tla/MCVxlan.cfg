CONSTANTS
  m1 = m1
  m2 = m2
  m3 = m3
  a1 = a1
  a2 = a2
  a3 = a3
  n3 = n3
  n4 = n4
  Machines = {m1, m2, m3}
  Nets = {n3, n4}
  Addrs = {a1, a2, a3}
  MachineOf <- MCMachineOf
  Flags <- MCFlags
  Attached <- MCAttached
SPECIFICATION Spec
CONSTRAINT OneDisturbed
INVARIANTS
  TypeOK
  EndsMeet
  StarComplete
  StarIsTree
  NoLeak
