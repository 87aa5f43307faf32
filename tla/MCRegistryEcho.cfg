\* One stream in each of two contexts of a machine; nothing fails.
SPECIFICATION Spec
CONSTANTS
  mach = mach
  org1 = org1
  org2 = org2
  a = a
  b = b
  d = d
  None = None
  Machines = {mach}
  Contexts = {org1, org2}
  Subs = {a, d}
  MachineOf <- MCMachineOf
  ContextOf <- MCContextOf
  MaxFaults = 0
INVARIANT OnlyAskedAreCancelled
CHECK_DEADLOCK FALSE
