\* Two streams of one context and one of another context of the same machine.
SPECIFICATION Spec
CONSTANTS
  mach = mach
  org1 = org1
  org2 = org2
  a = a
  b = b
  d = d
  None = None
  Machines = {mach}
  Contexts = {org1, org2}
  Subs = {a, b, d}
  MachineOf <- MCMachineOf
  ContextOf <- MCContextOf
  MaxFaults = 1
SYMMETRY Clients
CONSTRAINT OneDisturbance
INVARIANTS
  TypeOK
  Findable
  TableTells
  GoneIsDisconnected
CHECK_DEADLOCK FALSE
