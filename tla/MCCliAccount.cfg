\* Two commands and three callbacks, two ports.
SPECIFICATION Spec
CONSTANTS
  c1 = c1
  c2 = c2
  r1 = r1
  r2 = r2
  r3 = r3
  None = None
  Commands = {c1, c2}
  Callbacks = {r1, r2, r3}
  Ports = {1, 2}
  Plans <- MCPlans
INVARIANTS
  TypeOK
  SettingsAreKept
PROPERTIES
  CommandsEnd
CHECK_DEADLOCK FALSE
