\* One client at a time: streams of one machine or of two, a listener, or the tracker.
SPECIFICATION Spec
CONSTANTS
  c1 = c1
  c2 = c2
  c3 = c3
  A = A
  B = B
  Calls = {c1, c2, c3}
  Topics = {A, B}
  Machines = {A, B}
  None = None
  Plans <- MCPlans
  MaxEvents = 2
INVARIANTS
  TypeOK
  StuckNeedsSurplus
  ConfirmedIsHeard
  PresenceAgrees
PROPERTIES
  CallsReturn
CHECK_DEADLOCK FALSE
