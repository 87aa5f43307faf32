\* Three requests; a minute of two ticks, a day of five.
SPECIFICATION Spec
CONSTANTS
  Requests = {r1, r2, r3}
  Never = Never
  Length <- MCLength
  Limit <- MCLimit
  MaxTime = 5
  MaxFaults = 1
SYMMETRY Anyone
INVARIANTS
  TypeOK
  WithinLimit
PROPERTY DenialsAreEarned
CHECK_DEADLOCK FALSE
