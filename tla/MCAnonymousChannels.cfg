\* Two calls from one IP; or one call, with two webhooks and a client, one failure.
SPECIFICATION Spec
CONSTANTS
  c1 = c1
  c2 = c2
  ip = ip
  w1 = w1
  w2 = w2
  Channels = {c1, c2}
  Ips = {ip}
  IpOf <- MCIpOf
  Requests = {w1, w2}
  IpLimit = 1
  Lifetime = 3
  Batch = 1
  None = None
  Plans <- MCPlans
  MaxTime = 5
  MaxFaults = 1
INVARIANTS
  TypeOK
  IpBound
  SlotsComeBack
  DisabledIsRefused
  RequestCount
PROPERTIES
  GoneIsGone
  ExpiredAreRemoved
CHECK_DEADLOCK FALSE
