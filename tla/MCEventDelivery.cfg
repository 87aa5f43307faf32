\* Safety and the refinement: two streams on two relays, one of an application.
SPECIFICATION Spec
CONSTANTS
  t1 = t1
  t2 = t2
  single = single
  app = app
  rival = rival
  r1 = r1
  r2 = r2
  Topics = {t1, t2}
  Subs = {single, app}
  TopicsOf <- MCTopicsOf
  Relays = {r1, r2}
  RelayOf <- MCRelayOf
  Unreadable = {2}
  ReadCount = 2
  MaxPending = 1
  ChannelSize = 2
  MaxLen = 2
  MaxEvents = 3
  MaxFaults = 1
INVARIANTS
  TypeOK
  AtMostOnce
  InOrder
  OneOutstanding
  EventsAccounted
  ReadAhead
PROPERTIES
  KeepsPromise
CHECK_DEADLOCK FALSE
