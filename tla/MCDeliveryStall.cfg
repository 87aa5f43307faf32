\* One client, as many events in a row that cannot be converted as the throttle
\* lets through, and one more event: nobody reads it.
SPECIFICATION FairSpec
CONSTANTS
  t1 = t1
  t2 = t2
  single = single
  app = app
  rival = rival
  r1 = r1
  r2 = r2
  Topics = {t1}
  Subs = {single}
  TopicsOf <- MCTopicsOf
  Relays = {r1, r2}
  RelayOf <- MCRelayOf
  Unreadable = {1, 2}
  ReadCount = 2
  MaxPending = 2
  ChannelSize = 1
  MaxLen = 2
  MaxEvents = 3
  MaxFaults = 0
PROPERTIES
  WaitingEventsAreRead
CHECK_DEADLOCK FALSE
