\* Liveness: two clients on two relays that compete for the events of one topic;
\* fewer events in a row are left behind than the throttle lets through.
SPECIFICATION FairSpec
CONSTANTS
  t1 = t1
  t2 = t2
  single = single
  app = app
  rival = rival
  r1 = r1
  r2 = r2
  Topics = {t1}
  Subs = {single, rival}
  TopicsOf <- MCTopicsOf
  Relays = {r1, r2}
  RelayOf <- MCRelayOf
  Unreadable = {2}
  ReadCount = 1
  MaxPending = 2
  ChannelSize = 1
  MaxLen = 3
  MaxEvents = 3
  MaxFaults = 1
PROPERTIES
  WaitingEventsAreRead
  ReceivedEventsAreTaken
CHECK_DEADLOCK FALSE
