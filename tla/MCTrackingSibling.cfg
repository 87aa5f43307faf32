\* Nothing fails or expires: a client of a topic leaves, another still listens.
SPECIFICATION Spec
CONSTANTS
  t1 = t1
  t2 = t2
  channel = channel
  single = single
  app = app
  anon = anon
  r1 = r1
  r2 = r2
  Topics = {t1, t2, channel}
  Instances = {r1, r2}
  Subs = {single, app, anon}
  TopicsOf <- MCTopicsOf
  InstanceOf <- MCInstanceOf
  Anonymous = {anon}
  MaxFaults = 0
INVARIANTS
  ListenerIsNotDropped
CHECK_DEADLOCK FALSE
