\* Two streams of one relay that share a topic, and an anonymous one on another.
SPECIFICATION Spec
CONSTANTS
  t1 = t1
  t2 = t2
  channel = channel
  single = single
  app = app
  anon = anon
  r1 = r1
  r2 = r2
  Topics = {t1, t2, channel}
  Instances = {r1, r2}
  Subs = {single, app, anon}
  TopicsOf <- MCTopicsOf
  InstanceOf <- MCInstanceOf
  Anonymous = {anon}
  MaxFaults = 1
INVARIANTS
  TypeOK
  SetsAgree
  CleanupIsComplete
  AloneIsNotDropped
CHECK_DEADLOCK FALSE
