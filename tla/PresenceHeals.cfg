SPECIFICATION FairSpec
CONSTANTS
  Tabs = {t1, t2}
  Queries = {q1, q2}
  Servers = {s1}
  ServerOf <- OneServer
  NoActor = NoActor
  Crashing = {s1}
  Hiding = {}
  MaxLapses = 1
INVARIANT OneProcessIsExact
PROPERTY OpenTabComesBack
CHECK_DEADLOCK FALSE
