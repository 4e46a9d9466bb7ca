SPECIFICATION Spec
CONSTANTS
  Tabs = {t1, t2}
  Queries = {q1, q2}
  Servers = {s1, s2}
  ServerOf <- OwnServer
  NoActor = NoActor
  Crashing = {}
  Hiding = {t1}
  MaxLapses = 0
INVARIANTS TypeOK ClosedUserIsOffline
CHECK_DEADLOCK FALSE
