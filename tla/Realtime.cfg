SPECIFICATION FairSpec
CONSTANTS
  Users = {alice, bob}
  Owner = alice
  Conns = {c2}
  UserOf <- MemberConn
  Messages = {m1}
  NoMessage = NoMessage
  Requests = {r1, r2}
  Capacity = 2
  Ops <- CheckedOps
INVARIANTS TypeOK ViewFollowsSerialRequests NothingWithheldIsShown
PROPERTY OwedArrives
CHECK_DEADLOCK FALSE
