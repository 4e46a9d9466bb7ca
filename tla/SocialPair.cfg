SPECIFICATION Spec
SYMMETRY Symmetry
CONSTANTS
  Users = {alice, bob}
  FriendRequests = {f1, f2}
  NoRequest = NoRequest
  NoUser = NoUser
  Slots = {s1, s2, s3}
  Ops <- AllOps
  MaxMessages = 1
INVARIANTS TypeOK DialogFollowsFriendship PendingMeansStrangers
PROPERTY ImplementsPair
