SPECIFICATION Spec
CONSTANTS
  Users = {u1, u2, u3}
  NoUser = NoUser
  Requests = {r1}
  Invitations = {i1, i2}
  NoInvitation = NoInvitation
  Ops <- AllOps
SYMMETRY Symmetry
INVARIANTS BannedNotMember DeletedRoomLeavesNothing
PROPERTY ImplementsAccess
CHECK_DEADLOCK FALSE
