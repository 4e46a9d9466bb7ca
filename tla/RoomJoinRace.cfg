SPECIFICATION Spec
CONSTANTS
  Users = {u1, u2, u3}
  NoUser = NoUser
  Requests = {r1, r2}
  Invitations = {}
  NoInvitation = NoInvitation
  Ops <- ConcurrentOps
SYMMETRY Symmetry
INVARIANT BannedNotMember
CHECK_DEADLOCK FALSE
