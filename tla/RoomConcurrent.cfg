SPECIFICATION Spec
CONSTANTS
  Users = {u1, u2, u3}
  NoUser = NoUser
  Requests = {r1, r2}
  Invitations = {i1, i2}
  NoInvitation = NoInvitation
  Ops <- ConcurrentOps
SYMMETRY Symmetry
INVARIANTS TypeOK OwnerStanding OnePendingInvitation
PROPERTIES InvitationsAreFinal AdmissionIsJustified AdminsAnswerToOwner
CHECK_DEADLOCK FALSE
