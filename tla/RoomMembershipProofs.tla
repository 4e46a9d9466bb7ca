------------------------ MODULE RoomMembershipProofs ------------------------
(***************************************************************************)
(* Proofs about RoomMembership for any users, any number of overlapping    *)
(* requests and any invitations.                                           *)
(***************************************************************************)
EXTENDS RoomMembership, TLAPS

-----------------------------------------------------------------------------
(* Type correctness.                                                       *)

LEMMA BeginTyped ==
  ASSUME TypeOK, NEW r \in Requests, NEW s \in Stages, NEW a \in Users,
         NEW t \in Users, NEW o \in Roles,
         NEW i \in Invitations \union {NoInvitation},
         s = "accepting" => i \in Invitations,
         Begin(r, s, a, t, o, i)
  PROVE  TypeOK'
<1>1. [stage |-> s, actor |-> a, target |-> t, seen |-> o, inv |-> i] \in Request
  BY DEF Request
<1>2. req' \in [Requests -> Request]
  BY <1>1 DEF TypeOK, Begin
<1>3. \A q \in Requests : req'[q] = IF q = r
        THEN [stage |-> s, actor |-> a, target |-> t, seen |-> o, inv |-> i]
        ELSE req[q]
  BY DEF TypeOK, Begin
<1>4. /\ \A q \in Requests :
           req'[q].stage # "idle" => req'[q].actor \in Users /\ req'[q].target \in Users
      /\ \A q \in Requests :
           req'[q].stage = "accepting" => req'[q].inv \in Invitations
  BY <1>3 DEF TypeOK
<1>. QED  BY <1>2, <1>4 DEF TypeOK, Begin, database

LEMMA IdleTyped == Idle \in Request /\ NoRow \in InvitationRow
BY DEF Idle, Request, Stages, Roles, NoRow, InvitationRow

\* A finished request leaves the slots well typed, whatever it wrote.
LEMMA EndTyped ==
  ASSUME TypeOK, NEW r \in Requests, NEW s, End(r, s)
  PROVE  /\ req' \in [Requests -> Request]
         /\ \A q \in Requests : req'[q] = IF q = r THEN Idle ELSE req[q]
         /\ \A q \in Requests :
              req'[q].stage # "idle" => req'[q].actor \in Users /\ req'[q].target \in Users
         /\ \A q \in Requests :
              req'[q].stage = "accepting" => req'[q].inv \in Invitations
<1>1. \A q \in Requests : req'[q] = IF q = r THEN Idle ELSE req[q]
  BY DEF TypeOK, End
<1>2. req' \in [Requests -> Request]
  BY IdleTyped DEF TypeOK, End
<1>3. Idle.stage = "idle"
  BY DEF Idle
<1>. QED  BY <1>1, <1>2, <1>3 DEF TypeOK

LEMMA TypeInit == Init => TypeOK
<1>1. ASSUME Init PROVE TypeOK
  <2>1. req = [r \in Requests |-> Idle] /\ Idle.stage = "idle"
    BY <1>1 DEF Init, Idle
  <2>. QED  BY <1>1, <2>1, IdleTyped DEF Init, TypeOK, Roles
<1>. QED  BY <1>1

LEMMA TypeRoomStep == TypeOK /\ RoomStep => TypeOK'
<1>1. ASSUME TypeOK, NEW u \in Users, NEW v \in {"public", "private"},
             CreateRoom(u, v)
      PROVE  TypeOK'
  BY <1>1 DEF TypeOK, CreateRoom, Roles
<1>2. ASSUME TypeOK, NEW u \in Users, NEW v \in {"public", "private"},
             UpdateRoom(u, v)
      PROVE  TypeOK'
  BY <1>2 DEF TypeOK, UpdateRoom, Live
<1>3. ASSUME TypeOK, NEW u \in Users, DeleteRoom(u)
      PROVE  TypeOK'
  BY <1>3, IdleTyped DEF TypeOK, DeleteRoom, Live, Roles
<1>4. ASSUME TypeOK, NEW u \in Users, Leave(u)
      PROVE  TypeOK'
  BY <1>4 DEF TypeOK, Leave, Roles
<1>5. ASSUME TypeOK, NEW u \in Users, NEW i \in Invitations, Reject(i, u)
      PROVE  TypeOK'
  <2>1. invitation' \in [Invitations -> InvitationRow]
    BY <1>5 DEF TypeOK, Reject, InvitationRow
  <2>. QED  BY <1>5, <2>1 DEF TypeOK, Reject
<1>6. ASSUME TypeOK, NEW u \in Users, NEW t \in Users, Promote(u, t)
      PROVE  TypeOK'
  BY <1>6 DEF TypeOK, Promote, Roles
<1>. QED  BY <1>1, <1>2, <1>3, <1>4, <1>5, <1>6 DEF RoomStep

LEMMA TypeStartStep ==
  ASSUME TypeOK, NEW r \in Requests, StartStep(r)
  PROVE  TypeOK'
<1>1. \A u \in Users : role[u] \in Roles /\ "none" \in Roles
  BY DEF TypeOK, Roles
<1>2. ASSUME NEW u \in Users, JoinStart(r, u) \/ ReadStart(r, u)
      PROVE  TypeOK'
  BY <1>1, <1>2, BeginTyped DEF JoinStart, ReadStart, Stages
<1>3. ASSUME NEW u \in Users, NEW i \in Invitations, AcceptStart(r, i, u)
      PROVE  TypeOK'
  BY <1>1, <1>3, BeginTyped DEF AcceptStart, Stages
<1>4. ASSUME NEW u \in Users, NEW t \in Users,
             \/ InviteStart(r, u, t) \/ DemoteStart(r, u, t)
             \/ BanStart(r, u, t) \/ UnbanStart(r, u, t)
      PROVE  TypeOK'
  BY <1>1, <1>4, BeginTyped
     DEF InviteStart, DemoteStart, BanStart, UnbanStart, Stages
<1>. QED  BY <1>2, <1>3, <1>4 DEF StartStep

LEMMA TypeCommitStep ==
  ASSUME TypeOK, NEW r \in Requests, CommitStep(r)
  PROVE  TypeOK'
<1>1. ASSUME JoinCommit(r) PROVE TypeOK'
  BY <1>1, EndTyped DEF TypeOK, JoinCommit, Refused, database, Roles
<1>2. ASSUME InviteCommit(r) PROVE TypeOK'
  <2>1. invitation' \in [Invitations -> InvitationRow]
    BY <1>2 DEF TypeOK, InviteCommit, End, Refused, database, InvitationRow
  <2>. QED  BY <1>2, <2>1, EndTyped DEF TypeOK, InviteCommit, Refused, database
<1>3. ASSUME AcceptCommit(r) PROVE TypeOK'
  <2>1. invitation' \in [Invitations -> InvitationRow]
    BY <1>3 DEF TypeOK, AcceptCommit, End, InvitationRow
  <2>2. role' \in [Users -> Roles]
    BY <1>3 DEF TypeOK, AcceptCommit, Roles
  <2>. QED  BY <1>3, <2>1, <2>2, EndTyped DEF TypeOK, AcceptCommit
<1>4. ASSUME DemoteCommit(r) PROVE TypeOK'
  BY <1>4, EndTyped DEF TypeOK, DemoteCommit, Refused, database, Roles
<1>5. ASSUME BanCommit(r) PROVE TypeOK'
  BY <1>5, EndTyped DEF TypeOK, BanCommit, Refused, database, Roles
<1>6. ASSUME UnbanCommit(r) PROVE TypeOK'
  BY <1>6, EndTyped DEF TypeOK, UnbanCommit, Refused, database
<1>7. ASSUME ReadCommit(r) PROVE TypeOK'
  BY <1>7, EndTyped DEF TypeOK, ReadCommit, End, Refused, database
<1>. QED  BY <1>1, <1>2, <1>3, <1>4, <1>5, <1>6, <1>7 DEF CommitStep

(* Every reachable state is well typed, and an existing room has an owner. *)
THEOREM TypeCorrect == Spec => []TypeOK
<1>1. TypeOK /\ [Next]_vars => TypeOK'
  <2>1. TypeOK /\ UNCHANGED vars => TypeOK'
    BY DEF TypeOK, vars
  <2>. QED  BY <2>1, TypeRoomStep, TypeStartStep, TypeCommitStep DEF Next
<1>. QED  BY <1>1, TypeInit, PTL DEF Spec

-----------------------------------------------------------------------------
(* Ownership.                                                              *)

(* Before create_room and after delete_room no row refers to the room, and *)
(* no request is accepting an invitation to it.                            *)
NoRoomNoRows ==
  ~Live =>
    /\ \A u \in Users : role[u] = "none" /\ ban[u] = "none"
    /\ \A i \in Invitations : invitation[i] = NoRow
    /\ readers = {}
    /\ \A r \in Requests : req[r].stage # "accepting"

OwnerInv == TypeOK /\ NoRoomNoRows /\ OwnerStanding

LEMMA OwnerRoomStep == OwnerInv /\ RoomStep => NoRoomNoRows' /\ OwnerStanding'
<1>. USE DEF OwnerInv, NoRoomNoRows, OwnerStanding, IsBanned, Live
<1>1. ASSUME OwnerInv, NEW u \in Users, NEW v \in {"public", "private"},
             CreateRoom(u, v)
      PROVE  NoRoomNoRows' /\ OwnerStanding'
  BY <1>1 DEF TypeOK, CreateRoom, Roles
<1>2. ASSUME OwnerInv, NEW u \in Users, NEW v \in {"public", "private"},
             UpdateRoom(u, v)
      PROVE  NoRoomNoRows' /\ OwnerStanding'
  BY <1>2 DEF UpdateRoom
<1>3. ASSUME OwnerInv, NEW u \in Users, DeleteRoom(u)
      PROVE  NoRoomNoRows' /\ OwnerStanding'
  BY <1>3 DEF DeleteRoom, TypeOK, RoomRowLocked
<1>4. ASSUME OwnerInv, NEW u \in Users, Leave(u)
      PROVE  NoRoomNoRows' /\ OwnerStanding'
  BY <1>4 DEF TypeOK, Leave, MayLeave
<1>5. ASSUME OwnerInv, NEW u \in Users, NEW i \in Invitations, Reject(i, u)
      PROVE  NoRoomNoRows' /\ OwnerStanding'
  <2>1. Live
    BY <1>5 DEF Reject, IsPending, NoRow
  <2>. QED  BY <1>5, <2>1 DEF Reject
<1>6. ASSUME OwnerInv, NEW u \in Users, NEW t \in Users, Promote(u, t)
      PROVE  NoRoomNoRows' /\ OwnerStanding'
  BY <1>6 DEF TypeOK, Promote
<1>. QED  BY <1>1, <1>2, <1>3, <1>4, <1>5, <1>6 DEF RoomStep

\* The checks of a request write nothing.
LEMMA StartReadsOnly ==
  ASSUME NEW r \in Requests, StartStep(r)
  PROVE  UNCHANGED database
BY DEF StartStep, JoinStart, ReadStart, AcceptStart, InviteStart, DemoteStart,
       BanStart, UnbanStart, Begin

\* A request that has passed its checks found a room.
LEMMA OwnerStartStep ==
  ASSUME OwnerInv, NEW r \in Requests, StartStep(r)
  PROVE  NoRoomNoRows' /\ OwnerStanding'
<1>1. UNCHANGED database
  BY StartReadsOnly
<1>2. ASSUME ~Live, NEW q \in Requests
      PROVE  req'[q].stage # "accepting"
  <2>. USE DEF OwnerInv, NoRoomNoRows, IsModerator, HasAccess, Live, MayJoin
  <2>1. \A u \in Users : role[u] = "none"
    BY <1>2
  <2>2. \A u \in Users, i \in Invitations : ~AcceptStart(r, i, u)
    BY <1>2 DEF AcceptStart, IsPending, NoRow
  <2>3. \A u, t \in Users :
          /\ ~JoinStart(r, u) /\ ~ReadStart(r, u) /\ ~InviteStart(r, u, t)
          /\ ~DemoteStart(r, u, t) /\ ~BanStart(r, u, t) /\ ~UnbanStart(r, u, t)
    BY <1>2 DEF JoinStart, ReadStart, InviteStart, DemoteStart, BanStart, UnbanStart
  <2>. QED  BY <2>2, <2>3 DEF StartStep
<1>. QED  BY <1>1, <1>2
          DEF OwnerInv, NoRoomNoRows, OwnerStanding, IsBanned, Live, database

LEMMA OwnerCommitStep ==
  ASSUME OwnerInv, NEW r \in Requests, CommitStep(r)
  PROVE  NoRoomNoRows' /\ OwnerStanding'
<1>. USE DEF OwnerInv, NoRoomNoRows, OwnerStanding, IsBanned, Live, Refused, database
<1>0. \A q \in Requests : req'[q] = req[q] \/ req'[q].stage = "idle"
  BY EndTyped DEF CommitStep, JoinCommit, InviteCommit, AcceptCommit,
     DemoteCommit, BanCommit, UnbanCommit, ReadCommit, Idle
<1>1. CASE JoinCommit(r)
  BY <1>0, <1>1 DEF TypeOK, JoinCommit, NewMember, IsMember
<1>2. CASE InviteCommit(r)
  BY <1>0, <1>2 DEF InviteCommit, NotInvited
<1>3. CASE AcceptCommit(r)
  <2>1. req[r].stage = "accepting" /\ req[r].actor \in Users
    BY <1>3 DEF TypeOK, AcceptCommit, End
  <2>2. Live /\ visibility' = visibility
    BY <1>3, <2>1 DEF AcceptCommit
  <2>. QED  BY <1>3, <2>1, <2>2 DEF TypeOK, AcceptCommit
<1>4. CASE DemoteCommit(r)
  BY <1>0, <1>4 DEF TypeOK, DemoteCommit, MayDemote
<1>5. CASE BanCommit(r)
  BY <1>0, <1>5 DEF TypeOK, BanCommit, MayModerate
<1>6. CASE UnbanCommit(r)
  BY <1>0, <1>6 DEF TypeOK, UnbanCommit
<1>7. CASE ReadCommit(r)
  BY <1>0, <1>7 DEF ReadCommit
<1>. QED  BY <1>1, <1>2, <1>3, <1>4, <1>5, <1>6, <1>7 DEF CommitStep

LEMMA OwnerInvariant == Spec => []OwnerInv
<1>1. Init => OwnerInv
  <2>1. Init => NoRoomNoRows
    BY DEF Init, NoRoomNoRows, NoRow, Idle
  <2>. QED  BY <2>1, TypeInit DEF Init, OwnerInv, OwnerStanding, Live
<1>2. OwnerInv /\ [Next]_vars => OwnerInv'
  <2>. SUFFICES ASSUME OwnerInv, [Next]_vars PROVE OwnerInv'
    OBVIOUS
  <2>1. TypeOK'
    BY TypeRoomStep, TypeStartStep, TypeCommitStep DEF Next, OwnerInv, TypeOK, vars
  <2>2. CASE RoomStep
    BY <2>1, <2>2, OwnerRoomStep DEF OwnerInv
  <2>3. ASSUME NEW r \in Requests, StartStep(r) PROVE OwnerInv'
    BY <2>1, <2>3, OwnerStartStep DEF OwnerInv
  <2>4. ASSUME NEW r \in Requests, CommitStep(r) PROVE OwnerInv'
    BY <2>1, <2>4, OwnerCommitStep DEF OwnerInv
  <2>5. CASE UNCHANGED vars
    BY <2>1, <2>5 DEF OwnerInv, NoRoomNoRows, OwnerStanding, IsBanned, Live, vars
  <2>. QED  BY <2>2, <2>3, <2>4, <2>5 DEF Next
<1>. QED  BY <1>1, <1>2, PTL DEF Spec

(* The owner keeps the only owner membership and is never banned, however  *)
(* many moderation requests overlap.                                       *)
THEOREM OwnerStandingHolds == Spec => []OwnerStanding
BY OwnerInvariant, PTL DEF OwnerInv

(* No request that began before delete_room leaves a row of the room.      *)
THEOREM DeletedRoomIsEmpty == Spec => []DeletedRoomLeavesNothing
<1>1. OwnerInv => DeletedRoomLeavesNothing
  BY DEF OwnerInv, NoRoomNoRows, DeletedRoomLeavesNothing, Live
<1>. QED  BY <1>1, OwnerInvariant, PTL

-----------------------------------------------------------------------------
(* What the row locks of accept_room_invitation buy.  Between its check    *)
(* and its commit the invitation stays pending and no ban is placed on the *)
(* accepting user: reject waits for the invitation row, a ban for the room *)
(* row.  At most one acceptance per room is in that window.                *)

AcceptInv ==
  \A r \in Requests : req[r].stage = "accepting" =>
    /\ IsPending(req[r].inv, req[r].actor)
    /\ ~IsBanned(req[r].actor)
    /\ Live
    /\ \A q \in Requests : req[q].stage = "accepting" => q = r

LEMMA AcceptInit == Init => AcceptInv
BY DEF Init, AcceptInv, Idle

LEMMA AcceptRoomStep == OwnerInv /\ AcceptInv /\ RoomStep => AcceptInv'
<1>. USE DEF OwnerInv, AcceptInv, IsPending, IsBanned, RoomRowLocked,
             InvitationLocked, Live
<1>1. ASSUME OwnerInv, AcceptInv, NEW u \in Users, NEW v \in {"public", "private"},
             CreateRoom(u, v) \/ UpdateRoom(u, v)
      PROVE  AcceptInv'
  BY <1>1 DEF CreateRoom, UpdateRoom
<1>2. ASSUME OwnerInv, AcceptInv, NEW u \in Users, DeleteRoom(u)
      PROVE  AcceptInv'
  BY <1>2 DEF DeleteRoom
<1>3. ASSUME OwnerInv, AcceptInv, NEW u \in Users, Leave(u)
      PROVE  AcceptInv'
  BY <1>3 DEF Leave
<1>4. ASSUME OwnerInv, AcceptInv, NEW u \in Users, NEW i \in Invitations, Reject(i, u)
      PROVE  AcceptInv'
  <2>1. \A r \in Requests : req[r].stage = "accepting" =>
          req[r].inv # i /\ req[r].inv \in Invitations
    BY <1>4 DEF Reject, TypeOK
  <2>2. \A j \in Invitations : j # i => invitation'[j] = invitation[j]
    BY <1>4 DEF Reject, TypeOK
  <2>. QED  BY <1>4, <2>1, <2>2 DEF Reject
<1>5. ASSUME OwnerInv, AcceptInv, NEW u \in Users, NEW t \in Users, Promote(u, t)
      PROVE  AcceptInv'
  BY <1>5 DEF Promote
<1>. QED  BY <1>1, <1>2, <1>3, <1>4, <1>5 DEF RoomStep

\* The slot a starting request takes, and what it takes it for.
LEMMA StartSlot ==
  ASSUME TypeOK, NEW r \in Requests, StartStep(r)
  PROVE  /\ req[r].stage = "idle"
         /\ \A q \in Requests : q # r => req'[q] = req[q]
         /\ req'[r].stage = "accepting" =>
              /\ ~RoomRowLocked
              /\ IsPending(req'[r].inv, req'[r].actor)
              /\ ~IsBanned(req'[r].actor)
         /\ req'[r].stage = "joining" =>
              "join" \in Ops /\ ~IsBanned(req'[r].actor)
<1>. USE DEF TypeOK, Begin
<1>1. ASSUME NEW u \in Users, JoinStart(r, u) PROVE req'[r].actor = u /\ req'[r].stage = "joining"
  BY <1>1 DEF JoinStart
<1>2. ASSUME NEW u \in Users, NEW i \in Invitations, AcceptStart(r, i, u)
      PROVE  req'[r].actor = u /\ req'[r].inv = i /\ req'[r].stage = "accepting"
  BY <1>2 DEF AcceptStart
<1>3. ASSUME NEW u \in Users, NEW t \in Users,
             \/ ReadStart(r, u) \/ InviteStart(r, u, t) \/ DemoteStart(r, u, t)
             \/ BanStart(r, u, t) \/ UnbanStart(r, u, t)
      PROVE  req'[r].stage \notin {"joining", "accepting"}
  BY <1>3 DEF ReadStart, InviteStart, DemoteStart, BanStart, UnbanStart
<1>4. req[r].stage = "idle" /\ \A q \in Requests : q # r => req'[q] = req[q]
  BY DEF StartStep, JoinStart, ReadStart, AcceptStart, InviteStart, DemoteStart,
         BanStart, UnbanStart
<1>. QED  BY <1>1, <1>2, <1>3, <1>4 DEF StartStep, JoinStart, AcceptStart, MayJoin

LEMMA AcceptStartStep ==
  ASSUME OwnerInv, AcceptInv, NEW r \in Requests, StartStep(r)
  PROVE  AcceptInv'
<1>1. UNCHANGED database
  BY StartReadsOnly
<1>2. \A i, u : IsPending(i, u)' <=> IsPending(i, u)
  BY <1>1 DEF IsPending, database
<1>3. \A u : IsBanned(u)' <=> IsBanned(u)
  BY <1>1 DEF IsBanned, database
<1>4. req'[r].stage = "accepting" => Live
  BY OwnerStartStep, <1>1 DEF OwnerInv, NoRoomNoRows, database, Live
<1>. QED  BY <1>1, <1>2, <1>3, <1>4, StartSlot
          DEF OwnerInv, AcceptInv, RoomRowLocked, Live, database

\* The slots after a commit: its own is idle, the others are as they were.
LEMMA CommitSlot ==
  ASSUME TypeOK, NEW r \in Requests, CommitStep(r)
  PROVE  /\ req[r].stage # "idle" /\ req'[r] = Idle
         /\ \A q \in Requests : q # r => req'[q] = req[q]
<1>1. \A s : End(r, s) => /\ req[r].stage = s /\ req'[r] = Idle
                         /\ \A q \in Requests : q # r => req'[q] = req[q]
  BY DEF TypeOK, End
<1>. QED  BY <1>1 DEF CommitStep, JoinCommit, InviteCommit, AcceptCommit,
                      DemoteCommit, BanCommit, UnbanCommit, ReadCommit

LEMMA AcceptCommitStep ==
  ASSUME OwnerInv, AcceptInv, NEW r \in Requests, CommitStep(r)
  PROVE  AcceptInv'
<1>. USE DEF OwnerInv, Refused, Live, database
<1>0. Idle.stage = "idle"
  BY DEF Idle
<1>1. CASE AcceptCommit(r)
  BY <1>0, <1>1, CommitSlot DEF AcceptInv, AcceptCommit, End
<1>2. CASE InviteCommit(r)
  <2>1. CASE invitation' = invitation
    BY <1>0, <1>2, <2>1, CommitSlot DEF AcceptInv, InviteCommit, IsPending, IsBanned
  <2>2. CASE ~RoomRowLocked
    BY <1>0, <1>2, <2>2, CommitSlot DEF AcceptInv, RoomRowLocked
  <2>. QED  BY <1>2, <2>1, <2>2 DEF InviteCommit
<1>3. CASE BanCommit(r)
  <2>1. CASE ban' = ban
    BY <1>0, <1>3, <2>1, CommitSlot DEF AcceptInv, BanCommit, IsPending, IsBanned
  <2>2. CASE ~RoomRowLocked
    BY <1>0, <1>3, <2>2, CommitSlot DEF AcceptInv, RoomRowLocked
  <2>. QED  BY <1>3, <2>1, <2>2 DEF BanCommit
<1>4. CASE UnbanCommit(r)
  <2>1. \A u \in Users : IsBanned(u)' => IsBanned(u)
    BY <1>4 DEF TypeOK, UnbanCommit, IsBanned
  <2>. QED  BY <1>0, <1>4, <2>1, CommitSlot DEF TypeOK, AcceptInv, UnbanCommit, IsPending
<1>5. CASE JoinCommit(r)
  BY <1>0, <1>5, CommitSlot DEF AcceptInv, JoinCommit, IsPending, IsBanned
<1>6. CASE DemoteCommit(r)
  BY <1>0, <1>6, CommitSlot DEF AcceptInv, DemoteCommit, IsPending, IsBanned
<1>7. CASE ReadCommit(r)
  BY <1>0, <1>7, CommitSlot DEF AcceptInv, ReadCommit, IsPending, IsBanned
<1>. QED  BY <1>1, <1>2, <1>3, <1>4, <1>5, <1>6, <1>7 DEF CommitStep

LEMMA AcceptInvariant == Spec => []AcceptInv
<1>1. OwnerInv /\ AcceptInv /\ [Next]_vars => AcceptInv'
  <2>1. AcceptInv /\ UNCHANGED vars => AcceptInv'
    BY DEF AcceptInv, IsPending, IsBanned, Live, vars
  <2>. QED  BY <2>1, AcceptRoomStep, AcceptStartStep, AcceptCommitStep DEF Next
<1>. QED  BY <1>1, AcceptInit, OwnerInvariant, PTL DEF Spec

(* The first of two racing answers to an invitation decides it for good.   *)
THEOREM AnswersAreFinal == Spec => InvitationsAreFinal
<1>1. OwnerInv /\ AcceptInv /\ Next =>
        \A i \in Invitations :
          invitation[i].status \in {"accepted", "rejected"} /\ Live'
            => invitation'[i] = invitation[i]
  <2>. SUFFICES ASSUME OwnerInv, AcceptInv, Next, NEW i \in Invitations,
                       invitation[i].status \in {"accepted", "rejected"}, Live'
                PROVE  invitation'[i] = invitation[i]
    OBVIOUS
  <2>. USE DEF OwnerInv, TypeOK
  <2>1. CASE RoomStep
    BY <2>1 DEF RoomStep, CreateRoom, UpdateRoom, DeleteRoom, Leave, Reject, Promote,
                IsPending, Live
  <2>2. ASSUME NEW r \in Requests, StartStep(r) PROVE invitation'[i] = invitation[i]
    BY <2>2, StartReadsOnly DEF database
  <2>3. ASSUME NEW r \in Requests, CommitStep(r) PROVE invitation'[i] = invitation[i]
    <3>1. CASE AcceptCommit(r)
      BY <2>3, <3>1 DEF AcceptInv, AcceptCommit, End, IsPending
    <3>2. CASE InviteCommit(r)
      BY <2>3, <3>2 DEF InviteCommit, NoRow, Refused, database
    <3>. QED  BY <2>3, <3>1, <3>2
         DEF CommitStep, JoinCommit, DemoteCommit, BanCommit, UnbanCommit,
             ReadCommit, Refused, database
  <2>. QED  BY <2>1, <2>2, <2>3 DEF Next
<1>2. OwnerInv /\ AcceptInv /\ [Next]_vars =>
        [\A i \in Invitations :
           invitation[i].status \in {"accepted", "rejected"} /\ Live'
             => invitation'[i] = invitation[i]]_vars
  BY <1>1
<1>. QED  BY <1>2, OwnerInvariant, AcceptInvariant, PTL DEF Spec, InvitationsAreFinal

(* However many moderators invite a user at once, one invitation is        *)
(* pending.                                                                *)
THEOREM OnePendingInvitationHolds == Spec => []OnePendingInvitation
<1>1. Init => OnePendingInvitation
  BY DEF Init, OnePendingInvitation, IsPending, NoRow
<1>2. TypeOK /\ OnePendingInvitation /\ [Next]_vars => OnePendingInvitation'
  <2>. SUFFICES ASSUME TypeOK, OnePendingInvitation, [Next]_vars
                PROVE  OnePendingInvitation'
    OBVIOUS
  <2>. USE DEF TypeOK, OnePendingInvitation, IsPending
  <2>1. CASE invitation' = invitation
    BY <2>1
  <2>2. CASE \E u \in Users : DeleteRoom(u) \/ \E i \in Invitations : Reject(i, u)
    BY <2>2 DEF DeleteRoom, Reject, NoRow, InvitationRow
  <2>3. ASSUME NEW r \in Requests, AcceptCommit(r) PROVE OnePendingInvitation'
    BY <2>3 DEF AcceptCommit, InvitationRow
  <2>4. ASSUME NEW r \in Requests, InviteCommit(r) PROVE OnePendingInvitation'
    BY <2>4 DEF InviteCommit, NotInvited, Refused, database
  <2>5. ASSUME NEW r \in Requests, StartStep(r) PROVE invitation' = invitation
    BY <2>5, StartReadsOnly DEF database
  <2>. QED
    BY <2>1, <2>2, <2>3, <2>4, <2>5
       DEF Next, RoomStep, CreateRoom, UpdateRoom, Leave, Promote, CommitStep,
           JoinCommit, DemoteCommit, BanCommit, UnbanCommit, ReadCommit, Refused,
           database, vars
<1>. QED  BY <1>1, <1>2, TypeCorrect, PTL DEF Spec

-----------------------------------------------------------------------------
(* Bans exclude membership when no join overlaps another request: in a     *)
(* room nobody can join directly, or with one request slot.  The general   *)
(* case is false: see the run RoomJoinRace.                                *)

JoinsDoNotOverlap == "join" \notin Ops \/ \A r, q \in Requests : r = q

JoinInv ==
  \A r \in Requests : req[r].stage = "joining" =>
    "join" \in Ops /\ ~IsBanned(req[r].actor)

ExclusionInv == BannedNotMember /\ JoinInv

LEMMA ExclusionRoomStep ==
  OwnerInv /\ ExclusionInv /\ RoomStep => ExclusionInv'
<1>. USE DEF OwnerInv, TypeOK, ExclusionInv, BannedNotMember, JoinInv, IsBanned, IsMember
<1>1. ASSUME OwnerInv, ExclusionInv, NEW u \in Users, NEW v \in {"public", "private"},
             CreateRoom(u, v) \/ UpdateRoom(u, v)
      PROVE  ExclusionInv'
  BY <1>1 DEF CreateRoom, UpdateRoom, NoRoomNoRows, Live
<1>2. ASSUME OwnerInv, ExclusionInv, NEW u \in Users, DeleteRoom(u) \/ Leave(u)
      PROVE  ExclusionInv'
  BY <1>2 DEF DeleteRoom, Leave
<1>3. ASSUME OwnerInv, ExclusionInv, NEW u \in Users, NEW i \in Invitations, Reject(i, u)
      PROVE  ExclusionInv'
  BY <1>3 DEF Reject
<1>4. ASSUME OwnerInv, ExclusionInv, NEW u \in Users, NEW t \in Users, Promote(u, t)
      PROVE  ExclusionInv'
  BY <1>4 DEF Promote
<1>. QED  BY <1>1, <1>2, <1>3, <1>4 DEF RoomStep

LEMMA ExclusionStartStep ==
  ASSUME OwnerInv, ExclusionInv, NEW r \in Requests, StartStep(r)
  PROVE  ExclusionInv'
<1>1. UNCHANGED database
  BY StartReadsOnly
<1>. QED  BY <1>1, StartSlot
          DEF OwnerInv, ExclusionInv, BannedNotMember, JoinInv, IsBanned, IsMember,
              database

LEMMA ExclusionCommitStep ==
  ASSUME JoinsDoNotOverlap, OwnerInv, AcceptInv, ExclusionInv,
         NEW r \in Requests, CommitStep(r)
  PROVE  ExclusionInv'
<1>. USE DEF OwnerInv, ExclusionInv, BannedNotMember, JoinInv, IsBanned, IsMember,
             Refused, database
<1>0. Idle.stage = "idle"
  BY DEF Idle
<1>1. CASE JoinCommit(r)
  BY <1>0, <1>1, CommitSlot DEF TypeOK, JoinCommit, NewMember, End
<1>2. CASE AcceptCommit(r)
  <2>1. ~IsBanned(req[r].actor)
    BY <1>2 DEF AcceptInv, AcceptCommit, End
  <2>. QED  BY <1>0, <1>2, <2>1, CommitSlot DEF TypeOK, AcceptCommit
<1>3. CASE BanCommit(r)
  <2>1. \A q \in Requests : req'[q].stage # "joining"
    BY <1>0, <1>3, CommitSlot DEF JoinsDoNotOverlap, BanCommit
  <2>2. BannedNotMember'
    BY <1>3 DEF TypeOK, BanCommit
  <2>. QED  BY <2>1, <2>2
<1>4. CASE UnbanCommit(r)
  BY <1>0, <1>4, CommitSlot DEF TypeOK, UnbanCommit
<1>5. CASE DemoteCommit(r)
  BY <1>0, <1>5, CommitSlot DEF TypeOK, DemoteCommit, MayDemote
<1>6. CASE InviteCommit(r) \/ ReadCommit(r)
  BY <1>0, <1>6, CommitSlot DEF InviteCommit, ReadCommit
<1>. QED  BY <1>1, <1>2, <1>3, <1>4, <1>5, <1>6 DEF CommitStep

LEMMA ExclusionInvariant ==
  ASSUME JoinsDoNotOverlap
  PROVE  Spec => []ExclusionInv
<1>1. Init => ExclusionInv
  BY DEF Init, ExclusionInv, BannedNotMember, JoinInv, IsBanned, Idle
<1>2. OwnerInv /\ AcceptInv /\ ExclusionInv /\ [Next]_vars => ExclusionInv'
  <2>1. ExclusionInv /\ UNCHANGED vars => ExclusionInv'
    BY DEF ExclusionInv, BannedNotMember, JoinInv, IsBanned, IsMember, vars
  <2>. QED  BY <2>1, ExclusionRoomStep, ExclusionStartStep, ExclusionCommitStep DEF Next
<1>. QED  BY <1>1, <1>2, OwnerInvariant, AcceptInvariant, PTL DEF Spec

(* A ban keeps its user out for as long as joins do not overlap, however   *)
(* many invitations, bans and role changes race (docs/SCHEMA.md 15.11).    *)
THEOREM BanExcludesMembership ==
  ASSUME JoinsDoNotOverlap
  PROVE  Spec => []BannedNotMember
BY ExclusionInvariant, PTL DEF ExclusionInv

-----------------------------------------------------------------------------
(* The refinement: every step of the requests is one whole step of the     *)
(* abstract room, or changes nobody's standing.                            *)

LEMMA AccessInit == Init => Access!Init
BY DEF Init, Access!Init, Phase, Standing, IsBanned, IsMember

\* Standing after a change of one user's rows.
LEMMA OneStanding ==
  ASSUME NEW u \in Users, NEW to,
         \A x \in Users : x # u => role'[x] = role[x] /\ ban'[x] = ban[x],
         Standing'[u] = to
  PROVE  Standing' = [Standing EXCEPT ![u] = to]
BY DEF Standing, IsBanned, IsMember

\* Nobody's rows change: the abstract room stutters.
LEMMA AccessStutter ==
  ASSUME UNCHANGED <<visibility, owner, role, ban>>
  PROVE  UNCHANGED Access!vars
BY DEF Access!vars, Phase, Standing, IsBanned, IsMember

LEMMA AccessRoomStep ==
  ASSUME OwnerInv, BannedNotMember, RoomStep
  PROVE  [Access!Next]_(Access!vars)
<1>. USE DEF OwnerInv, TypeOK, BannedNotMember
<1>1. ASSUME NEW u \in Users, NEW v \in {"public", "private"}, CreateRoom(u, v)
      PROVE  Access!Found(u)
  <2>1. \A x \in Users : x # u => role'[x] = role[x] /\ ban'[x] = ban[x]
    BY <1>1 DEF CreateRoom
  <2>2. Standing'[u] = "member"
    BY <1>1 DEF CreateRoom, NoRoomNoRows, Live, Standing, IsBanned, IsMember
  <2>3. Standing' = [Standing EXCEPT ![u] = "member"]
    BY <2>1, <2>2, OneStanding
  <2>. QED  BY <1>1, <2>3 DEF CreateRoom, Access!Found, Phase
<1>2. ASSUME NEW u \in Users, NEW v \in {"public", "private"}, UpdateRoom(u, v)
      PROVE  UNCHANGED Access!vars
  BY <1>2 DEF UpdateRoom, Live, Access!vars, Phase, Standing, IsBanned, IsMember
<1>3. ASSUME NEW u \in Users, DeleteRoom(u)
      PROVE  Access!Close
  BY <1>3 DEF DeleteRoom, Live, Access!Close, Phase, Standing, IsBanned, IsMember
<1>4. ASSUME NEW u \in Users, Leave(u)
      PROVE  Access!Depart(u)
  <2>1. \A x \in Users : x # u => role'[x] = role[x] /\ ban'[x] = ban[x]
    BY <1>4 DEF Leave
  <2>2. Standing[u] = "member" /\ Standing'[u] = "outsider"
    BY <1>4 DEF Leave, MayLeave, Standing, IsBanned, IsMember
  <2>3. Standing' = [Standing EXCEPT ![u] = "outsider"]
    BY <2>1, <2>2, OneStanding
  <2>. QED  BY <1>4, <2>2, <2>3
            DEF Leave, MayLeave, Live, Access!Depart, Access!Move, Phase
<1>5. ASSUME NEW u \in Users, NEW i \in Invitations, Reject(i, u)
      PROVE  UNCHANGED Access!vars
  BY <1>5, AccessStutter DEF Reject
<1>6. ASSUME NEW u \in Users, NEW t \in Users, Promote(u, t)
      PROVE  UNCHANGED Access!vars
  BY <1>6 DEF Promote, Access!vars, Phase, Standing, IsBanned, IsMember
<1>. QED  BY <1>1, <1>2, <1>3, <1>4, <1>5, <1>6 DEF RoomStep, Access!Next

LEMMA AccessCommitStep ==
  ASSUME OwnerInv, AcceptInv, BannedNotMember, BannedNotMember',
         NEW r \in Requests, CommitStep(r)
  PROVE  [Access!Next]_(Access!vars)
<1>. USE DEF OwnerInv, TypeOK, BannedNotMember, Refused, database
<1>0. req[r].stage # "idle" => req[r].actor \in Users /\ req[r].target \in Users
  OBVIOUS
<1>1. ASSUME JoinCommit(r) PROVE [Access!Next]_(Access!vars)
  <2>. DEFINE u == req[r].actor
  <2>1. CASE NewMember(u) /\ role' = [role EXCEPT ![u] = "member"]
    <3>1. u \in Users /\ UNCHANGED <<visibility, owner, ban>>
      BY <1>1, <2>1, <1>0 DEF JoinCommit, End
    <3>2. Standing[u] = "outsider" /\ Standing'[u] = "member"
      BY <2>1, <3>1 DEF NewMember, Standing, IsBanned, IsMember
    <3>3. Standing' = [Standing EXCEPT ![u] = "member"]
      BY <2>1, <3>1, <3>2, OneStanding
    <3>4. Access!Admit(u)
      BY <2>1, <3>1, <3>2, <3>3
         DEF NewMember, Live, Access!Admit, Access!Move, Phase
    <3>. QED  BY <3>1, <3>4 DEF Access!Next
  <2>. QED  BY <1>1, <2>1, AccessStutter DEF JoinCommit
<1>2. ASSUME AcceptCommit(r) PROVE [Access!Next]_(Access!vars)
  <2>. DEFINE u == req[r].actor
  <2>1. u \in Users /\ ~IsBanned(u) /\ UNCHANGED <<visibility, owner, ban>>
    BY <1>0, <1>2 DEF AcceptInv, AcceptCommit, End
  <2>2. \A x \in Users : x # u => role'[x] = role[x] /\ ban'[x] = ban[x]
    BY <1>2, <2>1 DEF AcceptCommit
  <2>3. CASE role[u] # "none"
    <3>1. role' = role
      BY <1>2, <2>1, <2>3 DEF AcceptCommit
    <3>. QED  BY <2>1, <3>1, AccessStutter
  <2>4. CASE role[u] = "none"
    <3>1. Standing[u] = "outsider" /\ Standing'[u] = "member"
      BY <1>2, <2>1, <2>4 DEF AcceptCommit, Standing, IsBanned, IsMember
    <3>2. Standing' = [Standing EXCEPT ![u] = "member"]
      BY <2>1, <2>2, <3>1, OneStanding
    <3>3. Phase = "open"
      BY <1>2 DEF AcceptInv, AcceptCommit, End, Live, Phase
    <3>4. Access!Admit(u)
      BY <2>1, <3>1, <3>2, <3>3 DEF Access!Admit, Access!Move, Phase
    <3>. QED  BY <2>1, <3>4 DEF Access!Next
  <2>. QED  BY <2>3, <2>4
<1>3. ASSUME BanCommit(r) PROVE [Access!Next]_(Access!vars)
  <2>. DEFINE t == req[r].target
  <2>1. CASE /\ MayModerate(req[r].seen, t) /\ ~IsBanned(t)
             /\ role' = [role EXCEPT ![t] = "none"]
             /\ ban' = [ban EXCEPT ![t] = "active"]
             /\ UNCHANGED <<visibility, owner>>
    <3>1. t \in Users
      BY <1>0, <1>3 DEF BanCommit, End
    <3>2. Standing[t] = "member" /\ Standing'[t] = "banned" /\ t # owner
      BY <2>1, <3>1 DEF MayModerate, Live, OwnerStanding, Standing, IsBanned, IsMember
    <3>3. Standing' = [Standing EXCEPT ![t] = "banned"]
      BY <2>1, <3>1, <3>2, OneStanding
    <3>4. Access!Exclude(t)
      BY <2>1, <3>2, <3>3 DEF MayModerate, Live, Access!Exclude, Access!Move, Phase
    <3>. QED  BY <3>1, <3>4 DEF Access!Next
  <2>. QED  BY <1>3, <2>1, AccessStutter DEF BanCommit
<1>4. ASSUME UnbanCommit(r) PROVE [Access!Next]_(Access!vars)
  <2>. DEFINE t == req[r].target
  <2>1. CASE /\ Live /\ IsBanned(t)
             /\ ban' = [ban EXCEPT ![t] = "removed"]
             /\ UNCHANGED <<visibility, owner, role>>
    <3>1. t \in Users
      BY <1>0, <1>4 DEF UnbanCommit, End
    <3>2. Standing[t] = "banned" /\ Standing'[t] = "outsider"
      BY <2>1, <3>1 DEF Standing, IsBanned, IsMember
    <3>3. Standing' = [Standing EXCEPT ![t] = "outsider"]
      BY <2>1, <3>1, <3>2, OneStanding
    <3>4. Access!Readmit(t)
      BY <2>1, <3>2, <3>3 DEF Live, Access!Readmit, Access!Move, Phase
    <3>. QED  BY <3>1, <3>4 DEF Access!Next
  <2>. QED  BY <1>4, <2>1, AccessStutter DEF UnbanCommit
<1>5. ASSUME DemoteCommit(r) PROVE [Access!Next]_(Access!vars)
  <2>. DEFINE t == req[r].target
  <2>1. CASE /\ MayDemote(req[r].actor, req[r].seen, t)
             /\ role' = [role EXCEPT ![t] = "member"]
             /\ UNCHANGED <<visibility, owner, ban>>
    BY <2>1 DEF MayDemote, Access!vars, Phase, Standing, IsBanned, IsMember
  <2>. QED  BY <1>5, <2>1, AccessStutter DEF DemoteCommit
<1>6. ASSUME InviteCommit(r) \/ ReadCommit(r) PROVE [Access!Next]_(Access!vars)
  BY <1>6, AccessStutter DEF InviteCommit, ReadCommit
<1>. QED  BY <1>1, <1>2, <1>3, <1>4, <1>5, <1>6 DEF CommitStep

(* While joins do not overlap other requests, the requests implement the   *)
(* abstract room of RoomAccess.                                            *)
THEOREM RequestsImplementAccess ==
  ASSUME JoinsDoNotOverlap
  PROVE  Spec => ImplementsAccess
<1>1. /\ OwnerInv /\ AcceptInv /\ BannedNotMember /\ BannedNotMember'
      /\ [Next]_vars
      => [Access!Next]_(Access!vars)
  <2>. SUFFICES ASSUME OwnerInv, AcceptInv, BannedNotMember, BannedNotMember',
                       [Next]_vars
                PROVE  [Access!Next]_(Access!vars)
    OBVIOUS
  <2>1. CASE RoomStep
    BY <2>1, AccessRoomStep
  <2>2. ASSUME NEW r \in Requests, StartStep(r) PROVE [Access!Next]_(Access!vars)
    BY <2>2, StartReadsOnly, AccessStutter DEF database
  <2>3. ASSUME NEW r \in Requests, CommitStep(r) PROVE [Access!Next]_(Access!vars)
    BY <2>3, AccessCommitStep
  <2>4. CASE UNCHANGED vars
    BY <2>4, AccessStutter DEF vars
  <2>. QED  BY <2>1, <2>2, <2>3, <2>4 DEF Next
<1>. QED  BY <1>1, AccessInit, OwnerInvariant, AcceptInvariant, BanExcludesMembership, PTL
          DEF Spec, ImplementsAccess, Access!Spec

-----------------------------------------------------------------------------
(* Admissions and the admin hierarchy, as properties of every step.        *)

(* Nobody becomes a member but the founder, a joiner, or a user whose own  *)
(* pending invitation is accepted in the same commit, unbanned.            *)
THEOREM AdmissionsAreJustified == Spec => AdmissionIsJustified
<1>1. OwnerInv /\ AcceptInv /\ Next =>
        \A u \in Users : ~IsMember(u) /\ IsMember(u)' =>
          \/ visibility = "absent" /\ owner' = u
          \/ \E r \in Requests : req[r].stage = "joining" /\ req[r].actor = u
                                 /\ req'[r] = Idle
          \/ /\ ~IsBanned(u)
             /\ \E i \in Invitations :
                  IsPending(i, u) /\ invitation'[i].status = "accepted"
  <2>. SUFFICES ASSUME OwnerInv, AcceptInv, Next, NEW u \in Users,
                       role[u] = "none", role'[u] # "none"
                PROVE  \/ visibility = "absent" /\ owner' = u
                       \/ \E r \in Requests : /\ req[r].stage = "joining"
                                              /\ req[r].actor = u
                                              /\ req'[r] = Idle
                       \/ /\ ~IsBanned(u)
                          /\ \E i \in Invitations :
                               IsPending(i, u) /\ invitation'[i].status = "accepted"
    BY DEF IsMember
  <2>. USE DEF OwnerInv, TypeOK
  <2>1. CASE RoomStep
    <3>1. \E v \in {"public", "private"} : CreateRoom(u, v)
      BY <2>1 DEF RoomStep, CreateRoom, UpdateRoom, DeleteRoom, Leave, Reject, Promote
    <3>. QED  BY <3>1 DEF CreateRoom
  <2>2. ASSUME NEW r \in Requests, StartStep(r) PROVE FALSE
    BY <2>2, StartReadsOnly DEF database
  <2>3. ASSUME NEW r \in Requests, CommitStep(r)
        PROVE  \/ req[r].stage = "joining" /\ req[r].actor = u /\ req'[r] = Idle
               \/ /\ ~IsBanned(u)
                  /\ \E i \in Invitations :
                       IsPending(i, u) /\ invitation'[i].status = "accepted"
    <3>. USE DEF Refused, database
    <3>1. CASE JoinCommit(r)
      BY <3>1 DEF JoinCommit, End
    <3>2. CASE AcceptCommit(r)
      <4>1. req[r].stage = "accepting" /\ req[r].actor = u
        BY <3>2 DEF AcceptCommit, End
      <4>2. invitation'[req[r].inv].status = "accepted"
        BY <3>2, <4>1 DEF AcceptCommit, InvitationRow
      <4>. QED  BY <4>1, <4>2 DEF AcceptInv
    <3>3. CASE DemoteCommit(r)
      BY <3>3 DEF DemoteCommit, MayDemote
    <3>. QED  BY <2>3, <3>1, <3>2, <3>3
              DEF CommitStep, InviteCommit, BanCommit, UnbanCommit, ReadCommit
  <2>. QED  BY <2>1, <2>2, <2>3 DEF Next
<1>2. OwnerInv /\ AcceptInv /\ [Next]_vars =>
        [\A u \in Users : ~IsMember(u) /\ IsMember(u)' =>
           \/ visibility = "absent" /\ owner' = u
           \/ \E r \in Requests : req[r].stage = "joining" /\ req[r].actor = u
                                  /\ req'[r] = Idle
           \/ /\ ~IsBanned(u)
              /\ \E i \in Invitations :
                   IsPending(i, u) /\ invitation'[i].status = "accepted"]_vars
  BY <1>1
<1>. QED  BY <1>2, OwnerInvariant, AcceptInvariant, PTL DEF Spec, AdmissionIsJustified

(* The role a moderator acts with is a role it held, and only the owner    *)
(* holds "owner": a request that saw it was sent by the owner.             *)
SeenInv ==
  \A r \in Requests : req[r].stage = "banning" =>
    /\ req[r].seen \in {"admin", "owner"}
    /\ req[r].seen = "owner" => req[r].actor = owner /\ visibility # "absent"

LEMMA SeenInvariant == Spec => []SeenInv
<1>1. Init => SeenInv
  BY DEF Init, SeenInv, Idle
<1>2. OwnerInv /\ SeenInv /\ [Next]_vars => SeenInv'
  <2>. SUFFICES ASSUME OwnerInv, SeenInv, [Next]_vars PROVE SeenInv'
    OBVIOUS
  <2>. USE DEF OwnerInv, TypeOK, SeenInv
  <2>1. CASE RoomStep
    BY <2>1 DEF RoomStep, CreateRoom, UpdateRoom, DeleteRoom, Leave, Reject, Promote
  <2>2. ASSUME NEW r \in Requests, StartStep(r) PROVE SeenInv'
    <3>1. UNCHANGED database
      BY <2>2, StartReadsOnly
    <3>2. ASSUME NEW u \in Users, NEW t \in Users, BanStart(r, u, t) PROVE SeenInv'
      BY <3>1, <3>2, <2>2, StartSlot
         DEF BanStart, Begin, IsModerator, OwnerStanding, Live, database
    <3>3. ASSUME ~\E u, t \in Users : BanStart(r, u, t) PROVE SeenInv'
      <4>1. req'[r].stage # "banning"
        BY <2>2, <3>3 DEF StartStep, JoinStart, ReadStart, AcceptStart, InviteStart,
                          DemoteStart, UnbanStart, Begin
      <4>. QED  BY <2>2, <3>1, <4>1, StartSlot DEF database
    <3>. QED  BY <3>2, <3>3
  <2>3. ASSUME NEW r \in Requests, CommitStep(r) PROVE SeenInv'
    <3>1. owner' = owner /\ visibility' = visibility
      BY <2>3 DEF CommitStep, JoinCommit, InviteCommit, AcceptCommit, DemoteCommit,
                  BanCommit, UnbanCommit, ReadCommit, Refused, database
    <3>. QED  BY <2>3, <3>1, CommitSlot DEF Idle
  <2>4. CASE UNCHANGED vars
    BY <2>4 DEF vars
  <2>. QED  BY <2>1, <2>2, <2>3, <2>4 DEF Next
<1>. QED  BY <1>1, <1>2, OwnerInvariant, PTL DEF Spec

(* An admin is banned or removed by nobody but the owner, whatever         *)
(* promotions and demotions happen between a ban's check and its write.    *)
THEOREM AdminsAnswerToOwnerHolds == Spec => AdminsAnswerToOwner
<1>1. OwnerInv /\ SeenInv /\ Next =>
        \A u \in Users : role[u] = "admin" /\ ~IsBanned(u) /\ IsBanned(u)' =>
          \E r \in Requests : /\ req[r].stage = "banning"
                              /\ req[r].actor = owner
                              /\ req'[r] = Idle
  <2>. SUFFICES ASSUME OwnerInv, SeenInv, Next, NEW u \in Users,
                       role[u] = "admin", ban[u] # "active", ban'[u] = "active"
                PROVE  \E r \in Requests : /\ req[r].stage = "banning"
                                           /\ req[r].actor = owner
                                           /\ req'[r] = Idle
    BY DEF IsBanned
  <2>. USE DEF OwnerInv, TypeOK
  <2>1. CASE RoomStep
    BY <2>1 DEF RoomStep, CreateRoom, UpdateRoom, DeleteRoom, Leave, Reject, Promote
  <2>2. ASSUME NEW r \in Requests, StartStep(r) PROVE FALSE
    BY <2>2, StartReadsOnly DEF database
  <2>3. ASSUME NEW r \in Requests, CommitStep(r)
        PROVE  req[r].stage = "banning" /\ req[r].actor = owner /\ req'[r] = Idle
    <3>1. BanCommit(r)
      BY <2>3 DEF CommitStep, JoinCommit, InviteCommit, AcceptCommit, DemoteCommit,
                  UnbanCommit, ReadCommit, Refused, database
    <3>2. MayModerate(req[r].seen, u)
      BY <3>1 DEF BanCommit, Refused, database
    <3>. QED  BY <3>1, <3>2 DEF BanCommit, End, MayModerate, SeenInv
  <2>. QED  BY <2>1, <2>2, <2>3 DEF Next
<1>2. OwnerInv /\ SeenInv /\ [Next]_vars =>
        [\A u \in Users : role[u] = "admin" /\ ~IsBanned(u) /\ IsBanned(u)' =>
           \E r \in Requests : /\ req[r].stage = "banning"
                               /\ req[r].actor = owner
                               /\ req'[r] = Idle]_vars
  BY <1>1
<1>. QED  BY <1>2, OwnerInvariant, SeenInvariant, PTL DEF Spec, AdminsAnswerToOwner
=============================================================================
