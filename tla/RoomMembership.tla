--------------------------- MODULE RoomMembership ---------------------------
(***************************************************************************)
(* The membership side of one chat room: backend/apps/chat/services.py     *)
(* under the concurrency of the running server.  Every REST request is     *)
(* served by its own thread inside transaction.atomic, at PostgreSQL's     *)
(* default isolation level READ COMMITTED: a request reads, decides on     *)
(* what it read, and writes later, while other requests commit in          *)
(* between.  What keeps two requests apart is a row lock                   *)
(* (select_for_update), a unique constraint, or nothing.                   *)
(*                                                                         *)
(* A request is two actions where a decision outlives the statement that   *)
(* justified it (XStart: the checks; XCommit: the writes, which other      *)
(* requests see at commit).  A request whose check reads a row that never  *)
(* changes, or a row it has locked, is one action.                         *)
(***************************************************************************)
EXTENDS FiniteSets

CONSTANTS
  Users,         \* rows of accounts.User
  NoUser,        \* SQL NULL for a user
  Requests,      \* request slots: how many requests are in flight at once
  Invitations,   \* primary keys available to RoomInvitation rows
  NoInvitation,  \* SQL NULL for an invitation
  Ops            \* the kinds of request the clients send

AllOps == {"create", "update", "delete", "join", "leave", "invite", "accept",
           "reject", "promote", "demote", "ban", "unban", "read"}

ASSUME NullAssumption == NoUser \notin Users /\ NoInvitation \notin Invitations
ASSUME OpsAssumption == Ops \subseteq AllOps

VARIABLES
  visibility,    \* the Room row: "absent", "public", "private" or "deleted"
  owner,         \* Room.owner_user
  role,          \* RoomMembership row of each user ("none": no row)
  ban,           \* RoomBan row of each user ("removed": removed_at is set)
  invitation,    \* RoomInvitation rows
  readers,       \* users with a RoomReadState row
  req            \* the requests in flight, between their checks and their writes

database == <<visibility, owner, role, ban, invitation, readers>>
vars == <<visibility, owner, role, ban, invitation, readers, req>>

Roles == {"none", "member", "admin", "owner"}
Stages == {"idle", "joining", "accepting", "inviting", "demoting", "banning",
           "unbanning", "reading"}

NoRow == [user |-> NoUser, status |-> "none"]
Idle == [stage |-> "idle", actor |-> NoUser, target |-> NoUser,
         seen |-> "none", inv |-> NoInvitation]

InvitationRow == [user : Users \union {NoUser},
                  status : {"none", "pending", "accepted", "rejected"}]
Request == [stage : Stages, actor : Users \union {NoUser},
            target : Users \union {NoUser}, seen : Roles,
            inv : Invitations \union {NoInvitation}]

TypeOK ==
  /\ visibility \in {"absent", "public", "private", "deleted"}
  /\ owner \in Users \union {NoUser}
  /\ visibility # "absent" => owner \in Users
  /\ role \in [Users -> Roles]
  /\ ban \in [Users -> {"none", "active", "removed"}]
  /\ invitation \in [Invitations -> InvitationRow]
  /\ readers \subseteq Users
  /\ req \in [Requests -> Request]
  /\ \A r \in Requests :
       req[r].stage # "idle" => req[r].actor \in Users /\ req[r].target \in Users
  /\ \A r \in Requests :
       req[r].stage = "accepting" => req[r].inv \in Invitations

Init ==
  /\ visibility = "absent"
  /\ owner = NoUser
  /\ role = [u \in Users |-> "none"]
  /\ ban = [u \in Users |-> "none"]
  /\ invitation = [i \in Invitations |-> NoRow]
  /\ readers = {}
  /\ req = [r \in Requests |-> Idle]

-----------------------------------------------------------------------------
(* What the requests read.                                                 *)

Live == visibility \in {"public", "private"}
IsMember(u) == role[u] # "none"
IsBanned(u) == ban[u] = "active"
IsModerator(u) == role[u] \in {"admin", "owner"}
IsPending(i, u) == invitation[i].user = u /\ invitation[i].status = "pending"

\* require_room_message_access: a member without an active ban.
HasAccess(u) == Live /\ IsMember(u) /\ ~IsBanned(u)

(* accept_room_invitation locks the invitation row FOR UPDATE, and with it *)
(* (select_related without "of") the room and both users.  The COMMIT of a *)
(* row referencing the room, a ModerationEvent included, checks its        *)
(* deferred foreign key and waits; so does an UPDATE of the room row.      *)
\* Variant: the invitation is read without select_for_update.
NoInvitationLock(i) == FALSE

InvitationLocked(i) ==
  \E r \in Requests : req[r].stage = "accepting" /\ req[r].inv = i

\* Variant: select_for_update(of=("self",)) leaves the room row unlocked.
NoRoomRowLock == FALSE

RoomRowLocked == \E r \in Requests : req[r].stage = "accepting"

Begin(r, stage, actor, target, seen, inv) ==
  /\ req[r].stage = "idle"
  /\ req' = [req EXCEPT ![r] =
       [stage |-> stage, actor |-> actor, target |-> target,
        seen |-> seen, inv |-> inv]]
  /\ UNCHANGED database

\* The request of stage s in slot r ends, with or without its writes.
End(r, s) ==
  /\ req[r].stage = s
  /\ req' = [req EXCEPT ![r] = Idle]

\* A raised Domain*Error or DoesNotExist rolls the transaction back.
Refused(applies) == ~applies /\ UNCHANGED database

-----------------------------------------------------------------------------
(* The room itself: create_room, update_room, delete_room.                 *)

\* Variant: the Room row is saved before its owner is set.
CreateRoomOwnerless(u, v) ==
  /\ "create" \in Ops
  /\ visibility = "absent"
  /\ visibility' = v
  /\ role' = [role EXCEPT ![u] = "owner"]
  /\ UNCHANGED <<owner, ban, invitation, readers, req>>

CreateRoom(u, v) ==
  /\ "create" \in Ops
  /\ visibility = "absent"
  /\ visibility' = v
  /\ owner' = u
  /\ role' = [role EXCEPT ![u] = "owner"]
  /\ UNCHANGED <<ban, invitation, readers, req>>

UpdateRoom(u, v) ==
  /\ "update" \in Ops
  /\ Live /\ ~RoomRowLocked
  /\ u = owner
  /\ visibility' = v
  /\ UNCHANGED <<owner, role, ban, invitation, readers, req>>

\* room.delete() cascades to memberships, bans, invitations and read states.
DeleteRoom(u) ==
  /\ "delete" \in Ops
  /\ Live /\ ~RoomRowLocked
  /\ u = owner
  /\ visibility' = "deleted"
  /\ role' = [x \in Users |-> "none"]
  /\ ban' = [x \in Users |-> "none"]
  /\ invitation' = [i \in Invitations |-> NoRow]
  /\ readers' = {}
  /\ UNCHANGED <<owner, req>>

-----------------------------------------------------------------------------
(* Joining and leaving: join_room, leave_room.                             *)

\* Variant: join_room without the ban check.
MayJoinBanned(u) == visibility = "public"

\* The room is loaded before the transaction; then the ban check.
MayJoin(u) == visibility = "public" /\ ~IsBanned(u)

JoinStart(r, u) ==
  /\ "join" \in Ops
  /\ MayJoin(u)
  /\ Begin(r, "joining", u, u, "none", NoInvitation)

\* Variant: a membership without the foreign key to its room.
NewMemberUnreferenced(u) == ~IsMember(u)

\* The membership check and the INSERT under its constraints: one row per
\* user, and the room it references.
NewMember(u) == Live /\ ~IsMember(u)

JoinCommit(r) ==
  LET u == req[r].actor
  IN  /\ End(r, "joining")
      /\ \/ /\ NewMember(u) /\ ~RoomRowLocked
            /\ role' = [role EXCEPT ![u] = "member"]
            /\ UNCHANGED <<visibility, owner, ban, invitation, readers>>
         \/ Refused(NewMember(u))

\* Variant: leave_room without the owner check.
MayLeaveAnyone(u) == Live /\ IsMember(u)

MayLeave(u) == Live /\ IsMember(u) /\ role[u] # "owner" /\ u # owner

Leave(u) ==
  /\ "leave" \in Ops
  /\ MayLeave(u)
  /\ role' = [role EXCEPT ![u] = "none"]
  /\ readers' = readers \ {u}
  /\ UNCHANGED <<visibility, owner, ban, invitation, req>>

-----------------------------------------------------------------------------
(* Invitations: create_room_invitation, accept_, reject_room_invitation.   *)

InviteStart(r, u, t) ==
  /\ "invite" \in Ops
  /\ visibility = "private"
  /\ IsModerator(u)
  /\ t # u /\ ~IsBanned(t) /\ ~IsMember(t)
  /\ Begin(r, "inviting", u, t, role[u], NoInvitation)

\* Variant: create() instead of get_or_create, and no partial unique index.
NotInvitedUnchecked(t) == Live

\* get_or_create on (room, invited_user, "pending"), a partial unique index.
NotInvited(t) == Live /\ \A i \in Invitations : ~IsPending(i, t)

InviteCommit(r) ==
  LET t == req[r].target
  IN  /\ End(r, "inviting")
      /\ \/ /\ NotInvited(t) /\ ~RoomRowLocked
            /\ \E i \in Invitations :
                 /\ invitation[i] = NoRow
                 /\ invitation' = [invitation EXCEPT ![i] =
                                     [user |-> t, status |-> "pending"]]
            /\ UNCHANGED <<visibility, owner, role, ban, readers>>
         \/ Refused(NotInvited(t) /\ \E i \in Invitations : invitation[i] = NoRow)

AcceptStart(r, i, u) ==
  /\ "accept" \in Ops
  /\ ~InvitationLocked(i) /\ ~RoomRowLocked
  /\ IsPending(i, u)
  /\ ~IsBanned(u)
  /\ Begin(r, "accepting", u, u, "none", i)

\* get_or_create of the membership, then the status of the invitation.
AcceptCommit(r) ==
  LET u == req[r].actor
  IN  /\ End(r, "accepting")
      /\ role' = [role EXCEPT ![u] = IF @ = "none" THEN "member" ELSE @]
      /\ invitation' = [invitation EXCEPT ![req[r].inv].status = "accepted"]
      /\ UNCHANGED <<visibility, owner, ban, readers>>

Reject(i, u) ==
  /\ "reject" \in Ops
  /\ ~InvitationLocked(i)
  /\ IsPending(i, u)
  /\ invitation' = [invitation EXCEPT ![i].status = "rejected"]
  /\ UNCHANGED <<visibility, owner, role, ban, readers, req>>

-----------------------------------------------------------------------------
(* Roles: promote_room_admin (only the owner, whose role never changes),   *)
(* demote_room_admin (the actor's role is read before the target is        *)
(* locked).                                                                *)

Promote(u, t) ==
  /\ "promote" \in Ops
  /\ Live /\ ~RoomRowLocked
  /\ role[u] = "owner" /\ role[t] = "member"
  /\ role' = [role EXCEPT ![t] = "admin"]
  /\ UNCHANGED <<visibility, owner, ban, invitation, readers, req>>

DemoteStart(r, u, t) ==
  /\ "demote" \in Ops
  /\ Live /\ IsModerator(u)
  /\ Begin(r, "demoting", u, t, role[u], NoInvitation)

MayDemote(actor, seen, t) ==
  /\ Live
  /\ role[t] = "admin"
  /\ ~(seen = "admin" /\ t = actor)

DemoteCommit(r) ==
  LET t == req[r].target
      may == MayDemote(req[r].actor, req[r].seen, t)
  IN  /\ End(r, "demoting")
      /\ \/ /\ may /\ ~RoomRowLocked
            /\ role' = [role EXCEPT ![t] = "member"]
            /\ UNCHANGED <<visibility, owner, ban, invitation, readers>>
         \/ Refused(may)

-----------------------------------------------------------------------------
(* Bans: create_room_ban (both "remove member" and "ban"),                 *)
(* remove_room_ban.                                                        *)

BanStart(r, u, t) ==
  /\ "ban" \in Ops
  /\ Live /\ IsModerator(u)
  /\ Begin(r, "banning", u, t, role[u], NoInvitation)

\* Variants: the owner or, for an admin, another admin is not exempt.
MayModerateOwner(seen, t) ==
  Live /\ role[t] # "none" /\ ~(seen = "admin" /\ role[t] = "admin")
MayModerateAdmin(seen, t) == Live /\ role[t] \notin {"none", "owner"}

\* _get_room_member_for_moderation: the membership as locked, the actor's
\* role as read before.
MayModerate(seen, t) ==
  /\ Live
  /\ role[t] \notin {"none", "owner"}
  /\ ~(seen = "admin" /\ role[t] = "admin")

BanCommit(r) ==
  LET t == req[r].target
      may == MayModerate(req[r].seen, t) /\ ~IsBanned(t)
  IN  /\ End(r, "banning")
      /\ \/ /\ may /\ ~RoomRowLocked
            /\ role' = [role EXCEPT ![t] = "none"]
            /\ readers' = readers \ {t}
            /\ ban' = [ban EXCEPT ![t] = "active"]
            /\ UNCHANGED <<visibility, owner, invitation>>
         \/ Refused(may)

UnbanStart(r, u, t) ==
  /\ "unban" \in Ops
  /\ Live /\ IsModerator(u)
  /\ Begin(r, "unbanning", u, t, role[u], NoInvitation)

UnbanCommit(r) ==
  LET t == req[r].target
  IN  /\ End(r, "unbanning")
      /\ \/ /\ Live /\ IsBanned(t) /\ ~RoomRowLocked
            /\ ban' = [ban EXCEPT ![t] = "removed"]
            /\ UNCHANGED <<visibility, owner, role, invitation, readers>>
         \/ Refused(Live /\ IsBanned(t))

-----------------------------------------------------------------------------
(* Read state: mark_room_read.                                             *)

ReadStart(r, u) ==
  /\ "read" \in Ops
  /\ HasAccess(u)
  /\ Begin(r, "reading", u, u, "none", NoInvitation)

\* update_or_create: only the INSERT needs the lock on the room row.
ReadCommit(r) ==
  LET u == req[r].actor
  IN  /\ End(r, "reading")
      /\ \/ /\ Live /\ (u \in readers \/ ~RoomRowLocked)
            /\ readers' = readers \union {u}
            /\ UNCHANGED <<visibility, owner, role, ban, invitation>>
         \/ Refused(Live)

-----------------------------------------------------------------------------
RoomStep ==
  \E u \in Users :
    \/ \E v \in {"public", "private"} : CreateRoom(u, v) \/ UpdateRoom(u, v)
    \/ DeleteRoom(u)
    \/ Leave(u)
    \/ \E i \in Invitations : Reject(i, u)
    \/ \E t \in Users : Promote(u, t)

StartStep(r) ==
  \E u \in Users :
    \/ JoinStart(r, u)
    \/ ReadStart(r, u)
    \/ \E i \in Invitations : AcceptStart(r, i, u)
    \/ \E t \in Users :
         \/ InviteStart(r, u, t)
         \/ DemoteStart(r, u, t)
         \/ BanStart(r, u, t)
         \/ UnbanStart(r, u, t)

CommitStep(r) ==
  \/ JoinCommit(r)
  \/ InviteCommit(r)
  \/ AcceptCommit(r)
  \/ DemoteCommit(r)
  \/ BanCommit(r)
  \/ UnbanCommit(r)
  \/ ReadCommit(r)

Next == RoomStep \/ \E r \in Requests : StartStep(r) \/ CommitStep(r)

Spec == Init /\ [][Next]_vars
-----------------------------------------------------------------------------
(* Properties.                                                             *)

(* While the room exists its owner holds the one owner membership and is   *)
(* never banned, whatever moderation requests race (docs/SCHEMA.md 15.3).  *)
OwnerStanding ==
  Live => /\ role[owner] = "owner"
          /\ ~IsBanned(owner)
          /\ \A u \in Users : role[u] = "owner" => u = owner

(* docs/SCHEMA.md 15.11: a user with an active ban has no membership.      *)
(* join_room keeps this only while no two requests overlap.                *)
BannedNotMember == \A u \in Users : ~(IsBanned(u) /\ IsMember(u))

(* A request that began before delete_room writes nothing back: no row of  *)
(* a deleted room survives or appears later.                               *)
DeletedRoomLeavesNothing ==
  visibility = "deleted" =>
    /\ \A u \in Users : role[u] = "none" /\ ban[u] = "none"
    /\ \A i \in Invitations : invitation[i] = NoRow
    /\ readers = {}

(* Two moderators inviting the same user at once leave one pending row.    *)
OnePendingInvitation ==
  \A u \in Users : \A i, j \in Invitations :
    IsPending(i, u) /\ IsPending(j, u) => i = j

(* accept and reject of the same invitation may race; the first to commit  *)
(* decides, and the answer never changes afterwards.                       *)
InvitationsAreFinal ==
  [][\A i \in Invitations :
       invitation[i].status \in {"accepted", "rejected"} /\ Live'
         => invitation'[i] = invitation[i]]_vars

(* A membership appears only for the founder, for a join that began while  *)
(* the room was public, or together with the acceptance of the user's own  *)
(* pending invitation, and then no ban stands at that moment.              *)
AdmissionIsJustified ==
  [][\A u \in Users : ~IsMember(u) /\ IsMember(u)' =>
       \/ visibility = "absent" /\ owner' = u
       \/ \E r \in Requests : req[r].stage = "joining" /\ req[r].actor = u
                              /\ req'[r] = Idle
       \/ /\ ~IsBanned(u)
          /\ \E i \in Invitations :
               IsPending(i, u) /\ invitation'[i].status = "accepted"]_vars

(* An admin is put out of the room by the owner only, even when the actor  *)
(* was promoted, demoted or the target promoted between check and write.   *)
AdminsAnswerToOwner ==
  [][\A u \in Users :
       role[u] = "admin" /\ ~IsBanned(u) /\ IsBanned(u)' =>
         \E r \in Requests : /\ req[r].stage = "banning"
                             /\ req[r].actor = owner
                             /\ req'[r] = Idle]_vars

(* The abstract room, and the standing a user's rows amount to.            *)
Phase == IF visibility = "absent" THEN "absent"
         ELSE IF visibility = "deleted" THEN "closed" ELSE "open"
Standing == [u \in Users |-> IF IsBanned(u) THEN "banned"
                             ELSE IF IsMember(u) THEN "member" ELSE "outsider"]

Access == INSTANCE RoomAccess
            WITH phase <- Phase, founder <- owner, standing <- Standing

(* Requests that cannot overlap a join implement the abstract room.        *)
ImplementsAccess == Access!Spec
=============================================================================
