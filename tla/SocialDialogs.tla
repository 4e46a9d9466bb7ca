--------------------------- MODULE SocialDialogs ---------------------------
(***************************************************************************)
(* Friendship, peer bans and the personal dialog of one pair of users:     *)
(* backend/apps/social/services.py and the dialog part of                  *)
(* backend/apps/chat/services.py.  Every row involved is keyed by the pair *)
(* (or by a direction of it), so one pair is the whole component.          *)
(*                                                                         *)
(* As in RoomMembership a request is two actions where a decision outlives *)
(* the statement that justified it, under READ COMMITTED.  What one        *)
(* request keeps another from doing:                                       *)
(*   - accept_friend_request locks the request row and, by select_related  *)
(*     under select_for_update, both User rows; the foreign keys of a row  *)
(*     that references them (a request, a ban, a ModerationEvent, a        *)
(*     dialog, a message) are deferred, so the COMMIT of the INSERT waits; *)
(*   - a DELETE of the Friendship row locks the row until the commit;      *)
(*   - create_peer_ban and remove_peer_ban lock the actor's ban row.       *)
(* A request that PostgreSQL rolls back to break a deadlock leaves nothing *)
(* and is as one that never began; it is left out.                         *)
(***************************************************************************)
EXTENDS FiniteSets, Naturals

CONSTANTS
  Users,          \* the two users of the pair
  FriendRequests, \* primary keys available to FriendRequest rows
  NoRequest,      \* no FriendRequest
  NoUser,         \* no User
  Slots,          \* how many requests are in flight at once
  Ops,            \* the kinds of request the clients send
  MaxMessages     \* bound on the messages of the dialog

AllOps == {"befriend", "accept", "reject", "unfriend", "ban", "unban", "open",
           "message"}

ASSUME PairAssumption ==
  NoUser \notin Users /\ \E a, b \in Users : a # b /\ Users = {a, b}
ASSUME SlotsAssumption == IsFiniteSet(Slots)
ASSUME RowsAssumption == NoRequest \notin FriendRequests
ASSUME OpsAssumption == Ops \subseteq AllOps
ASSUME BoundAssumption == MaxMessages \in Nat

VARIABLES
  friends,        \* the Friendship row of the pair exists
  request,        \* FriendRequest rows: who sent them, and their status
  ban,            \* PeerBan row of each user against the other
  dialog,         \* the Dialog row of the pair
  messages,       \* how many DialogMessage rows it has
  req,            \* the requests in flight, between their checks and their writes
  overlapped      \* history: a request has begun while another was in flight

database == <<friends, request, ban, dialog, messages>>
vars == <<friends, request, ban, dialog, messages, req, overlapped>>

Stages == {"idle", "befriending", "accepting", "unfriending", "banning",
           "unbanning", "opening", "messaging"}

NoRow == [from |-> NoUser, status |-> "none"]
Idle == [stage |-> "idle", actor |-> NoUser, row |-> NoRequest,
         found |-> FALSE, open |-> FALSE]

TypeOK ==
  /\ friends \in BOOLEAN
  /\ request \in [FriendRequests ->
       [from : Users \union {NoUser},
        status : {"none", "pending", "accepted", "rejected"}]]
  /\ ban \in [Users -> {"none", "active", "removed"}]
  /\ dialog \in {"absent", "open", "frozen"}
  /\ messages \in 0 .. MaxMessages
  /\ dialog = "absent" => messages = 0
  /\ req \in [Slots ->
       [stage : Stages, actor : Users \union {NoUser},
        row : FriendRequests \union {NoRequest},
        found : BOOLEAN, open : BOOLEAN]]
  /\ \A s \in Slots : req[s].stage # "idle" => req[s].actor \in Users
  /\ overlapped \in BOOLEAN

Init ==
  /\ friends = FALSE
  /\ request = [q \in FriendRequests |-> NoRow]
  /\ ban = [u \in Users |-> "none"]
  /\ dialog = "absent"
  /\ messages = 0
  /\ req = [s \in Slots |-> Idle]
  /\ overlapped = FALSE

-----------------------------------------------------------------------------
(* What the requests read, and the locks that make them wait.              *)

Other(u) == CHOOSE v \in Users : v # u

\* has_active_peer_ban: in either direction.
Banned == \E u \in Users : ban[u] = "active"

Pending(q, from) == request[q] = [from |-> from, status |-> "pending"]

\* Dialog.is_frozen as _freeze_dialog_for_pair and
\* _refresh_dialog_state_for_pair write it: only into an existing row.
DialogSet(open) ==
  IF dialog = "absent" THEN "absent" ELSE IF open THEN "open" ELSE "frozen"

InStage(s, stages) == req[s].stage \in stages

\* The two User rows are locked FOR UPDATE.
UsersLocked == \E s \in Slots : InStage(s, {"accepting"})

\* Variant: accept and reject read the row without select_for_update.
NoRequestLock(q) == FALSE

RequestLocked(q) == \E s \in Slots : InStage(s, {"accepting"}) /\ req[s].row = q

\* A deletion of the Friendship row is not committed.
FriendshipLocked ==
  \E s \in Slots : InStage(s, {"unfriending", "banning"}) /\ req[s].found

BanLocked(u) == \E s \in Slots : InStage(s, {"unbanning"}) /\ req[s].actor = u

\* Bounds of the model: a request starts only while there is room for its row.
InFlight(stage) == Cardinality({s \in Slots : InStage(s, {stage})})
Unused == {q \in FriendRequests : request[q] = NoRow}

Begin(s, stage, u, row, found, open) ==
  /\ req[s].stage = "idle"
  /\ req' = [req EXCEPT ![s] = [stage |-> stage, actor |-> u, row |-> row,
                                found |-> found, open |-> open]]
  /\ overlapped' = (overlapped \/ \E t \in Slots : req[t].stage # "idle")
  /\ UNCHANGED database

End(s, stage) ==
  /\ req[s].stage = stage
  /\ req' = [req EXCEPT ![s] = Idle]
  /\ UNCHANGED overlapped

-----------------------------------------------------------------------------
(* Friend requests.                                                        *)

\* Variant: only the sender's own pending requests are looked up.
MayBefriendCrossing(u) ==
  /\ ~Banned
  /\ ~friends
  /\ \A q \in FriendRequests : ~Pending(q, u)

MayBefriend(u) ==
  /\ ~Banned
  /\ ~friends
  /\ \A q \in FriendRequests, v \in Users : ~Pending(q, v)

CreateRequestStart(s, u) ==
  /\ "befriend" \in Ops
  /\ Cardinality(Unused) > InFlight("befriending")
  /\ MayBefriend(u)
  /\ Begin(s, "befriending", u, NoRequest, FALSE, FALSE)

\* social_friendrequest_one_pending_per_direction.
OnePendingInDirection(u) == \A q \in FriendRequests : ~Pending(q, u)

CreateRequestCommit(s) ==
  LET u == req[s].actor IN
  /\ End(s, "befriending")
  /\ ~UsersLocked
  /\ \/ /\ OnePendingInDirection(u)
        /\ \E q \in Unused :
             request' = [request EXCEPT ![q] = [from |-> u, status |-> "pending"]]
        /\ UNCHANGED <<friends, ban, dialog, messages>>
     \/ ~OnePendingInDirection(u) /\ UNCHANGED database

MayAccept(q, u) == Pending(q, Other(u))

(* The Friendship row is found or inserted, and the dialog's new state is  *)
(* computed from the friendship and the bans, before anything is committed. *)
AcceptStart(s, q, u) ==
  /\ "accept" \in Ops
  /\ ~UsersLocked
  /\ MayAccept(q, u)
  /\ Begin(s, "accepting", u, q, friends, ~Banned)

AcceptCommit(s) ==
  /\ End(s, "accepting")
  /\ friends' = IF req[s].found THEN friends ELSE TRUE
  /\ request' = [request EXCEPT ![req[s].row].status = "accepted"]
  /\ dialog' = DialogSet(req[s].open)
  /\ UNCHANGED <<ban, messages>>

Reject(q, u) ==
  /\ "reject" \in Ops
  /\ ~RequestLocked(q)
  /\ Pending(q, Other(u))
  /\ request' = [request EXCEPT ![q].status = "rejected"]
  /\ UNCHANGED <<friends, ban, dialog, messages, req, overlapped>>

-----------------------------------------------------------------------------
(* Ending a friendship, and peer bans.                                     *)

RemoveFriendStart(s, u) ==
  /\ "unfriend" \in Ops
  /\ ~FriendshipLocked
  /\ friends
  /\ Begin(s, "unfriending", u, NoRequest, TRUE, FALSE)

RemoveFriendCommit(s) ==
  /\ End(s, "unfriending")
  /\ friends' = FALSE
  /\ dialog' = DialogSet(FALSE)
  /\ UNCHANGED <<request, ban, messages>>

\* create_peer_ban deletes the Friendship row first, if there is one.
BanStart(s, u) ==
  /\ "ban" \in Ops
  /\ ~FriendshipLocked
  /\ Begin(s, "banning", u, NoRequest, friends, FALSE)

BanCommit(s) ==
  LET u == req[s].actor IN
  /\ End(s, "banning")
  /\ ~UsersLocked
  /\ ~BanLocked(u)
  /\ \/ /\ ban[u] # "active"
        /\ friends' = IF req[s].found THEN FALSE ELSE friends
        /\ ban' = [ban EXCEPT ![u] = "active"]
        /\ dialog' = DialogSet(FALSE)
        /\ UNCHANGED <<request, messages>>
     \/ ban[u] = "active" /\ UNCHANGED database

\* Variant: lifting one's own ban ignores the other user's.
LiftedAlone(u) == friends

\* What _refresh_dialog_state_for_pair computes once the ban of u is removed.
Lifted(u) == friends /\ ban[Other(u)] # "active"

UnbanStart(s, u) ==
  /\ "unban" \in Ops
  /\ ~BanLocked(u)
  /\ ban[u] = "active"
  /\ Begin(s, "unbanning", u, NoRequest, FALSE, Lifted(u))

UnbanCommit(s) ==
  /\ End(s, "unbanning")
  /\ ~UsersLocked
  /\ ban' = [ban EXCEPT ![req[s].actor] = "removed"]
  /\ dialog' = DialogSet(req[s].open)
  /\ UNCHANGED <<friends, request, messages>>

-----------------------------------------------------------------------------
(* The dialog.                                                             *)

OpenDialogStart(s, u) ==
  /\ "open" \in Ops
  /\ ~Banned
  /\ friends
  /\ Begin(s, "opening", u, NoRequest, FALSE, FALSE)

OpenDialogCommit(s) ==
  /\ End(s, "opening")
  /\ dialog = "absent" => ~UsersLocked
  /\ dialog' = IF dialog = "absent" THEN "open" ELSE dialog
  /\ UNCHANGED <<friends, request, ban, messages>>

\* Variant: the checks trust the friendship alone.
MayMessageFriends == friends

MayMessage == dialog = "open" /\ friends /\ ~Banned

MessageStart(s, u) ==
  /\ "message" \in Ops
  /\ messages + InFlight("messaging") < MaxMessages
  /\ MayMessage
  /\ Begin(s, "messaging", u, NoRequest, FALSE, FALSE)

MessageCommit(s) ==
  /\ End(s, "messaging")
  /\ ~UsersLocked
  /\ messages' = messages + 1
  /\ UNCHANGED <<friends, request, ban, dialog>>

Next ==
  \/ \E s \in Slots, u \in Users :
       \/ CreateRequestStart(s, u)
       \/ \E q \in FriendRequests : AcceptStart(s, q, u)
       \/ RemoveFriendStart(s, u)
       \/ BanStart(s, u)
       \/ UnbanStart(s, u)
       \/ OpenDialogStart(s, u)
       \/ MessageStart(s, u)
  \/ \E q \in FriendRequests, u \in Users : Reject(q, u)
  \/ \E s \in Slots :
       \/ CreateRequestCommit(s)
       \/ AcceptCommit(s)
       \/ RemoveFriendCommit(s)
       \/ BanCommit(s)
       \/ UnbanCommit(s)
       \/ OpenDialogCommit(s)
       \/ MessageCommit(s)

Spec == Init /\ [][Next]_vars

-----------------------------------------------------------------------------
(* Properties.                                                             *)
(* Some promises of the documents hold only while no two requests of the   *)
(* pair have ever overlapped: the decisions then outlive what they were    *)
(* taken on.  Those name the variable overlapped; the others hold always.  *)

\* Personal messaging is open exactly between friends of whom neither bans
\* the other (API_CONTRACT.md:884, :913; SCHEMA.md:342), along every path
\* through remove_friend, the bans of both users and a renewed friendship.
DialogFollowsFriendship ==
  ~overlapped /\ dialog # "absent" => (dialog = "open" <=> friends /\ ~Banned)

\* At any overlap of requests a user has asked the other at most once
\* (models.py:37, SCHEMA.md:314); while none overlap, a pending request means
\* two strangers of whom only one has asked (SCHEMA.md:315).
PendingMeansStrangers ==
  \A q \in FriendRequests :
    request[q].status = "pending" =>
      /\ \A p \in FriendRequests : request[p] = request[q] => p = q
      /\ ~overlapped =>
           /\ ~friends
           /\ \A p \in FriendRequests : request[p].status = "pending" => p = q

\* The pair as its users see it.
Asking == {u \in Users : \E q \in FriendRequests : Pending(q, u)}
Banning == {u \in Users : ban[u] = "active"}

Pair == INSTANCE PairAccess WITH asking <- Asking, banning <- Banning, written <- messages

\* Accept and reject never both apply.
AnswersStand ==
  \A q \in FriendRequests :
    request[q].status \in {"accepted", "rejected"} => request'[q] = request[q]

FriendsByAcceptance ==
  ~friends /\ friends' =>
    \E q \in FriendRequests :
      request[q].status = "pending" /\ request'[q].status = "accepted"

\* However requests overlap, an answer is final and two users become friends only
\* in the step that accepts a pending request.  As long as they do not overlap,
\* each request is one step of the pair, or none, though it writes several rows
\* after reading others: a ban ends the friendship (API_CONTRACT.md:914) and the
\* one thing that brings friends and a ban together is the acceptance of a request
\* the ban has left pending.
ImplementsPair ==
  /\ Pair!Init
  /\ [][/\ AnswersStand /\ FriendsByAcceptance
        /\ ~overlapped' => [Pair!Next]_(Pair!vars)]_vars
=============================================================================
