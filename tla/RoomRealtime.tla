---------------------------- MODULE RoomRealtime ----------------------------
(***************************************************************************)
(* Live events of one room: backend/apps/chat/consumers.py,                *)
(* chat/realtime/fanout.py and the views that call it.                     *)
(*                                                                         *)
(* A request (a REST thread, or a consumer handling its client's message)  *)
(* checks access, commits to the database, and then sends its events one   *)
(* by one to a group of the channel layer, which copies each into the      *)
(* inbox of every channel in the group.  A consumer handles one inbox      *)
(* entry or one client message at a time.  It looks up whether its user    *)
(* has access and then awaits the channel layer or the socket; whatever    *)
(* another thread or process commits in between is not seen.  The client   *)
(* applies what it receives by message id (App.tsx, upsertMessage and      *)
(* removeMessage).  Whether a user without access is banned or merely not  *)
(* a member is left open here: RoomMembership has the bans.                *)
(***************************************************************************)
EXTENDS Naturals, Sequences, FiniteSets

CONSTANTS
  Users, Owner,   \* the room's owner never loses access
  Conns, UserOf,  \* WebSocket connections and the user each one belongs to
  Messages,       \* primary keys of the messages that may be posted
  NoMessage,
  Requests,       \* requests in flight at once
  Capacity,       \* of a channel in the channel layer; further events are dropped
  Ops             \* the kinds of request the clients send

AllOps == {"post", "edit", "delete", "ban", "remove", "leave", "unban", "enter",
           "promote", "demote"}

ASSUME OwnerAssumption == Owner \in Users
ASSUME ConnAssumption == UserOf \in [Conns -> Users]
ASSUME MessageAssumption == NoMessage \notin Messages
ASSUME CapacityAssumption == Capacity \in Nat \ {0}
ASSUME OpsAssumption == Ops \subseteq AllOps

VARIABLES
  access,    \* the users who are members without an active ban
  admins,    \* those of them whose role is admin
  text,      \* RoomMessage rows: "none", "first", "edited" or "deleted"
  author,    \* RoomMessage.sender_user
  req,       \* requests in flight, with the events they have still to send
  group,     \* the channels in the layer's group of the room
  subs,      \* the consumers whose room_subscriptions hold the room
  inbox,     \* the events waiting in each channel
  hand,      \* what each consumer goes on to do after its look at the access
  subbed,    \* the clients with an acknowledged subscription that access never left
  owed,      \* the messages posted while that was so
  view,      \* the text each client shows of each message
  withheld,  \* history: what has been written since each user lost access
  overlapped,\* history: a request has begun while another was in flight
  cut        \* history: connections that lost an event to a full channel, or
             \* their subscription to a forced one although they have access

vars == <<access, admins, text, author, req, group, subs, inbox, hand, subbed, owed, view,
          withheld, overlapped, cut>>
members == <<access, admins>>
database == <<members, text, author>>
layer == <<group, subs, inbox, hand>>
client == <<subbed, owed, view>>
history == <<withheld, overlapped, cut>>

Texts == {"none", "first", "edited"}
Event == [kind : {"upsert", "delete", "member", "force"},
          msg : Messages \union {NoMessage}, text : Texts, to : Users]
Member == [kind |-> "member", msg |-> NoMessage, text |-> "none", to |-> Owner]
Free == [does |-> "nothing", event |-> Member]
Idle == [op |-> "idle", user |-> Owner, msg |-> NoMessage, out |-> <<>>]

TypeOK ==
  /\ access \subseteq Users /\ Owner \in access /\ admins \subseteq access \ {Owner}
  /\ text \in [Messages -> Texts \union {"deleted"}]
  /\ author \in [Messages -> Users]
  /\ \A r \in Requests : /\ req[r].op \in {"idle", "post", "edit", "delete", "send"}
                         /\ req[r].user \in Users
                         /\ req[r].msg \in Messages \union {NoMessage}
                         /\ req[r].out \in Seq(Event)
  /\ group = subs /\ subs \subseteq Conns
  /\ \A c \in Conns : inbox[c] \in Seq(Event) /\ Len(inbox[c]) <= Capacity
  /\ hand \in [Conns -> [does : {"nothing", "pass", "drop", "join"}, event : Event]]
  /\ subbed \subseteq Conns
  /\ owed \in [Conns -> SUBSET Messages]
  /\ view \in [Conns -> [Messages -> Texts]]
  /\ withheld \in [Users -> SUBSET (Messages \X Texts)]
  /\ overlapped \in BOOLEAN /\ cut \subseteq Conns

Init ==
  /\ access = Users /\ admins = {}
  /\ text = [m \in Messages |-> "none"]
  /\ author = [m \in Messages |-> Owner]
  /\ req = [r \in Requests |-> Idle]
  /\ group = {} /\ subs = {}
  /\ inbox = [c \in Conns |-> <<>>]
  /\ hand = [c \in Conns |-> Free]
  /\ subbed = {}
  /\ owed = [c \in Conns |-> {}]
  /\ view = [c \in Conns |-> [m \in Messages |-> "none"]]
  /\ withheld = [u \in Users |-> {}]
  /\ overlapped = FALSE /\ cut = {}

-----------------------------------------------------------------------------
(* Events.                                                                 *)

Upsert(m, t) == [kind |-> "upsert", msg |-> m, text |-> t, to |-> Owner]
Deleted(m) == [kind |-> "delete", msg |-> m, text |-> "none", to |-> Owner]
ForceOut(u) == [kind |-> "force", msg |-> NoMessage, text |-> "none", to |-> u]

\* room_group for room events, user_group for the control event.
Receivers(e) ==
  IF e.kind = "force" THEN {c \in Conns : UserOf[c] = e.to} ELSE group

\* Variant: a channel of unlimited capacity.
SentAnyway(e) ==
  [c \in Conns |-> IF c \in Receivers(e) THEN Append(inbox[c], e) ELSE inbox[c]]

\* group_send: a full channel does not get the event.
Sent(e) ==
  [c \in Conns |-> IF c \in Receivers(e) /\ Len(inbox[c]) < Capacity
                   THEN Append(inbox[c], e) ELSE inbox[c]]

-----------------------------------------------------------------------------
(* Messages: create_, update_, delete_room_message and their publication.  *)

NoteOverlap == overlapped' = (overlapped \/ \E r \in Requests : req[r] # Idle)

Start(r, op, u, m) ==
  /\ op \in Ops
  /\ req[r] = Idle
  /\ u \in access
  /\ req' = [req EXCEPT ![r] = [op |-> op, user |-> u, msg |-> m, out |-> <<>>]]
  /\ NoteOverlap
  /\ UNCHANGED <<database, layer, client, withheld, cut>>

Publishing(events) == [op |-> "send", user |-> Owner, msg |-> NoMessage, out |-> events]

Publishes(r, events) == req' = [req EXCEPT ![r] = Publishing(events)]

Refused(r) == req' = [req EXCEPT ![r] = Idle] /\ UNCHANGED <<database, layer, client, history>>

\* What is written now is withheld from the users without access.
Withhold(m, t) ==
  withheld' = [u \in Users |-> IF u \in access THEN withheld[u] ELSE withheld[u] \union {<<m, t>>}]

\* A client is owed what is posted while it is subscribed and has access.
Post(r) ==
  LET m == req[r].msg
  IN  /\ req[r].op = "post" /\ text[m] = "none"
      /\ text' = [text EXCEPT ![m] = "first"]
      /\ author' = [author EXCEPT ![m] = req[r].user]
      /\ owed' = [c \in Conns |-> IF c \in subbed THEN owed[c] \union {m} ELSE owed[c]]
      /\ Publishes(r, <<Upsert(m, "first")>>)
      /\ Withhold(m, "first")
      /\ UNCHANGED <<members, layer, subbed, view, overlapped, cut>>

\* Bound: a message is edited once.
MayEdit(r) == text[req[r].msg] = "first" /\ author[req[r].msg] = req[r].user

Edit(r) ==
  LET m == req[r].msg
  IN  /\ req[r].op = "edit"
      /\ \/ /\ MayEdit(r)
            /\ text' = [text EXCEPT ![m] = "edited"]
            /\ Publishes(r, <<Upsert(m, "edited")>>)
            /\ Withhold(m, "edited")
            /\ UNCHANGED <<members, author, layer, client, overlapped, cut>>
         \/ ~MayEdit(r) /\ Refused(r)

MayDelete(r) ==
  /\ text[req[r].msg] \in {"first", "edited"}
  /\ req[r].user \in {author[req[r].msg], Owner} \union admins

\* Variant: a deletion is not broadcast.
DeleteSilently(r) ==
  LET m == req[r].msg
  IN  /\ req[r].op = "delete"
      /\ text' = IF MayDelete(r) THEN [text EXCEPT ![m] = "deleted"] ELSE text
      /\ req' = [req EXCEPT ![r] = Idle]
      /\ UNCHANGED <<members, author, layer, client, history>>

Delete(r) ==
  LET m == req[r].msg
  IN  /\ req[r].op = "delete"
      /\ \/ /\ MayDelete(r)
            /\ text' = [text EXCEPT ![m] = "deleted"]
            /\ Publishes(r, <<Deleted(m)>>)
            /\ UNCHANGED <<members, author, layer, client, history>>
         \/ ~MayDelete(r) /\ Refused(r)

Send(r) ==
  LET out == req[r].out
  IN  /\ req[r].op = "send"
      /\ inbox' = Sent(Head(out))
      /\ cut' = cut \union {c \in Receivers(Head(out)) : Len(inbox[c]) >= Capacity}
      /\ req' = [req EXCEPT ![r] = IF Len(out) = 1 THEN Idle ELSE [@ EXCEPT !.out = Tail(out)]]
      /\ UNCHANGED <<database, group, subs, hand, client, withheld, overlapped>>

-----------------------------------------------------------------------------
(* Membership as the views publish it.                                     *)

\* What each view sends once its service has committed.
Announcement(op, u) ==
  CASE op \in {"remove", "demote"} -> <<>>
    [] op \in {"enter", "unban"} -> <<Member>>
    [] OTHER -> <<Member, ForceOut(u)>>         \* leave, ban, promote

\* enter: join_room and the acceptance of an invitation.
MayChange(op, u) ==
  CASE op \in {"enter", "unban"} -> u \notin access
    [] op = "promote" -> u \in access \ admins
    [] op = "demote" -> u \in admins
    [] OTHER -> u \in access

ChangeMembership(r, op, u) ==
  /\ op \in Ops /\ req[r] = Idle
  /\ NoteOverlap
  /\ u # Owner /\ MayChange(op, u)
  /\ access' = CASE op = "enter" -> access \union {u}
                 [] op \in {"unban", "promote", "demote"} -> access
                 [] OTHER -> access \ {u}
  /\ admins' = IF op = "promote" THEN admins \union {u} ELSE admins \ {u}
  /\ subbed' = IF u \in access' THEN subbed ELSE {c \in subbed : UserOf[c] # u}
  /\ owed' = [c \in Conns |-> IF UserOf[c] \in access' THEN owed[c] ELSE {}]
  /\ req' = IF Announcement(op, u) = <<>> THEN req
            ELSE [req EXCEPT ![r] = Publishing(Announcement(op, u))]
  /\ withheld' = [x \in Users |-> IF x \in access' THEN {} ELSE withheld[x]]
  /\ UNCHANGED <<text, author, layer, view, cut>>

-----------------------------------------------------------------------------
(* The consumer: room.subscribe, room.unsubscribe, broadcast_event,        *)
(* membership_force_room_unsubscribe.                                      *)

HasAccess(c) == UserOf[c] \in access

\* The consumer of c has looked, and an await lies before what it goes on to do.
GoesOn(c, does, e) == hand' = [hand EXCEPT ![c] = [does |-> does, event |-> e]]

Subscribe(c) ==
  /\ hand[c] = Free
  /\ HasAccess(c)
  /\ GoesOn(c, "join", Member)
  /\ UNCHANGED <<database, req, group, subs, inbox, client, history>>

\* Variant: the consumer records the subscription without joining the group.
JoinLocally(c) ==
  /\ hand[c].does = "join"
  /\ hand' = [hand EXCEPT ![c] = Free]
  /\ subs' = subs \union {c}
  /\ subbed' = IF HasAccess(c) THEN subbed \union {c} ELSE subbed
  /\ UNCHANGED <<database, req, group, inbox, owed, view, history>>

\* A user who has lost access in between is subscribed all the same.
Join(c) ==
  /\ hand[c].does = "join"
  /\ hand' = [hand EXCEPT ![c] = Free]
  /\ group' = group \union {c}
  /\ subs' = subs \union {c}
  /\ subbed' = IF HasAccess(c) THEN subbed \union {c} ELSE subbed
  /\ UNCHANGED <<database, req, inbox, owed, view, history>>

Unsubscribe(c) ==
  /\ hand[c] = Free
  /\ group' = group \ {c}
  /\ subs' = subs \ {c}
  /\ subbed' = subbed \ {c}
  /\ owed' = [owed EXCEPT ![c] = {}]
  /\ UNCHANGED <<database, req, inbox, hand, view, history>>

\* Variant: broadcast_event trusts the subscription.
MayReceiveSubscribed(c) == c \in subs

\* _can_receive_room_event
MayReceive(c) == HasAccess(c)

Takes(c) ==
  /\ hand[c] = Free
  /\ inbox[c] # <<>>
  /\ inbox' = [inbox EXCEPT ![c] = Tail(@)]

\* broadcast_event up to its await: the event is passed on or refused.
Check(c) ==
  /\ Takes(c) /\ Head(inbox[c]).kind # "force"
  /\ \/ MayReceive(c) /\ GoesOn(c, "pass", Head(inbox[c]))
     \/ ~MayReceive(c) /\ c \in subs /\ GoesOn(c, "drop", Member)
     \/ ~MayReceive(c) /\ c \notin subs /\ UNCHANGED hand
  /\ UNCHANGED <<database, req, group, subs, client, history>>

\* The client's reducer.
Shown(c, e) ==
  IF e.kind = "member" THEN view[c] ELSE [view[c] EXCEPT ![e.msg] = e.text]

Pass(c) ==
  /\ hand[c].does = "pass"
  /\ hand' = [hand EXCEPT ![c] = Free]
  /\ view' = [view EXCEPT ![c] = Shown(c, hand[c].event)]
  /\ UNCHANGED <<database, req, group, subs, inbox, subbed, owed, history>>

DropSubscription(c) == group' = group \ {c} /\ subs' = subs \ {c}

Drop(c) ==
  /\ hand[c].does = "drop"
  /\ hand' = [hand EXCEPT ![c] = Free]
  /\ DropSubscription(c)
  /\ UNCHANGED <<database, req, inbox, client, history>>

Forced(c) ==
  /\ Takes(c) /\ Head(inbox[c]).kind = "force"
  /\ DropSubscription(c)
  /\ cut' = IF HasAccess(c) THEN cut \union {c} ELSE cut
  /\ UNCHANGED <<database, req, hand, client, withheld, overlapped>>

-----------------------------------------------------------------------------
RequestStep(r) == Post(r) \/ Edit(r) \/ Delete(r) \/ Send(r)
TakesEvent(c) == Check(c) \/ Forced(c)
GoesOnStep(c) == Pass(c) \/ Drop(c) \/ Join(c)

Next ==
  \/ \E r \in Requests :
       \/ \E u \in Users, m \in Messages :
            \/ text[m] = "none" /\ (\A q \in Requests : req[q].msg # m)
                 /\ Start(r, "post", u, m)
            \/ text[m] # "none" /\ \E op \in {"edit", "delete"} : Start(r, op, u, m)
       \/ \E u \in Users, op \in AllOps \ {"post", "edit", "delete"} :
            ChangeMembership(r, op, u)
       \/ RequestStep(r)
  \/ \E c \in Conns : Subscribe(c) \/ Unsubscribe(c) \/ TakesEvent(c) \/ GoesOnStep(c)

Spec == Init /\ [][Next]_vars

\* Started requests finish and a consumer ends what it has begun.  It takes its
\* client's messages and its channel's events by turns (await_many_dispatch), so
\* a client that keeps sending does not keep it from its channel: that is strong
\* fairness, for it takes no event while it is about something else.
Fairness ==
  /\ \A r \in Requests : WF_vars(RequestStep(r))
  /\ \A c \in Conns : WF_vars(GoesOnStep(c)) /\ SF_vars(TakesEvent(c))

FairSpec == Spec /\ Fairness
-----------------------------------------------------------------------------
(* Properties.                                                             *)

(* docs/API_CONTRACT.md 24.3: a user who loses access loses access to the  *)
(* room's messages.  Whatever is queued, in flight or already checked when *)
(* that happens, and although a subscription may outlive it, no connection *)
(* of the user ever shows a message or a text written after the loss,      *)
(* until the user is back; an event checked before may still be passed on. *)
NothingWithheldIsShown ==
  \A c \in Conns, m \in Messages : <<m, view[c][m]>> \notin withheld[UserOf[c]]

Quiet(c) ==
  inbox[c] = <<>> /\ hand[c].does # "pass" /\ \A r \in Requests : req[r].op # "send"

ShowsDatabase(c) ==
  \A m \in owed[c] : view[c][m] = IF text[m] = "deleted" THEN "none" ELSE text[m]

(* docs/API_CONTRACT.md 28: WebSocket events reflect persisted state. Once *)
(* everything sent has arrived, a client that was subscribed, with access, *)
(* since before a message was posted shows what the database holds of it,  *)
(* across edits, deletions, bans, removals, departures, returns and        *)
(* subscriptions.  It takes requests that overlap, a full channel or a     *)
(* forced unsubscription of someone who has access to break that.          *)
ViewFollowsSerialRequests ==
  ~overlapped => \A c \in Conns \ cut : Quiet(c) => ShowsDatabase(c)

(* docs/API_CONTRACT.md 18.3.7: the created event reaches the subscribed   *)
(* authorized users: whatever overlaps, what a client is owed it comes to  *)
(* show, unless it leaves, loses access, the message is deleted first, or  *)
(* the server has cut it off.                                              *)
OwedArrives ==
  \A c \in Conns, m \in Messages :
    m \in owed[c] ~> \/ view[c][m] # "none" \/ m \notin owed[c]
                     \/ text[m] = "deleted" \/ c \in cut
=============================================================================
