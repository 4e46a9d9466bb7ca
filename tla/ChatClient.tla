----------------------------- MODULE ChatClient -----------------------------
(***************************************************************************)
(* The message list of the web client, frontend/src/App.tsx: the active    *)
(* chat, its subscription over the WebSocket, the loading of its messages  *)
(* over REST, and the answers to the user's own requests.                  *)
(*                                                                         *)
(* The two channels to the server are not ordered with each other, and     *)
(* neither are two REST answers; the WebSocket is a queue in each          *)
(* direction.  Every await of the code is a step of its own.  Of a message *)
(* only its existence is modelled, of the older pages of a chat that they  *)
(* have been loaded (the chat itself is then in the list); their offsets   *)
(* are the subject of MessageTimeline.                                     *)
(***************************************************************************)
EXTENDS Naturals, Sequences, FiniteSets

CONSTANTS
  Chats, NoChat,
  Messages, NoMessage,
  HomeOf,        \* the chat of each message
  MaxActs,   \* bound: selections and requests of the user
  MaxLoads,      \* bound: loads in flight, superseded ones included
  MaxOutbox      \* bound: commands in the socket, at a selection

ASSUME ChatAssumption ==   \* view holds messages and chats
  NoChat \notin Chats \union Messages /\ NoMessage \notin Messages /\ Chats \intersect Messages = {}
ASSUME HomeAssumption == HomeOf \in [Messages -> Chats]
ASSUME BoundAssumption == MaxActs \in Nat /\ MaxLoads \in Nat \ {0} /\ MaxOutbox \in Nat

VARIABLES
  sent,      \* server: the state of each message
  joined,    \* server: the chats the user may read
  group,     \* server: the groups of the connection
  socket,    \* "connecting", "open" or "closed"
  outbox,    \* commands on their way to the server
  inbox,     \* events on their way to the client
  active,    \* activeChat and activeChatRef
  loads,     \* the runs of loadChat that have not ended
  loading,   \* messagesLoading
  view,      \* messages
  more,      \* messageCursor # null
  request,   \* one request of the user
  refresh,   \* one run of refreshShell
  acts,
  stray,     \* history: an answer or event that came too late is in the view
  missed     \* history: the chat changed while neither page nor events covered it

server == <<sent, joined, group>>
wire == <<socket, outbox, inbox>>
list == <<view, more, loading>>
history == <<stray, missed>>
clientVars == <<server, wire, active, loads, list, request, refresh, acts, history>>

Of(c) == {m \in Messages : HomeOf[m] = c}
Present(c) == {m \in Of(c) : sent[m] = "sent"}

NoRequest == [kind |-> "none", step |-> "idle", chat |-> NoChat, message |-> NoMessage]
NoRefresh == [step |-> "idle", rooms |-> {}]
LoadsOfSteps == [step : {"asked", "answered", "marking"}, chat : Chats,
                 page : SUBSET Messages, cancelled : BOOLEAN]
Current == {load \in loads : ~load.cancelled}

ClientTypeOK ==
  /\ sent \in [Messages -> {"none", "sent", "deleted"}]
  /\ joined \subseteq Chats /\ group \subseteq joined
  /\ socket \in {"connecting", "open", "closed"}
  /\ socket # "open" => group = {} /\ inbox = <<>> /\ outbox = <<>>
  /\ \A i \in DOMAIN outbox : outbox[i] \in [type : {"subscribe", "unsubscribe"}, chat : Chats]
  /\ \A i \in DOMAIN inbox : inbox[i] \in [type : {"upsert", "remove"}, about : Messages]
                                            \union [type : {"left"}, about : Chats]
  /\ active \in Chats \union {NoChat}
  /\ loads \subseteq LoadsOfSteps /\ Cardinality(loads) <= MaxLoads
  /\ Cardinality(Current) <= 1 /\ \A load \in Current : load.chat = active
  /\ loading \in BOOLEAN /\ more \in BOOLEAN
  /\ view \subseteq Messages \union Chats
  /\ request \in [kind : {"none", "save", "delete", "older"}, step : {"idle", "asked", "answered"},
                  chat : Chats \union {NoChat}, message : Messages \union {NoMessage}]
  /\ refresh \in [step : {"idle", "asked", "answered"}, rooms : SUBSET Chats]
  /\ acts \in 0 .. MaxActs
  /\ stray \in BOOLEAN /\ missed \in BOOLEAN

NewLoad(c) == [step |-> "asked", chat |-> c, page |-> {}, cancelled |-> FALSE]

\* The first refreshShell has just chosen a chat: its effects have started the
\* load and created the socket.
ClientInit ==
  /\ sent = [m \in Messages |-> "none"] /\ joined = Chats /\ group = {}
  /\ socket = "connecting" /\ outbox = <<>> /\ inbox = <<>>
  /\ active \in Chats /\ loads = {NewLoad(active)}
  /\ loading = TRUE /\ view = {} /\ more = FALSE
  /\ request = NoRequest /\ refresh = NoRefresh /\ acts = 0
  /\ stray = FALSE /\ missed = FALSE

-----------------------------------------------------------------------------
(* setActiveChat and the effects of its commit.                            *)

Cancelled == {[load EXCEPT !.cancelled = TRUE] : load \in loads}

Commands(old, new) ==
  (IF old = NoChat THEN <<>> ELSE << [type |-> "unsubscribe", chat |-> old] >>)
    \o (IF new = NoChat THEN <<>> ELSE << [type |-> "subscribe", chat |-> new] >>)

\* The effect that runs loadChat; without a chat the list is emptied, and the
\* flag of a superseded load stays.
\* Variant: the clean-up function of the effect is missing.
LoadEffectKeeping(c) ==
  IF c = NoChat
  THEN /\ view' = {} /\ more' = FALSE /\ stray' = FALSE /\ missed' = FALSE
       /\ UNCHANGED <<loads, loading>>
  ELSE /\ Cardinality(loads) < MaxLoads
       /\ loads' = loads \union {NewLoad(c)} /\ loading' = TRUE
       /\ UNCHANGED <<view, more, history>>

LoadEffect(c) ==
  IF c = NoChat
  THEN /\ loads' = Cancelled /\ view' = {} /\ more' = FALSE
       /\ stray' = FALSE /\ missed' = FALSE
       /\ UNCHANGED loading
  ELSE /\ Cardinality(Cancelled) < MaxLoads
       /\ loads' = Cancelled \union {NewLoad(c)} /\ loading' = TRUE
       /\ UNCHANGED <<view, more, history>>

\* While the socket is not open the commands are not written.
SetActive(c) ==
  /\ active' = c
  /\ outbox' = IF socket = "open" THEN outbox \o Commands(active, c) ELSE outbox
  /\ LoadEffect(c)

Select(c) ==
  /\ acts < MaxActs /\ acts' = acts + 1
  /\ Len(outbox) <= MaxOutbox
  /\ c # active /\ SetActive(c)
  /\ UNCHANGED <<server, socket, inbox, request, refresh>>

-----------------------------------------------------------------------------
(* The socket.                                                             *)

OpenSocket ==
  /\ socket = "connecting" /\ socket' = "open"
  /\ outbox' = Commands(NoChat, active)
  /\ UNCHANGED <<server, inbox, active, loads, list, request, refresh, acts, history>>

\* Nothing opens it again while the profile stays the same.
CloseSocket ==
  /\ socket = "open" /\ socket' = "closed"
  /\ inbox' = <<>> /\ outbox' = <<>> /\ group' = {}
  /\ UNCHANGED <<sent, joined, active, loads, list, request, refresh, acts, history>>

\* The consumer handles a command; access is looked at again.
Command ==
  LET command == Head(outbox)
  IN  /\ outbox # <<>> /\ outbox' = Tail(outbox)
      /\ group' = IF command.type = "unsubscribe" THEN group \ {command.chat}
                  ELSE group \union ({command.chat} \intersect joined)
      /\ UNCHANGED <<sent, joined, socket, inbox, active, loads, list, request, refresh,
                     acts, history>>

\* An event reaches the connections in the group of its chat.
Announce(type, m) ==
  inbox' = IF HomeOf[m] \in group THEN Append(inbox, [type |-> type, about |-> m]) ELSE inbox

\* Whether the client can learn of a change to the chat of m: from the page
\* still to be read, or from an event that finds the page already loaded.
Covered(m) ==
  \/ HomeOf[m] # active
  \/ \E load \in Current : load.step = "asked"
  \/ HomeOf[m] \in group /\ \A load \in Current : load.step # "answered"

Change(m, state, type) ==
  /\ sent' = [sent EXCEPT ![m] = state]
  /\ Announce(type, m)
  /\ missed' = (missed \/ ~Covered(m))

\* Someone else posts or deletes a message.
Post(m) ==
  /\ sent[m] = "none" /\ Change(m, "sent", "upsert")
  /\ UNCHANGED <<joined, group, socket, outbox, active, loads, list, request, refresh,
                 acts, stray>>

Erase(m) ==
  /\ sent[m] = "sent" /\ Change(m, "deleted", "remove")
  /\ UNCHANGED <<joined, group, socket, outbox, active, loads, list, request, refresh,
                 acts, stray>>

\* The user leaves a chat or is removed from it; the event comes over the
\* user's own group.
Lose(c) ==
  /\ c \in joined /\ joined' = joined \ {c} /\ group' = group \ {c}
  /\ inbox' = IF socket = "open" THEN Append(inbox, [type |-> "left", about |-> c]) ELSE inbox
  /\ UNCHANGED <<sent, socket, outbox, active, loads, list, request, refresh, acts, history>>

\* A deletion announced while the connection was out of the group: the event
\* at the head is older, and no other will take the message off the list.
Outdated(m) ==
  /\ HomeOf[m] = active /\ sent[m] = "deleted"
  /\ \A i \in DOMAIN inbox : inbox[i] # [type |-> "remove", about |-> m]

\* message.created and message.updated
DeliverUpsert ==
  LET event == Head(inbox)
  IN  /\ inbox # <<>> /\ event.type = "upsert" /\ inbox' = Tail(inbox)
      /\ view' = IF HomeOf[event.about] = active THEN view \union {event.about} ELSE view
      /\ stray' = (stray \/ Outdated(event.about))
      /\ UNCHANGED <<server, socket, outbox, active, loads, loading, more, request, refresh,
                     acts, missed>>

DeliverRemove ==
  LET event == Head(inbox)
  IN  /\ inbox # <<>> /\ event.type = "remove" /\ inbox' = Tail(inbox)
      /\ view' = IF HomeOf[event.about] = active THEN view \ {event.about} ELSE view
      /\ UNCHANGED <<server, socket, outbox, active, loads, loading, more, request, refresh,
                     acts, history>>

\* room.membership.updated; one refresh at a time is modelled.
DeliverLeft ==
  LET event == Head(inbox)
  IN  /\ inbox # <<>> /\ event.type = "left" /\ inbox' = Tail(inbox)
      /\ refresh.step = "idle" /\ refresh' = [NoRefresh EXCEPT !.step = "asked"]
      /\ IF event.about = active THEN SetActive(NoChat)
         ELSE UNCHANGED <<active, outbox, loads, list, history>>
      /\ UNCHANGED <<server, socket, request, acts>>

Deliver == DeliverUpsert \/ DeliverRemove \/ DeliverLeft

-----------------------------------------------------------------------------
(* loadChat.                                                               *)

Advance(load, next) == loads' = (loads \ {load}) \union next

\* The server reads the page.
Answer(load) ==
  /\ load.step = "asked" /\ load.chat \in joined
  /\ Advance(load, {[load EXCEPT !.step = "answered", !.page = Present(load.chat)]})
  /\ missed' = (missed /\ load.cancelled)
  /\ UNCHANGED <<server, wire, active, list, request, refresh, acts, stray>>

\* Variant: an answer is used although the effect has been cleaned up.
ArriveCancelled(load) ==
  /\ load.step = "answered"
  /\ view' = load.page /\ more' = TRUE /\ stray' = FALSE
  /\ Advance(load, {[load EXCEPT !.step = "marking", !.page = {}]})
  /\ UNCHANGED <<server, wire, active, loading, request, refresh, acts, missed>>

\* The page replaces the list, and the chat is marked read.
Arrive(load) ==
  /\ load.step = "answered"
  /\ IF load.cancelled
     THEN Advance(load, {}) /\ UNCHANGED <<view, more, stray>>
     ELSE /\ view' = load.page /\ more' = TRUE /\ stray' = FALSE
          /\ Advance(load, {[load EXCEPT !.step = "marking", !.page = {}]})
  /\ UNCHANGED <<server, wire, active, loading, request, refresh, acts, missed>>

LoadMarked(load) ==
  /\ load.step = "marking"
  /\ Advance(load, {})
  /\ loading' = (loading /\ load.cancelled)
  /\ UNCHANGED <<server, wire, active, view, more, request, refresh, acts, history>>

\* Variant: the flag is cleared at the end of the try block.
FailLoading(load) ==
  /\ load.step \in {"asked", "answered"}
  /\ Advance(load, {})
  /\ stray' = (stray \/ ~load.cancelled)
  /\ UNCHANGED <<server, wire, active, view, more, loading, request, refresh, acts, missed>>

\* A request of the load fails: the list of the previous chat stays.
Fail(load) ==
  /\ load.step \in {"asked", "answered"}
  /\ Advance(load, {})
  /\ loading' = (loading /\ load.cancelled)
  /\ stray' = (stray \/ ~load.cancelled)
  /\ UNCHANGED <<server, wire, active, view, more, request, refresh, acts, missed>>

LoadStep == \E load \in loads : Answer(load) \/ Arrive(load) \/ LoadMarked(load) \/ Fail(load)

-----------------------------------------------------------------------------
(* The user's own requests: send or edit, delete, load older messages.     *)

Ask(kind, m) ==
  /\ acts < MaxActs /\ acts' = acts + 1
  /\ request = NoRequest /\ active # NoChat
  /\ \/ kind = "save" /\ m \in Of(active) /\ (sent[m] = "none" \/ m \in view)
     \/ kind = "delete" /\ m \in view \intersect Of(active)
     \/ kind = "older" /\ m = NoMessage /\ more
  /\ request' = [kind |-> kind, step |-> "asked", chat |-> active, message |-> m]
  /\ UNCHANGED <<server, wire, active, loads, list, refresh, history>>

Answered == request' = [request EXCEPT !.step = "answered"]

Save ==
  LET m == request.message
  IN  /\ request.step = "asked" /\ request.kind = "save"
      /\ request.chat \in joined /\ sent[m] # "deleted"
      /\ IF sent[m] = "none" THEN Change(m, "sent", "upsert")
         ELSE Announce("upsert", m) /\ UNCHANGED <<sent, missed>>
      /\ Answered
      /\ UNCHANGED <<joined, group, socket, outbox, active, loads, list, refresh, acts, stray>>

Remove ==
  LET m == request.message
  IN  /\ request.step = "asked" /\ request.kind = "delete"
      /\ request.chat \in joined /\ sent[m] = "sent"
      /\ Change(m, "deleted", "remove") /\ Answered
      /\ UNCHANGED <<joined, group, socket, outbox, active, loads, list, refresh, acts, stray>>

ReadOlder ==
  /\ request.step = "asked" /\ request.kind = "older" /\ request.chat \in joined
  /\ Answered
  /\ UNCHANGED <<server, wire, active, loads, list, refresh, acts, history>>

\* An error is shown and nothing else happens.
Refuse ==
  /\ request.step = "asked" /\ request' = NoRequest
  /\ UNCHANGED <<server, wire, active, loads, list, refresh, acts, history>>

\* No handler compares the chat it asked for with the one now active.
SaveArrives ==
  LET m == request.message
  IN  /\ request.step = "answered" /\ request.kind = "save" /\ request' = NoRequest
      /\ view' = view \union {m}
      /\ stray' = (stray \/ request.chat # active \/ sent[m] = "deleted")
      /\ UNCHANGED <<server, wire, active, loads, loading, more, refresh, acts, missed>>

DeleteArrives ==
  /\ request.step = "answered" /\ request.kind = "delete" /\ request' = NoRequest
  /\ view' = view \ {request.message}
  /\ UNCHANGED <<server, wire, active, loads, loading, more, refresh, acts, history>>

OlderArrives ==
  /\ request.step = "answered" /\ request.kind = "older" /\ request' = NoRequest
  /\ view' = view \union {request.chat} /\ more' = FALSE
  /\ stray' = (stray \/ request.chat # active)
  /\ UNCHANGED <<server, wire, active, loads, loading, refresh, acts, missed>>

-----------------------------------------------------------------------------
(* refreshShell.                                                           *)

\* The lists arrive together; a request of them that fails is let go.
RefreshAnswer ==
  /\ refresh.step = "asked"
  /\ refresh' \in {[step |-> "answered", rooms |-> joined], NoRefresh}
  /\ UNCHANGED <<server, wire, active, loads, list, request, acts, history>>

\* A selection that is missing from the answer is replaced.
RefreshArrive ==
  /\ refresh.step = "answered" /\ refresh' = NoRefresh
  /\ \/ active \in refresh.rooms /\ UNCHANGED <<active, outbox, loads, list, history>>
     \/ /\ active \notin refresh.rooms
        /\ \/ \E c \in refresh.rooms : SetActive(c)
           \/ refresh.rooms = {} /\ active # NoChat /\ SetActive(NoChat)
           \/ refresh.rooms = {} /\ active = NoChat
                /\ UNCHANGED <<active, outbox, loads, list, history>>
  /\ UNCHANGED <<server, socket, inbox, request, acts>>

-----------------------------------------------------------------------------
ClientNext ==
  \/ \E c \in Chats : Select(c) \/ Lose(c)
  \/ OpenSocket \/ CloseSocket \/ Command \/ Deliver
  \/ \E m \in Messages : Post(m) \/ Erase(m)
  \/ LoadStep
  \/ \E kind \in {"save", "delete", "older"}, m \in Messages \union {NoMessage} : Ask(kind, m)
  \/ Save \/ Remove \/ ReadOlder \/ Refuse
  \/ SaveArrives \/ DeleteArrives \/ OlderArrives
  \/ RefreshAnswer \/ RefreshArrive

ClientSpec == ClientInit /\ [][ClientNext]_clientVars

\* A browser ends every request: a load and a refresh are answered or fail.
FairClientSpec ==
  /\ ClientSpec
  /\ WF_clientVars(LoadStep) /\ WF_clientVars(RefreshAnswer) /\ WF_clientVars(RefreshArrive)
-----------------------------------------------------------------------------
(* Properties.                                                             *)

Settled == inbox = <<>> /\ outbox = <<>> /\ Current = {} /\ request = NoRequest

(* The message panel of App.tsx: whatever the user selects and however     *)
(* late answers and events are, once loading has ended the list holds      *)
(* messages of the active chat only, and when nothing is under way all of  *)
(* them - unless the load failed, an answer outlived its chat or its       *)
(* message, or the chat changed between the page and the first event.      *)
ListIsOfActiveChat ==
  /\ ~loading /\ ~stray => view \subseteq Of(active) \union {active}
  /\ Settled /\ socket = "open" /\ ~stray /\ ~missed =>
       view \intersect Messages = Present(active)

(* The conversation does not stay in "Loading conversation...": the load   *)
(* of the chat that is active in the end clears the flag, and only it.     *)
LoadingEnds == <>[](active = NoChat \/ ~loading)
=============================================================================
