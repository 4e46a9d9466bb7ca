------------------------ MODULE SocialDialogsProofs ------------------------
(***************************************************************************)
(* Proofs about SocialDialogs for any friend requests, any finite number   *)
(* of requests in flight and any bound on the messages.                    *)
(***************************************************************************)
EXTENDS SocialDialogs, FiniteSetTheorems, TLAPS

-----------------------------------------------------------------------------
(* The inductive invariant.                                                *)

Request == [stage : Stages, actor : Users \union {NoUser},
            row : FriendRequests \union {NoRequest}, found : BOOLEAN, open : BOOLEAN]

\* The messages stay below their bound because every message under way has a
\* place, and none is under way without a dialog.
MessagesInv ==
  /\ messages + InFlight("messaging") <= MaxMessages
  /\ \A s \in Slots : req[s].stage = "messaging" => dialog # "absent"

\* What the locks of accept_friend_request leave alone.
AcceptInv ==
  \A s \in Slots : req[s].stage = "accepting" =>
    /\ req[s].row \in FriendRequests /\ request[req[s].row].status = "pending"
    /\ \A t \in Slots : req[t].stage = "accepting" => t = s

\* Pending requests have a sender, and one sender has one.
PendingInv ==
  /\ \A q \in FriendRequests : request[q].status = "pending" => request[q].from \in Users
  /\ \A p, q \in FriendRequests :
       request[q].status = "pending" /\ request[p] = request[q] => p = q

\* Until two requests overlap, what a request in flight has read is still so.
Current(r) ==
  /\ r.stage = "befriending" => MayBefriend(r.actor)
  /\ r.stage = "accepting" => r.found = friends /\ r.open = ~Banned
  /\ r.stage = "banning" => r.found = friends
  /\ r.stage = "unbanning" => ban[r.actor] = "active" /\ r.open = Lifted(r.actor)
  /\ r.stage = "opening" => friends /\ ~Banned
  /\ r.stage = "messaging" => MayMessage
  /\ r.stage = "unfriending" => friends

SerialInv ==
  ~overlapped =>
    /\ \A s, t \in Slots : req[s].stage # "idle" /\ req[t].stage # "idle" => s = t
    /\ \A s \in Slots : Current(req[s])
    /\ \A p, q \in FriendRequests :
         request[p].status = "pending" =>
           ~friends /\ (request[q].status = "pending" => p = q)
    /\ dialog # "absent" => (dialog = "open" <=> friends /\ ~Banned)

IInv == TypeOK /\ MessagesInv /\ AcceptInv /\ PendingInv /\ SerialInv

-----------------------------------------------------------------------------
(* Requests begin and end.                                                 *)

LEMMA OtherUser ==
  ASSUME NEW u \in Users
  PROVE  Other(u) \in Users /\ Other(u) # u /\ \A v \in Users : v = u \/ v = Other(u)
<1>1. PICK a \in Users, b \in Users : a # b /\ Users = {a, b}
  BY PairAssumption
<1>2. \E v \in Users : v # u
  BY <1>1
<1>3. Other(u) \in Users /\ Other(u) # u
  BY <1>2 DEF Other
<1>. QED  BY <1>1, <1>3

LEMMA IdleTyped == Idle \in Request /\ Idle.stage = "idle"
BY DEF Idle, Request, Stages

LEMMA InFlightCounts == ASSUME NEW stage PROVE InFlight(stage) \in Nat
<1>1. {s \in Slots : InStage(s, {stage})} \subseteq Slots
  OBVIOUS
<1>. QED  BY <1>1, SlotsAssumption, FS_Subset, FS_CardinalityType DEF InFlight

\* The request in one slot changes; the messages under way with it.
LEMMA InFlightChanges ==
  ASSUME NEW s \in Slots, NEW r \in Request, req \in [Slots -> Request],
         req' = [req EXCEPT ![s] = r]
  PROVE  LET C == InFlight("messaging")
         IN  InFlight("messaging")' =
               CASE r.stage = "messaging" /\ req[s].stage # "messaging" -> C + 1
                 [] r.stage # "messaging" /\ req[s].stage = "messaging" -> C - 1
                 [] OTHER -> C
<1>. DEFINE M == {q \in Slots : req[q].stage = "messaging"}
            N == {q \in Slots : req'[q].stage = "messaging"}
<1>1. InFlight("messaging") = Cardinality(M) /\ InFlight("messaging")' = Cardinality(N)
  BY DEF InFlight, InStage
<1>2. IsFiniteSet(M)
  BY SlotsAssumption, FS_Subset
<1>3. CASE r.stage = "messaging"
  <2>1. N = M \union {s}
    BY <1>3
  <2>2. s \in M <=> req[s].stage = "messaging"
    OBVIOUS
  <2>3. Cardinality(N) = IF s \in M THEN Cardinality(M) ELSE Cardinality(M) + 1
    BY <1>2, <2>1, FS_AddElement
  <2>. HIDE DEF M, N
  <2>. QED  BY <1>1, <1>3, <2>2, <2>3
<1>4. CASE r.stage # "messaging"
  <2>1. N = M \ {s}
    BY <1>4
  <2>2. s \in M <=> req[s].stage = "messaging"
    OBVIOUS
  <2>3. Cardinality(N) = IF s \in M THEN Cardinality(M) - 1 ELSE Cardinality(M)
    BY <1>2, <2>1, FS_RemoveElement
  <2>. HIDE DEF M, N
  <2>. QED  BY <1>1, <1>4, <2>2, <2>3
<1>. QED  BY <1>3, <1>4

\* A request passes its checks.
LEMMA BeginKeeps ==
  ASSUME IInv, NEW s \in Slots, NEW stage \in Stages \ {"idle"}, NEW u \in Users,
         NEW row \in FriendRequests \union {NoRequest},
         NEW found \in BOOLEAN, NEW open \in BOOLEAN,
         Begin(s, stage, u, row, found, open),
         Current([stage |-> stage, actor |-> u, row |-> row, found |-> found, open |-> open]),
         stage = "accepting" =>
           row \in FriendRequests /\ request[row].status = "pending" /\ ~UsersLocked,
         stage = "messaging" =>
           dialog # "absent" /\ messages + InFlight("messaging") < MaxMessages
  PROVE  IInv'
<1>. DEFINE r == [stage |-> stage, actor |-> u, row |-> row, found |-> found, open |-> open]
<1>1. r \in Request /\ r.stage = stage /\ r.actor = u /\ r.row = row
  BY DEF Request
<1>2. UNCHANGED <<friends, request, ban, dialog, messages>>
  BY DEF Begin, database
<1>3. req[s].stage = "idle" /\ req \in [Slots -> Request]
  BY DEF Begin, IInv, TypeOK, Request
<1>4. req' = [req EXCEPT ![s] = r]
  BY DEF Begin
<1>5. overlapped' = (overlapped \/ \E t \in Slots : req[t].stage # "idle")
  BY DEF Begin
<1>6. Current(r)
  OBVIOUS
<1>. HIDE DEF r
<1>7. \A q \in Slots : req'[q] = IF q = s THEN r ELSE req[q]
  BY <1>3, <1>4
<1>8. TypeOK'
  <2>1. req' \in [Slots -> Request] /\ overlapped' \in BOOLEAN
    BY <1>1, <1>3, <1>4, <1>5 DEF IInv, TypeOK
  <2>2. \A q \in Slots : req'[q].stage # "idle" => req'[q].actor \in Users
    BY <1>1, <1>7 DEF IInv, TypeOK
  <2>. QED  BY <1>2, <2>1, <2>2 DEF IInv, TypeOK, Request
<1>9. MessagesInv'
  <2>1. InFlight("messaging")' =
          IF stage = "messaging" THEN InFlight("messaging") + 1 ELSE InFlight("messaging")
    BY <1>1, <1>3, <1>4, InFlightChanges
  <2>2. messages' + InFlight("messaging")' <= MaxMessages
    BY <1>2, <2>1, InFlightCounts, BoundAssumption DEF IInv, TypeOK, MessagesInv
  <2>3. \A q \in Slots : req'[q].stage = "messaging" => dialog' # "absent"
    BY <1>1, <1>2, <1>7 DEF IInv, MessagesInv
  <2>. QED  BY <2>2, <2>3 DEF MessagesInv
<1>10. AcceptInv'
  BY <1>1, <1>2, <1>7 DEF IInv, AcceptInv, UsersLocked, InStage
<1>11. PendingInv'
  BY <1>2 DEF IInv, PendingInv
<1>12. SerialInv'
  <2>1. SUFFICES ASSUME ~overlapped' PROVE SerialInv'
    BY DEF SerialInv
  <2>2. ~overlapped /\ \A t \in Slots : req[t].stage = "idle"
    BY <1>5, <2>1
  <2>3. \A t \in Slots : Current(req[t])
    BY <2>2 DEF IInv, SerialInv
  <2>4. \A t \in Slots : Current(req'[t])
    BY <1>6, <1>7, <2>3
  <2>5. (\A t \in Slots : Current(req[t]))'
    BY <1>2, <2>4 DEF Current, MayBefriend, MayMessage, Banned, Pending, Lifted
  <2>6. \A t, v \in Slots : req'[t].stage # "idle" /\ req'[v].stage # "idle" => t = v
    BY <1>7, <2>2
  <2>. QED  BY <1>2, <2>2, <2>5, <2>6 DEF IInv, SerialInv, Banned
<1>. QED  BY <1>8, <1>9, <1>10, <1>11, <1>12 DEF IInv

\* What the rows look like until two requests overlap.
SerialRows ==
  /\ \A p, q \in FriendRequests :
       request[p].status = "pending" =>
         ~friends /\ (request[q].status = "pending" => p = q)
  /\ dialog # "absent" => (dialog = "open" <=> friends /\ ~Banned)

RequestRows == [FriendRequests -> [from : Users \union {NoUser},
                                   status : {"none", "pending", "accepted", "rejected"}]]

\* A request commits.
LEMMA EndKeeps ==
  ASSUME IInv, NEW s \in Slots, NEW stage \in Stages \ {"idle"}, End(s, stage),
         friends' \in BOOLEAN, request' \in RequestRows,
         ban' \in [Users -> {"none", "active", "removed"}],
         dialog' \in {"absent", "open", "frozen"}, dialog' = "absent" => dialog = "absent",
         messages' = IF stage = "messaging" THEN messages + 1 ELSE messages,
         \A t \in Slots \ {s} : req[t].stage = "accepting" =>
            request'[req[t].row].status = "pending",
         PendingInv',
         ~overlapped => SerialRows'
  PROVE  IInv'
<1>1. /\ req[s].stage = stage /\ req' = [req EXCEPT ![s] = Idle]
      /\ overlapped' = overlapped
      /\ req \in [Slots -> Request]
  BY DEF End, IInv, TypeOK, Request
<1>2. \A q \in Slots : req'[q] = IF q = s THEN Idle ELSE req[q]
  BY <1>1
<1>3. InFlight("messaging")' =
        IF stage = "messaging" THEN InFlight("messaging") - 1 ELSE InFlight("messaging")
  BY <1>1, IdleTyped, InFlightChanges
<1>4. messages' + InFlight("messaging")' <= MaxMessages /\ messages' \in 0 .. MaxMessages
  <2>1. messages + InFlight("messaging") <= MaxMessages /\ messages \in Nat
    BY DEF IInv, TypeOK, MessagesInv
  <2>2. InFlight("messaging")' \in Nat
    <3>1. {q \in Slots : InStage(q, {"messaging"})'} \subseteq Slots
      OBVIOUS
    <3>. QED  BY <3>1, SlotsAssumption, FS_Subset, FS_CardinalityType DEF InFlight
  <2>. QED  BY <1>3, <2>1, <2>2, InFlightCounts, BoundAssumption
<1>5. TypeOK'
  <2>1. req' \in [Slots -> Request] /\ overlapped' \in BOOLEAN
    BY <1>1, IdleTyped DEF IInv, TypeOK
  <2>2. \A q \in Slots : req'[q].stage # "idle" => req'[q].actor \in Users
    BY <1>2, IdleTyped DEF IInv, TypeOK
  <2>3. dialog' = "absent" => messages' = 0
    BY <1>1 DEF IInv, TypeOK, MessagesInv
  <2>. QED  BY <1>4, <2>1, <2>2, <2>3 DEF TypeOK, Request, RequestRows
<1>6. MessagesInv'
  BY <1>2, <1>4, IdleTyped DEF IInv, MessagesInv
<1>7. AcceptInv'
  BY <1>2, IdleTyped DEF IInv, AcceptInv
<1>8. SerialInv'
  <2>1. SUFFICES ASSUME ~overlapped PROVE SerialInv'
    BY <1>1 DEF SerialInv
  <2>2. \A q \in Slots : req'[q].stage = "idle"
    BY <1>1, <1>2, <2>1, IdleTyped DEF IInv, SerialInv
  <2>3. (\A q \in Slots : Current(req[q]))'
    BY <2>2 DEF Current
  <2>. QED  BY <2>1, <2>2, <2>3 DEF SerialInv, SerialRows
<1>. QED  BY <1>5, <1>6, <1>7, <1>8 DEF IInv

-----------------------------------------------------------------------------
(* Friend requests.                                                        *)

LEMMA CreateRequestStartKeeps ==
  ASSUME IInv, NEW s \in Slots, NEW u \in Users, CreateRequestStart(s, u) PROVE IInv'
<1>1. "befriending" \in Stages \ {"idle"}
  BY DEF Stages
<1>. QED  BY <1>1, BeginKeeps DEF CreateRequestStart, Current

LEMMA CreateRequestCommitKeeps ==
  ASSUME IInv, NEW s \in Slots, CreateRequestCommit(s) PROVE IInv'
<1>. DEFINE u == req[s].actor
<1>1. u \in Users /\ End(s, "befriending") /\ "befriending" \in Stages \ {"idle"}
  BY DEF CreateRequestCommit, End, Stages, IInv, TypeOK
<1>2. \A t \in Slots : req[t].stage # "accepting"
  BY DEF CreateRequestCommit, UsersLocked, InStage
<1>3. ~overlapped => MayBefriend(u) /\ SerialRows
  BY <1>1 DEF IInv, SerialInv, SerialRows, Current, End
<1>. HIDE DEF u
<1>4. CASE UNCHANGED database
  <2>1. UNCHANGED <<friends, request, ban, dialog, messages>>
    BY <1>4 DEF database
  <2>2. PendingInv' /\ (~overlapped => SerialRows')
    BY <1>3, <2>1 DEF IInv, PendingInv, SerialRows, Banned
  <2>. QED  BY <1>1, <1>2, <2>1, <2>2, EndKeeps DEF IInv, TypeOK, RequestRows
<1>5. ASSUME OnePendingInDirection(u), NEW q \in Unused,
             request' = [request EXCEPT ![q] = [from |-> u, status |-> "pending"]],
             UNCHANGED <<friends, ban, dialog, messages>>
      PROVE  IInv'
  <2>1. request' \in RequestRows
    BY <1>1, <1>5 DEF IInv, TypeOK, RequestRows, Unused
  <2>2. /\ q \in FriendRequests
        /\ \A p \in FriendRequests :
             request'[p] = IF p = q THEN [from |-> u, status |-> "pending"] ELSE request[p]
    BY <1>5 DEF IInv, TypeOK, Unused
  <2>3. \A p \in FriendRequests : request[p] # [from |-> u, status |-> "pending"]
    BY <1>5 DEF OnePendingInDirection, Pending
  <2>4. PendingInv'
    BY <1>1, <2>2, <2>3 DEF IInv, PendingInv
  <2>5. ~overlapped => SerialRows'
    <3>1. SUFFICES ASSUME ~overlapped PROVE SerialRows'
      OBVIOUS
    <3>2. ~friends /\ \A p \in FriendRequests : request[p].status # "pending"
      <4>1. ASSUME NEW p \in FriendRequests, request[p].status = "pending" PROVE FALSE
        <5>1. request[p].from \in Users
          BY <4>1 DEF IInv, PendingInv
        <5>2. request[p] = [from |-> request[p].from, status |-> "pending"]
          BY <4>1 DEF IInv, TypeOK
        <5>. QED  BY <1>3, <3>1, <5>1, <5>2 DEF MayBefriend, Pending
      <4>. QED  BY <1>3, <3>1, <4>1 DEF MayBefriend
    <3>. QED  BY <1>3, <1>5, <2>2, <3>1, <3>2 DEF SerialRows, Banned
  <2>. QED  BY <1>1, <1>2, <1>5, <2>1, <2>4, <2>5, EndKeeps DEF IInv, TypeOK
<1>. QED  BY <1>4, <1>5 DEF CreateRequestCommit, u

LEMMA AcceptStartKeeps ==
  ASSUME IInv, NEW s \in Slots, NEW q \in FriendRequests, NEW u \in Users, AcceptStart(s, q, u)
  PROVE  IInv'
<1>1. "accepting" \in Stages \ {"idle"}
  BY DEF Stages
<1>2. friends \in BOOLEAN /\ (~Banned) \in BOOLEAN
  BY DEF IInv, TypeOK
<1>3. request[q].status = "pending" /\ ~UsersLocked
  BY DEF AcceptStart, MayAccept, Pending
<1>. QED  BY <1>1, <1>2, <1>3, BeginKeeps DEF AcceptStart, Current

LEMMA AcceptCommitKeeps == ASSUME IInv, NEW s \in Slots, AcceptCommit(s) PROVE IInv'
<1>1. /\ End(s, "accepting") /\ req[s].stage = "accepting"
      /\ "accepting" \in Stages \ {"idle"}
      /\ UNCHANGED <<ban, messages>>
  BY DEF AcceptCommit, End, Stages
<1>2. /\ req[s].row \in FriendRequests /\ request[req[s].row].status = "pending"
      /\ \A t \in Slots \ {s} : req[t].stage # "accepting"
  BY <1>1 DEF IInv, AcceptInv
<1>3. \A p \in FriendRequests :
        /\ request'[p].from = request[p].from
        /\ request'[p].status = IF p = req[s].row THEN "accepted" ELSE request[p].status
        /\ p # req[s].row => request'[p] = request[p]
  BY <1>2 DEF AcceptCommit, IInv, TypeOK
<1>4. /\ friends' \in BOOLEAN /\ request' \in RequestRows
      /\ dialog' \in {"absent", "open", "frozen"} /\ (dialog' = "absent" => dialog = "absent")
  BY <1>2 DEF AcceptCommit, DialogSet, IInv, TypeOK, RequestRows
<1>5. PendingInv'
  BY <1>3 DEF IInv, PendingInv
<1>6. ~overlapped => SerialRows'
  <2>1. SUFFICES ASSUME ~overlapped PROVE SerialRows'
    OBVIOUS
  <2>2. req[s].found = friends /\ req[s].open = ~Banned
    BY <1>1, <2>1 DEF IInv, SerialInv, Current
  <2>3. friends' = TRUE
    BY <2>2 DEF AcceptCommit, IInv, TypeOK
  <2>4. \A p \in FriendRequests : request'[p].status # "pending"
    BY <1>2, <1>3, <2>1 DEF IInv, SerialInv
  <2>5. dialog' # "absent" => (dialog' = "open" <=> ~Banned)
    BY <2>2 DEF AcceptCommit, DialogSet
  <2>. QED  BY <1>1, <2>3, <2>4, <2>5 DEF SerialRows, Banned
<1>. QED  BY <1>1, <1>2, <1>4, <1>5, <1>6, EndKeeps DEF IInv, TypeOK

LEMMA RejectKeeps ==
  ASSUME IInv, NEW q \in FriendRequests, NEW u \in Users, Reject(q, u) PROVE IInv'
<1>1. /\ UNCHANGED <<friends, ban, dialog, messages, req, overlapped>>
      /\ ~RequestLocked(q)
  BY DEF Reject
<1>2. \A p \in FriendRequests :
        /\ request'[p].status = IF p = q THEN "rejected" ELSE request[p].status
        /\ p # q => request'[p] = request[p]
  BY DEF Reject, IInv, TypeOK
<1>3. TypeOK'
  BY <1>1 DEF Reject, IInv, TypeOK
<1>4. MessagesInv'
  BY <1>1 DEF IInv, MessagesInv, InFlight, InStage
<1>5. AcceptInv'
  BY <1>1, <1>2 DEF IInv, AcceptInv, RequestLocked, InStage
<1>6. PendingInv'
  BY <1>2 DEF IInv, PendingInv
<1>7. SerialInv'
  <2>1. SUFFICES ASSUME ~overlapped PROVE SerialInv'
    BY <1>1 DEF SerialInv
  <2>2. \A t \in Slots : Current(req[t])
    BY <2>1 DEF IInv, SerialInv
  <2>3. ASSUME NEW v, MayBefriend(v) PROVE MayBefriend(v)'
    <3>1. ASSUME NEW p \in FriendRequests, NEW w \in Users PROVE ~Pending(p, w)'
      <4>1. CASE p = q
        <5>1. request'[p].status = "rejected"
          BY <1>2, <4>1
        <5>. QED  BY <5>1 DEF Pending
      <4>2. CASE p # q
        BY <1>2, <2>3, <4>2 DEF MayBefriend, Pending
      <4>. QED  BY <4>1, <4>2
    <3>. QED  BY <1>1, <2>3, <3>1 DEF MayBefriend, Banned
  <2>4. (\A t \in Slots : Current(req[t]))'
    BY <1>1, <2>2, <2>3 DEF Current, MayMessage, Banned, Lifted
  <2>. QED  BY <1>1, <1>2, <2>1, <2>4 DEF IInv, SerialInv, Banned
<1>. QED  BY <1>3, <1>4, <1>5, <1>6, <1>7 DEF IInv

-----------------------------------------------------------------------------
(* Ending a friendship, bans, and the dialog.                              *)

LEMMA StartKeeps ==
  ASSUME IInv, NEW s \in Slots, NEW u \in Users,
         \/ RemoveFriendStart(s, u) \/ BanStart(s, u) \/ UnbanStart(s, u)
         \/ OpenDialogStart(s, u) \/ MessageStart(s, u)
  PROVE  IInv'
<1>1. {"unfriending", "banning", "unbanning", "opening", "messaging"} \subseteq Stages \ {"idle"}
  BY DEF Stages
<1>2. friends \in BOOLEAN /\ Lifted(u) \in BOOLEAN
  BY DEF IInv, TypeOK, Lifted
<1>3. CASE RemoveFriendStart(s, u)
  BY <1>1, <1>3, BeginKeeps DEF RemoveFriendStart, Current
<1>4. CASE BanStart(s, u)
  BY <1>1, <1>2, <1>4, BeginKeeps DEF BanStart, Current
<1>5. CASE UnbanStart(s, u)
  BY <1>1, <1>2, <1>5, BeginKeeps DEF UnbanStart, Current
<1>6. CASE OpenDialogStart(s, u)
  BY <1>1, <1>6, BeginKeeps DEF OpenDialogStart, Current
<1>7. CASE MessageStart(s, u)
  BY <1>1, <1>7, BeginKeeps DEF MessageStart, MayMessage, Current
<1>. QED  BY <1>3, <1>4, <1>5, <1>6, <1>7

\* A commit that leaves the friend requests alone.
LEMMA PairEndKeeps ==
  ASSUME IInv, NEW s \in Slots, NEW stage \in Stages \ {"idle"}, End(s, stage),
         UNCHANGED request, friends' \in BOOLEAN, friends' => friends,
         ban' \in [Users -> {"none", "active", "removed"}],
         dialog' \in {"absent", "open", "frozen"}, dialog' = "absent" => dialog = "absent",
         messages' = IF stage = "messaging" THEN messages + 1 ELSE messages,
         ~overlapped /\ dialog' # "absent" => (dialog' = "open" <=> friends' /\ ~Banned')
  PROVE  IInv'
<1>1. request' \in RequestRows
  BY DEF IInv, TypeOK, RequestRows
<1>2. \A t \in Slots \ {s} : req[t].stage = "accepting" => request'[req[t].row].status = "pending"
  BY DEF IInv, AcceptInv
<1>3. PendingInv'
  BY DEF IInv, PendingInv
<1>4. ~overlapped => SerialRows'
  BY DEF IInv, SerialInv, SerialRows
<1>. QED  BY <1>1, <1>2, <1>3, <1>4, EndKeeps

LEMMA RemoveFriendCommitKeeps ==
  ASSUME IInv, NEW s \in Slots, RemoveFriendCommit(s) PROVE IInv'
<1>1. "unfriending" \in Stages \ {"idle"}
  BY DEF Stages
<1>. QED  BY <1>1, PairEndKeeps DEF RemoveFriendCommit, DialogSet, IInv, TypeOK

LEMMA BanCommitKeeps == ASSUME IInv, NEW s \in Slots, BanCommit(s) PROVE IInv'
<1>. DEFINE u == req[s].actor
<1>1. u \in Users /\ End(s, "banning") /\ "banning" \in Stages \ {"idle"}
  BY DEF BanCommit, End, Stages, IInv, TypeOK
<1>. HIDE DEF u
<1>2. CASE UNCHANGED database
  <2>1. UNCHANGED <<friends, request, ban, dialog, messages>>
    BY <1>2 DEF database
  <2>2. ~overlapped /\ dialog' # "absent" => (dialog' = "open" <=> friends' /\ ~Banned')
    BY <2>1 DEF IInv, SerialInv, Banned
  <2>. QED  BY <1>1, <2>1, <2>2, PairEndKeeps DEF IInv, TypeOK
<1>3. ASSUME friends' = IF req[s].found THEN FALSE ELSE friends,
             ban' = [ban EXCEPT ![u] = "active"],
             dialog' = DialogSet(FALSE), UNCHANGED <<request, messages>>
      PROVE  IInv'
  <2>1. Banned'
    BY <1>1, <1>3 DEF IInv, TypeOK, Banned
  <2>2. ban' \in [Users -> {"none", "active", "removed"}] /\ friends' \in BOOLEAN
    BY <1>3 DEF IInv, TypeOK
  <2>. QED  BY <1>1, <1>3, <2>1, <2>2, PairEndKeeps DEF DialogSet, IInv, TypeOK
<1>. QED  BY <1>2, <1>3 DEF BanCommit, u

LEMMA UnbanCommitKeeps == ASSUME IInv, NEW s \in Slots, UnbanCommit(s) PROVE IInv'
<1>. DEFINE u == req[s].actor
<1>1. /\ u \in Users /\ End(s, "unbanning") /\ "unbanning" \in Stages \ {"idle"}
      /\ req[s].stage = "unbanning" /\ req[s].open \in BOOLEAN
  BY DEF UnbanCommit, End, Stages, IInv, TypeOK
<1>2. /\ ban' = [ban EXCEPT ![u] = "removed"] /\ dialog' = DialogSet(req[s].open)
      /\ UNCHANGED <<friends, request, messages>>
  BY DEF UnbanCommit
<1>3. ~overlapped => req[s].open = Lifted(u)
  BY <1>1 DEF IInv, SerialInv, Current
<1>. HIDE DEF u
<1>4. Banned' <=> ban[Other(u)] = "active"
  BY <1>1, <1>2, OtherUser DEF IInv, TypeOK, Banned
<1>5. ~overlapped /\ dialog' # "absent" => (dialog' = "open" <=> friends' /\ ~Banned')
  BY <1>2, <1>3, <1>4 DEF DialogSet, Lifted
<1>6. ban' \in [Users -> {"none", "active", "removed"}]
  BY <1>2 DEF IInv, TypeOK
<1>. QED  BY <1>1, <1>2, <1>5, <1>6, PairEndKeeps DEF DialogSet, IInv, TypeOK

LEMMA OpenDialogCommitKeeps ==
  ASSUME IInv, NEW s \in Slots, OpenDialogCommit(s) PROVE IInv'
<1>1. /\ End(s, "opening") /\ req[s].stage = "opening" /\ "opening" \in Stages \ {"idle"}
      /\ dialog' = IF dialog = "absent" THEN "open" ELSE dialog
      /\ UNCHANGED <<friends, request, ban, messages>>
  BY DEF OpenDialogCommit, End, Stages
<1>2. ~overlapped /\ dialog' # "absent" => (dialog' = "open" <=> friends' /\ ~Banned')
  BY <1>1 DEF IInv, SerialInv, Current, Banned
<1>. QED  BY <1>1, <1>2, PairEndKeeps DEF IInv, TypeOK

LEMMA MessageCommitKeeps ==
  ASSUME IInv, NEW s \in Slots, MessageCommit(s) PROVE IInv'
<1>1. /\ End(s, "messaging") /\ "messaging" \in Stages \ {"idle"}
      /\ UNCHANGED <<friends, request, ban, dialog>> /\ messages' = messages + 1
  BY DEF MessageCommit, Stages
<1>2. ~overlapped /\ dialog' # "absent" => (dialog' = "open" <=> friends' /\ ~Banned')
  BY <1>1 DEF IInv, SerialInv, Banned
<1>. QED  BY <1>1, <1>2, PairEndKeeps DEF IInv, TypeOK

-----------------------------------------------------------------------------
(* The theorems.                                                           *)

LEMMA InitIInv == Init => IInv
<1>. SUFFICES ASSUME Init PROVE IInv
  OBVIOUS
<1>1. \A s \in Slots : req[s] = Idle /\ Idle.stage = "idle"
  BY IdleTyped DEF Init
<1>2. NoRow \in [from : Users \union {NoUser}, status : {"none", "pending", "accepted", "rejected"}]
  BY DEF NoRow
<1>3. TypeOK
  <2>1. req \in [Slots -> Request] /\ \A s \in Slots : req[s].stage = "idle"
    BY <1>1, IdleTyped DEF Init
  <2>2. 0 \in 0 .. MaxMessages
    BY BoundAssumption
  <2>3. request \in RequestRows
    BY <1>2 DEF Init, RequestRows
  <2>. QED  BY <2>1, <2>2, <2>3 DEF Init, TypeOK, Request, RequestRows
<1>4. MessagesInv
  <2>1. {s \in Slots : InStage(s, {"messaging"})} = {}
    BY <1>1 DEF InStage
  <2>2. InFlight("messaging") = 0
    BY <2>1, FS_EmptySet DEF InFlight
  <2>. QED  BY <1>1, <2>2, BoundAssumption DEF Init, MessagesInv
<1>5. AcceptInv
  BY <1>1 DEF AcceptInv
<1>6. \A q \in FriendRequests : request[q].status = "none"
  BY DEF Init, NoRow
<1>7. PendingInv
  BY <1>6 DEF PendingInv
<1>8. SerialInv
  BY <1>1, <1>6 DEF Init, SerialInv, Current
<1>. QED  BY <1>3, <1>4, <1>5, <1>7, <1>8 DEF IInv

LEMMA NextKeeps == IInv /\ [Next]_vars => IInv'
<1>. SUFFICES ASSUME IInv, [Next]_vars PROVE IInv'
  OBVIOUS
<1>1. ASSUME NEW s \in Slots, NEW u \in Users,
             \/ CreateRequestStart(s, u)
             \/ \E q \in FriendRequests : AcceptStart(s, q, u)
             \/ RemoveFriendStart(s, u) \/ BanStart(s, u) \/ UnbanStart(s, u)
             \/ OpenDialogStart(s, u) \/ MessageStart(s, u)
      PROVE  IInv'
  BY <1>1, CreateRequestStartKeeps, AcceptStartKeeps, StartKeeps
<1>2. ASSUME NEW q \in FriendRequests, NEW u \in Users, Reject(q, u) PROVE IInv'
  BY <1>2, RejectKeeps
<1>3. ASSUME NEW s \in Slots,
             \/ CreateRequestCommit(s) \/ AcceptCommit(s) \/ RemoveFriendCommit(s)
             \/ BanCommit(s) \/ UnbanCommit(s) \/ OpenDialogCommit(s) \/ MessageCommit(s)
      PROVE  IInv'
  BY <1>3, CreateRequestCommitKeeps, AcceptCommitKeeps, RemoveFriendCommitKeeps,
     BanCommitKeeps, UnbanCommitKeeps, OpenDialogCommitKeeps, MessageCommitKeeps
<1>4. CASE UNCHANGED vars
  <2>1. UNCHANGED <<friends, request, ban, dialog, messages, req, overlapped>>
    BY <1>4 DEF vars
  <2>2. TypeOK' /\ MessagesInv' /\ AcceptInv' /\ PendingInv'
    BY <2>1 DEF IInv, TypeOK, MessagesInv, AcceptInv, PendingInv, InFlight, InStage
  <2>3. SerialInv'
    BY <2>1 DEF IInv, SerialInv, Current, MayBefriend, MayMessage, Banned, Pending, Lifted
  <2>. QED  BY <2>2, <2>3 DEF IInv
<1>. QED  BY <1>1, <1>2, <1>3, <1>4 DEF Next

\* The inductive invariant holds in every state of Spec.
THEOREM PairInvariant == Spec => []IInv
BY InitIInv, NextKeeps, PTL DEF Spec

(* The rows of the pair and the requests in flight stay in the sets the    *)
(* module names, and no dialog that was never opened has messages.         *)
THEOREM PairTypeCorrect == Spec => []TypeOK
<1>1. IInv => TypeOK
  BY DEF IInv
<1>. QED  BY <1>1, PairInvariant, PTL

(* As long as no two requests overlap, a dialog is open exactly when its   *)
(* users are friends and neither bans the other.                           *)
THEOREM DialogFollowsFriendshipHolds == Spec => []DialogFollowsFriendship
<1>1. IInv => DialogFollowsFriendship
  BY DEF IInv, SerialInv, DialogFollowsFriendship
<1>. QED  BY <1>1, PairInvariant, PTL

(* However many requests overlap, a user has one pending request to the    *)
(* other; as long as none overlap, it is the only one of the two and they  *)
(* are not friends.                                                        *)
THEOREM PendingMeansStrangersHolds == Spec => []PendingMeansStrangers
<1>1. IInv => PendingMeansStrangers
  BY DEF IInv, PendingInv, SerialInv, PendingMeansStrangers
<1>. QED  BY <1>1, PairInvariant, PTL

-----------------------------------------------------------------------------
(* The pair without requests in flight: SocialDialogs implements           *)
(* PairAccess.                                                             *)

LEMMA SameRows ==
  UNCHANGED <<friends, request, ban, dialog, messages>> => UNCHANGED Pair!vars
BY DEF Pair!vars, Asking, Banning, Pending

\* The one commit of a request that is alone finds what the request has read.
LEMMA AloneIsCurrent ==
  ASSUME IInv, ~overlapped, NEW s \in Slots, NEW stage, End(s, stage)
  PROVE  req[s].stage = stage /\ Current(req[s])
BY DEF End, IInv, SerialInv

LEMMA NobodyBans == ASSUME IInv PROVE Banning = {} <=> ~Banned
BY DEF Banning, Banned

\* The request that is pending is the only one, and so is who has asked.
LEMMA OneAsks ==
  ASSUME IInv, ~overlapped, NEW q \in FriendRequests, request[q].status = "pending"
  PROVE  /\ request[q].from \in Users /\ Asking = {request[q].from}
         /\ \A p \in FriendRequests : p # q => request[p].status # "pending"
<1>1. /\ request[q].from \in Users
      /\ \A p \in FriendRequests : p # q => request[p].status # "pending"
  BY DEF IInv, PendingInv, SerialInv
<1>2. Pending(q, request[q].from)
  BY DEF Pending, IInv, TypeOK
<1>3. \A u \in Users, p \in FriendRequests : Pending(p, u) => u = request[q].from
  BY <1>1 DEF Pending
<1>. QED  BY <1>1, <1>2, <1>3 DEF Asking

\* A pending request is answered, and with it the question.
LEMMA AnswerEndsAsking ==
  ASSUME IInv, ~overlapped, NEW q \in FriendRequests, request[q].status = "pending",
         NEW status \in {"accepted", "rejected"},
         request' = [request EXCEPT ![q].status = status]
  PROVE  \E u \in Users : u \in Asking /\ Asking' = Asking \ {u}
<1>1. /\ request[q].from \in Users /\ Asking = {request[q].from}
      /\ \A p \in FriendRequests : p # q => request[p].status # "pending"
  BY OneAsks
<1>2. \A p \in FriendRequests : request'[p].status # "pending"
  BY <1>1 DEF IInv, TypeOK
<1>3. Asking' = {}
  BY <1>2 DEF Asking, Pending
<1>. QED  BY <1>1, <1>3

LEMMA CreateRequestImplements ==
  ASSUME IInv, ~overlapped, NEW s \in Slots, CreateRequestCommit(s)
  PROVE  [Pair!Next]_(Pair!vars)
<1>. DEFINE u == req[s].actor
<1>1. u \in Users /\ MayBefriend(u)
  BY AloneIsCurrent DEF CreateRequestCommit, End, Current, IInv, TypeOK
<1>. HIDE DEF u
<1>2. CASE UNCHANGED database
  BY <1>2, SameRows DEF database
<1>3. ASSUME NEW q \in Unused,
             request' = [request EXCEPT ![q] = [from |-> u, status |-> "pending"]],
             UNCHANGED <<friends, ban, dialog, messages>>
      PROVE  Pair!Ask(u)
  <2>1. /\ q \in FriendRequests
        /\ \A p \in FriendRequests :
             request'[p] = IF p = q THEN [from |-> u, status |-> "pending"] ELSE request[p]
    BY <1>3 DEF IInv, TypeOK, Unused
  <2>2. Asking = {} /\ Banning = {} /\ ~friends
    BY <1>1, NobodyBans DEF MayBefriend, Asking
  <2>3. Asking' = {u}
    <3>1. request'[q] = [from |-> u, status |-> "pending"]
      BY <2>1
    <3>2. ASSUME NEW v \in Users, NEW p \in FriendRequests,
                 request'[p] = [from |-> v, status |-> "pending"]
          PROVE  v = u
      BY <1>1, <2>1, <3>2 DEF Pending, MayBefriend
    <3>. QED  BY <1>1, <2>1, <3>1, <3>2 DEF Asking, Pending
  <2>4. Banning' = Banning
    BY <1>3 DEF Banning
  <2>. QED  BY <1>3, <2>2, <2>3, <2>4 DEF Pair!Ask
<1>. QED  BY <1>1, <1>2, <1>3 DEF CreateRequestCommit, Pair!Next, u

LEMMA AnswerImplements ==
  ASSUME IInv, ~overlapped,
         \/ \E s \in Slots : AcceptCommit(s)
         \/ \E q \in FriendRequests, u \in Users : Reject(q, u)
  PROVE  [Pair!Next]_(Pair!vars)
<1>1. ASSUME NEW s \in Slots, AcceptCommit(s) PROVE Pair!Next
  <2>1. req[s].row \in FriendRequests /\ request[req[s].row].status = "pending"
    BY <1>1 DEF AcceptCommit, End, IInv, AcceptInv
  <2>2. PICK u \in Users : u \in Asking /\ Asking' = Asking \ {u}
    BY <1>1, <2>1, AnswerEndsAsking DEF AcceptCommit
  <2>3. req[s].found = friends /\ req[s].open = ~Banned
    BY <1>1, AloneIsCurrent DEF AcceptCommit, Current
  <2>4. friends' = TRUE /\ Banning' = Banning /\ messages' = messages
    BY <1>1, <2>3 DEF AcceptCommit, Banning, IInv, TypeOK
  <2>5. Pair!DialogFollows
    <3>1. Pair!MayTalk' <=> ~Banned
      BY <2>4, NobodyBans DEF Pair!MayTalk
    <3>. QED  BY <1>1, <2>3, <3>1 DEF AcceptCommit, DialogSet, Pair!DialogFollows
  <2>6. Pair!Accept(u)
    BY <2>2, <2>4, <2>5 DEF Pair!Accept
  <2>. QED  BY <2>6 DEF Pair!Next
<1>2. ASSUME NEW q \in FriendRequests, NEW v \in Users, Reject(q, v) PROVE Pair!Next
  <2>1. request[q].status = "pending"
    BY <1>2 DEF Reject, Pending
  <2>2. PICK u \in Users : u \in Asking /\ Asking' = Asking \ {u}
    BY <1>2, <2>1, AnswerEndsAsking DEF Reject
  <2>3. UNCHANGED <<friends, dialog, messages>> /\ Banning' = Banning
    BY <1>2 DEF Reject, Banning
  <2>4. Pair!Decline(u)
    BY <2>2, <2>3 DEF Pair!Decline
  <2>. QED  BY <2>4 DEF Pair!Next
<1>. QED  BY <1>1, <1>2

\* A commit that writes no friend request leaves open who has asked.
LEMMA SameAsking == UNCHANGED request => Asking' = Asking
BY DEF Asking, Pending

LEMMA PartImplements ==
  ASSUME IInv, ~overlapped, NEW s \in Slots, RemoveFriendCommit(s)
  PROVE  Pair!Part
<1>1. friends
  BY AloneIsCurrent DEF RemoveFriendCommit, Current
<1>2. friends' = FALSE /\ dialog' = DialogSet(FALSE) /\ UNCHANGED <<request, ban, messages>>
  BY DEF RemoveFriendCommit
<1>3. Asking' = Asking /\ Banning' = Banning
  BY <1>2, SameAsking DEF Banning
<1>. QED  BY <1>1, <1>2, <1>3 DEF Pair!Part, Pair!DialogFollows, Pair!MayTalk, DialogSet

LEMMA BanImplements ==
  ASSUME IInv, ~overlapped, NEW s \in Slots, BanCommit(s)
  PROVE  [Pair!Next]_(Pair!vars)
<1>. DEFINE u == req[s].actor
<1>1. u \in Users /\ req[s].found = friends
  BY AloneIsCurrent DEF BanCommit, End, Current, IInv, TypeOK
<1>. HIDE DEF u
<1>2. CASE UNCHANGED database
  BY <1>2, SameRows DEF database
<1>3. ASSUME ban[u] # "active", friends' = FALSE, ban' = [ban EXCEPT ![u] = "active"],
             dialog' = DialogSet(FALSE), UNCHANGED <<request, messages>>
      PROVE  Pair!Ban(u)
  <2>1. u \notin Banning /\ Banning' = Banning \union {u}
    BY <1>1, <1>3 DEF Banning, IInv, TypeOK
  <2>2. Asking' = Asking
    BY <1>3, SameAsking
  <2>. QED  BY <1>3, <2>1, <2>2 DEF Pair!Ban, Pair!DialogFollows, Pair!MayTalk, DialogSet
<1>4. (IF req[s].found THEN FALSE ELSE friends) = FALSE
  BY <1>1 DEF IInv, TypeOK
<1>. QED  BY <1>1, <1>2, <1>3, <1>4 DEF BanCommit, Pair!Next, u

LEMMA LiftImplements ==
  ASSUME IInv, ~overlapped, NEW s \in Slots, UnbanCommit(s)
  PROVE  \E u \in Users : Pair!Lift(u)
<1>. DEFINE u == req[s].actor
<1>1. u \in Users /\ ban[u] = "active" /\ req[s].open = Lifted(u)
  BY AloneIsCurrent DEF UnbanCommit, End, Current, IInv, TypeOK
<1>2. /\ ban' = [ban EXCEPT ![u] = "removed"] /\ dialog' = DialogSet(req[s].open)
      /\ UNCHANGED <<friends, request, messages>>
  BY DEF UnbanCommit
<1>. HIDE DEF u
<1>3. u \in Banning /\ Banning' = Banning \ {u}
  BY <1>1, <1>2 DEF Banning, IInv, TypeOK
<1>4. Banning' = {} <=> ban[Other(u)] # "active"
  BY <1>1, <1>3, OtherUser DEF Banning
<1>5. Pair!DialogFollows
  BY <1>1, <1>2, <1>4 DEF Pair!DialogFollows, Pair!MayTalk, DialogSet, Lifted
<1>6. Asking' = Asking
  BY <1>2, SameAsking
<1>7. Pair!Lift(u)
  BY <1>2, <1>3, <1>5, <1>6 DEF Pair!Lift
<1>. QED  BY <1>1, <1>7

LEMMA DialogImplements ==
  ASSUME IInv, ~overlapped, NEW s \in Slots, OpenDialogCommit(s) \/ MessageCommit(s)
  PROVE  [Pair!Next]_(Pair!vars)
<1>1. CASE OpenDialogCommit(s)
  <2>1. friends /\ Banning = {}
    BY <1>1, AloneIsCurrent, NobodyBans DEF OpenDialogCommit, Current
  <2>2. /\ UNCHANGED <<friends, messages>> /\ Asking' = Asking /\ Banning' = Banning
        /\ dialog' = IF dialog = "absent" THEN "open" ELSE dialog
    BY <1>1, SameAsking DEF OpenDialogCommit, Banning
  <2>. QED  BY <2>1, <2>2 DEF Pair!Next, Pair!OpenDialog, Pair!MayTalk, Pair!vars
<1>2. CASE MessageCommit(s)
  <2>1. friends /\ Banning = {} /\ dialog = "open"
    BY <1>2, AloneIsCurrent, NobodyBans DEF MessageCommit, Current, MayMessage
  <2>2. /\ UNCHANGED <<friends, dialog>> /\ Asking' = Asking /\ Banning' = Banning
        /\ messages' = messages + 1
    BY <1>2, SameAsking DEF MessageCommit, Banning
  <2>. QED  BY <2>1, <2>2 DEF Pair!Next, Pair!Write, Pair!MayTalk
<1>. QED  BY <1>1, <1>2

LEMMA NextImplements ==
  ASSUME IInv, Next, ~overlapped' PROVE [Pair!Next]_(Pair!vars)
<1>1. ASSUME NEW s \in Slots, NEW stage, NEW u, NEW row, NEW found, NEW open,
             Begin(s, stage, u, row, found, open)
      PROVE  [Pair!Next]_(Pair!vars)
  BY <1>1, SameRows DEF Begin, database
<1>2. ASSUME NEW s \in Slots, NEW u \in Users,
             \/ CreateRequestStart(s, u)
             \/ \E q \in FriendRequests : AcceptStart(s, q, u)
             \/ RemoveFriendStart(s, u) \/ BanStart(s, u) \/ UnbanStart(s, u)
             \/ OpenDialogStart(s, u) \/ MessageStart(s, u)
      PROVE  [Pair!Next]_(Pair!vars)
  BY <1>1, <1>2 DEF CreateRequestStart, AcceptStart, RemoveFriendStart, BanStart, UnbanStart,
     OpenDialogStart, MessageStart
<1>3. ASSUME NEW q \in FriendRequests, NEW u \in Users, Reject(q, u)
      PROVE  [Pair!Next]_(Pair!vars)
  BY <1>3, AnswerImplements DEF Reject
<1>4. ASSUME NEW s \in Slots,
             \/ CreateRequestCommit(s) \/ AcceptCommit(s) \/ RemoveFriendCommit(s)
             \/ BanCommit(s) \/ UnbanCommit(s) \/ OpenDialogCommit(s) \/ MessageCommit(s)
      PROVE  [Pair!Next]_(Pair!vars)
  <2>1. ~overlapped
    BY <1>4 DEF CreateRequestCommit, AcceptCommit, RemoveFriendCommit, BanCommit, UnbanCommit,
       OpenDialogCommit, MessageCommit, End
  <2>2. CASE RemoveFriendCommit(s) \/ UnbanCommit(s)
    BY <2>1, <2>2, PartImplements, LiftImplements DEF Pair!Next
  <2>. QED  BY <1>4, <2>1, <2>2, CreateRequestImplements, AnswerImplements, BanImplements,
            DialogImplements
<1>. QED  BY <1>2, <1>3, <1>4 DEF Next

\* An answer is final, and friends are made by an acceptance, at any overlap.
LEMMA AnswersDecide == ASSUME IInv, Next PROVE AnswersStand /\ FriendsByAcceptance
<1>. USE DEF AnswersStand, FriendsByAcceptance
<1>1. ASSUME NEW s \in Slots, NEW stage, NEW u, NEW row, NEW found, NEW open,
             Begin(s, stage, u, row, found, open)
      PROVE  AnswersStand /\ FriendsByAcceptance
  BY <1>1 DEF Begin, database
<1>2. ASSUME NEW s \in Slots, NEW u \in Users,
             \/ CreateRequestStart(s, u)
             \/ \E q \in FriendRequests : AcceptStart(s, q, u)
             \/ RemoveFriendStart(s, u) \/ BanStart(s, u) \/ UnbanStart(s, u)
             \/ OpenDialogStart(s, u) \/ MessageStart(s, u)
      PROVE  UNCHANGED <<friends, request>>
  BY <1>2 DEF CreateRequestStart, AcceptStart, RemoveFriendStart, BanStart, UnbanStart,
     OpenDialogStart, MessageStart, Begin, database
<1>3. ASSUME NEW q \in FriendRequests, NEW u \in Users, Reject(q, u)
      PROVE  AnswersStand /\ FriendsByAcceptance
  BY <1>3 DEF Reject, Pending, IInv, TypeOK
<1>4. ASSUME NEW s \in Slots, CreateRequestCommit(s) PROVE AnswersStand /\ FriendsByAcceptance
  <2>1. UNCHANGED friends
    BY <1>4 DEF CreateRequestCommit, database
  <2>2. ASSUME NEW q \in FriendRequests, request'[q] # request[q]
        PROVE  request[q].status = "none"
    <3>1. PICK p \in Unused : \E r : request' = [request EXCEPT ![p] = r]
      BY <1>4, <2>2 DEF CreateRequestCommit, database
    <3>2. p = q
      BY <2>2, <3>1 DEF IInv, TypeOK
    <3>. QED  BY <3>1, <3>2 DEF Unused, NoRow
  <2>. QED  BY <2>1, <2>2
<1>5. ASSUME NEW s \in Slots, AcceptCommit(s) PROVE AnswersStand /\ FriendsByAcceptance
  <2>1. req[s].row \in FriendRequests /\ request[req[s].row].status = "pending"
    BY <1>5 DEF AcceptCommit, End, IInv, AcceptInv
  <2>2. request'[req[s].row].status = "accepted"
    BY <1>5, <2>1 DEF AcceptCommit, IInv, TypeOK
  <2>3. \A q \in FriendRequests : q # req[s].row => request'[q] = request[q]
    BY <1>5 DEF AcceptCommit, IInv, TypeOK
  <2>. QED  BY <2>1, <2>2, <2>3
<1>6. ASSUME NEW s \in Slots,
             \/ RemoveFriendCommit(s) \/ BanCommit(s) \/ UnbanCommit(s)
             \/ OpenDialogCommit(s) \/ MessageCommit(s)
      PROVE  UNCHANGED request /\ friends' \in {FALSE, friends}
  BY <1>6 DEF RemoveFriendCommit, BanCommit, UnbanCommit, OpenDialogCommit, MessageCommit, database
<1>. QED  BY <1>2, <1>3, <1>4, <1>5, <1>6 DEF Next

LEMMA InitImplements == Init => Pair!Init
<1>. SUFFICES ASSUME Init PROVE Pair!Init
  OBVIOUS
<1>1. Asking = {}
  BY DEF Init, Asking, Pending, NoRow
<1>. QED  BY <1>1 DEF Init, Banning, Pair!Init

(* However many requests overlap, an answer is final and only the          *)
(* acceptance of a pending request makes two users friends.  As long as no *)
(* two requests overlap, each request is one step of PairAccess or none:   *)
(* friendship, bans, pending requests, the dialog and its messages change  *)
(* together as the rules say, and in no other way.                         *)
THEOREM ImplementsPairHolds == Spec => ImplementsPair
<1>. DEFINE A == /\ AnswersStand /\ FriendsByAcceptance
                 /\ ~overlapped' => [Pair!Next]_(Pair!vars)
<1>1. IInv /\ [Next]_vars => [A]_vars
  BY AnswersDecide, NextImplements
<1>. QED  BY <1>1, InitImplements, PairInvariant, PTL DEF Spec, ImplementsPair

(* A server that handles one request of the pair at a time implements      *)
(* PairAccess altogether.                                                  *)
THEOREM OneRequestImplementsPair ==
  ASSUME \A s, t \in Slots : s = t
  PROVE  Spec => Pair!Spec
<1>1. Init => ~overlapped
  BY DEF Init
<1>2. ~overlapped /\ [Next]_vars => ~overlapped'
  <2>. SUFFICES ASSUME ~overlapped, [Next]_vars PROVE ~overlapped'
    OBVIOUS
  <2>1. ASSUME NEW s \in Slots, NEW stage, NEW u, NEW row, NEW found, NEW open,
               Begin(s, stage, u, row, found, open)
        PROVE  ~overlapped'
    BY <2>1 DEF Begin
  <2>2. ASSUME NEW s \in Slots, NEW u \in Users,
               \/ CreateRequestStart(s, u)
               \/ \E q \in FriendRequests : AcceptStart(s, q, u)
               \/ RemoveFriendStart(s, u) \/ BanStart(s, u) \/ UnbanStart(s, u)
               \/ OpenDialogStart(s, u) \/ MessageStart(s, u)
        PROVE  ~overlapped'
    BY <2>1, <2>2 DEF CreateRequestStart, AcceptStart, RemoveFriendStart, BanStart, UnbanStart,
       OpenDialogStart, MessageStart
  <2>3. CASE \E q \in FriendRequests, u \in Users : Reject(q, u)
    BY <2>3 DEF Reject
  <2>4. ASSUME NEW s \in Slots,
               \/ CreateRequestCommit(s) \/ AcceptCommit(s) \/ RemoveFriendCommit(s)
               \/ BanCommit(s) \/ UnbanCommit(s) \/ OpenDialogCommit(s) \/ MessageCommit(s)
        PROVE  ~overlapped'
    BY <2>4 DEF CreateRequestCommit, AcceptCommit, RemoveFriendCommit, BanCommit, UnbanCommit,
       OpenDialogCommit, MessageCommit, End
  <2>. QED  BY <2>2, <2>3, <2>4 DEF Next, vars
<1>3. UNCHANGED vars => [Pair!Next]_(Pair!vars)
  BY SameRows DEF vars
<1>. QED  BY <1>1, <1>2, <1>3, ImplementsPairHolds, PTL DEF Spec, ImplementsPair, Pair!Spec
=============================================================================
