------------------------- MODULE RoomRealtimeProofs -------------------------
(***************************************************************************)
(* What RoomRealtime promises, for any users, connections, messages,       *)
(* requests in flight and capacity of a channel.                           *)
(*                                                                         *)
(* The last event about a message that waits for a client - in the hands   *)
(* of its consumer, in its channel or still with the request that sends it *)
(* - carries the text of the database, and without such an event the       *)
(* client shows that text.  Every text in circulation has been written, so *)
(* what a user without access has still to miss can only come from a check *)
(* made after it was written, and that check refuses it.                   *)
(***************************************************************************)
EXTENDS RoomRealtime, SequenceTheorems, TLAPS

-----------------------------------------------------------------------------
(* The invariant.                                                          *)

Reqs == [op : {"idle", "post", "edit", "delete", "send"}, user : Users,
         msg : Messages \union {NoMessage}, out : Seq(Event)]

Hands == [does : {"nothing", "pass", "drop", "join"}, event : Event]

Typed ==
  /\ access \subseteq Users /\ Owner \in access /\ admins \subseteq access \ {Owner}
  /\ text \in [Messages -> Texts \union {"deleted"}]
  /\ author \in [Messages -> Users]
  /\ req \in [Requests -> Reqs]
  /\ group = subs /\ subs \subseteq Conns
  /\ inbox \in [Conns -> Seq(Event)] /\ \A c \in Conns : Len(inbox[c]) <= Capacity
  /\ hand \in [Conns -> Hands]
  /\ subbed \subseteq Conns
  /\ owed \in [Conns -> SUBSET Messages]
  /\ view \in [Conns -> [Messages -> Texts]]
  /\ overlapped \in BOOLEAN /\ cut \subseteq Conns

\* An event names a message if, and only if, it is about one.
EventOK(e) == e.msg = NoMessage <=> e.kind \in {"member", "force"}

\* A request that has committed has something left to send; what it has to say
\* about a message is a single event.
ReqOK(q) ==
  /\ q.op \in {"post", "edit", "delete"} => q.msg \in Messages
  /\ q.op = "send" <=> q.out # <<>>
  /\ \A i \in 1 .. Len(q.out) : EventOK(q.out[i]) /\ (q.out[i].msg # NoMessage => Len(q.out) = 1)

ReqInv == \A r \in Requests : ReqOK(req[r])

InboxInv == \A c \in Conns : \A i \in 1 .. Len(inbox[c]) : EventOK(inbox[c][i])

\* A consumer has a room event in its hands when it passes one on.
HandOK(h) ==
  /\ EventOK(h.event) /\ h.event.kind # "force"
  /\ h.does # "pass" => h.event = Member

HandInv == \A c \in Conns : HandOK(hand[c])

\* A client is owed messages while it is subscribed with access, and unless it
\* was cut off the layer then still sends it the room's events.
SubInv ==
  \A c \in Conns :
    /\ c \in subbed => UserOf[c] \in access
    /\ c \in subbed \ cut => c \in group
    /\ owed[c] # {} => c \in subbed
    /\ hand[c].does = "drop" => c \notin subbed

AloneInv == ~overlapped => \A q, r \in Requests : req[q] # Idle /\ req[r] # Idle => q = r

\* What a client should show of m.
Stored(m) == IF text[m] = "deleted" THEN "none" ELSE text[m]

\* The request r is about to send an event about m.
Sends(r, m) == req[r].op = "send" /\ req[r].out[1].msg = m

SendInv ==
  ~overlapped => \A r \in Requests, m \in Messages : Sends(r, m) => req[r].out[1].text = Stored(m)

\* A client that shows shown and then takes what waits in box ends up with t for m.
EndsWith(box, shown, m, t) ==
  /\ (\A i \in 1 .. Len(box) : box[i].msg # m) => shown[m] = t
  /\ \A i \in 1 .. Len(box) :
       box[i].msg = m /\ (\A j \in 1 .. Len(box) : i < j => box[j].msg # m) => box[i].text = t

\* What c will show once its consumer's hands are free.
Shows(c) == IF hand[c].does = "pass" THEN Shown(c, hand[c].event) ELSE view[c]

ViewInv ==
  ~overlapped => \A c \in Conns \ cut : \A m \in owed[c] :
    (\E r \in Requests : Sends(r, m)) \/ EndsWith(inbox[c], Shows(c), m, Stored(m))

IInv == Typed /\ ReqInv /\ InboxInv /\ HandInv /\ SubInv /\ AloneInv /\ SendInv /\ ViewInv

-----------------------------------------------------------------------------
(* Boxes.                                                                  *)

LEMMA EndsAppend ==
  ASSUME NEW box \in Seq(Event), NEW e \in Event, NEW shown, NEW m \in Messages, NEW t,
         IF e.msg = m THEN e.text = t ELSE EndsWith(box, shown, m, t)
  PROVE  EndsWith(Append(box, e), shown, m, t)
<1>. DEFINE new == Append(box, e)
<1>1. /\ Len(box) \in Nat /\ Len(new) = Len(box) + 1 /\ new[Len(box) + 1] = e
      /\ \A i \in 1 .. Len(box) : new[i] = box[i]
  BY AppendProperties
<1>. SUFFICES EndsWith(new, shown, m, t)
  OBVIOUS
<1>. HIDE DEF new
<1>2. CASE e.msg = m
  <2>1. \A i \in 1 .. Len(new) :
          (\A j \in 1 .. Len(new) : i < j => new[j].msg # m) => i = Len(box) + 1
    BY <1>1, <1>2
  <2>. QED  BY <1>1, <1>2, <2>1 DEF EndsWith
<1>3. CASE e.msg # m
  <2>1. ASSUME \A i \in 1 .. Len(new) : new[i].msg # m
        PROVE  shown[m] = t
    <3>1. \A i \in 1 .. Len(box) : box[i].msg # m
      BY <1>1, <2>1
    <3>. QED  BY <1>3, <3>1 DEF EndsWith
  <2>2. ASSUME NEW i \in 1 .. Len(new), new[i].msg = m,
               \A j \in 1 .. Len(new) : i < j => new[j].msg # m
        PROVE  new[i].text = t
    <3>1. i \in 1 .. Len(box) /\ box[i] = new[i]
      BY <1>1, <1>3, <2>2
    <3>2. \A j \in 1 .. Len(box) : i < j => box[j].msg # m
      BY <1>1, <2>2, <3>1
    <3>. QED  BY <1>3, <2>2, <3>1, <3>2 DEF EndsWith
  <2>. QED  BY <2>1, <2>2 DEF EndsWith
<1>. QED  BY <1>2, <1>3

\* The client takes the first event of its box.
LEMMA EndsTail ==
  ASSUME NEW box \in Seq(Event), box # <<>>, NEW shown, NEW next, NEW m \in Messages, NEW t,
         EndsWith(box, shown, m, t),
         next[m] = IF Head(box).msg = m THEN Head(box).text ELSE shown[m]
  PROVE  EndsWith(Tail(box), next, m, t)
<1>. DEFINE rest == Tail(box)
<1>1. /\ Len(box) \in Nat /\ Len(box) > 0 /\ Len(rest) = Len(box) - 1 /\ Head(box) = box[1]
      /\ \A i \in 1 .. Len(rest) : rest[i] = box[i + 1]
  BY HeadTailProperties, EmptySeq
<1>. SUFFICES EndsWith(rest, next, m, t)
  OBVIOUS
<1>. HIDE DEF rest
<1>2. \A i \in 1 .. Len(box) : i = 1 \/ (i - 1 \in 1 .. Len(rest) /\ rest[i - 1] = box[i])
  BY <1>1
<1>3. ASSUME \A i \in 1 .. Len(rest) : rest[i].msg # m
      PROVE  next[m] = t
  <2>1. \A i \in 1 .. Len(box) : i = 1 \/ box[i].msg # m
    BY <1>2, <1>3
  <2>. QED  BY <1>1, <2>1 DEF EndsWith
<1>4. ASSUME NEW i \in 1 .. Len(rest), rest[i].msg = m,
             \A j \in 1 .. Len(rest) : i < j => rest[j].msg # m
      PROVE  rest[i].text = t
  <2>1. i + 1 \in 1 .. Len(box) /\ box[i + 1] = rest[i]
    BY <1>1
  <2>2. \A j \in 1 .. Len(box) : i + 1 < j => box[j].msg # m
    BY <1>1, <1>2, <1>4
  <2>. QED  BY <1>4, <2>1, <2>2 DEF EndsWith
<1>. QED  BY <1>3, <1>4 DEF EndsWith

LEMMA IdleIs ==
  /\ Idle \in Reqs /\ Idle.op = "idle" /\ Idle.out = <<>> /\ ReqOK(Idle)
<1>1. Idle.op = "idle" /\ Idle.out = <<>> /\ Len(Idle.out) = 0 /\ Idle.out \in Seq(Event)
  BY EmptySeq DEF Idle
<1>2. Idle \in Reqs
  BY OwnerAssumption, <1>1 DEF Idle, Reqs
<1>. QED  BY <1>1, <1>2 DEF ReqOK

LEMMA EventsAre ==
  /\ \A m \in Messages, t \in Texts :
       Upsert(m, t) \in Event /\ Upsert(m, t).msg = m /\ Upsert(m, t).text = t /\ EventOK(Upsert(m, t))
  /\ \A m \in Messages :
       Deleted(m) \in Event /\ Deleted(m).msg = m /\ Deleted(m).text = "none" /\ EventOK(Deleted(m))
  /\ Member \in Event /\ Member.msg = NoMessage /\ EventOK(Member)
  /\ \A u \in Users : ForceOut(u) \in Event /\ ForceOut(u).msg = NoMessage /\ EventOK(ForceOut(u))
<1>1. \A m \in Messages : m # NoMessage
  BY MessageAssumption
<1>. QED  BY <1>1, OwnerAssumption DEF Upsert, Deleted, Member, ForceOut, Event, EventOK, Texts

LEMMA FreeIs == Free \in Hands /\ HandOK(Free) /\ Free.does = "nothing" /\ Free.event = Member
BY EventsAre DEF Free, Hands, HandOK, Member

LEMMA SentIs ==
  ASSUME Typed, InboxInv, NEW e \in Event, EventOK(e)
  PROVE  /\ Receivers(e) \subseteq Conns
         /\ Sent(e) \in [Conns -> Seq(Event)]
         /\ \A c \in Conns :
              /\ Len(Sent(e)[c]) <= Capacity
              /\ \A i \in 1 .. Len(Sent(e)[c]) : EventOK(Sent(e)[c][i])
              /\ Sent(e)[c] \in {inbox[c], Append(inbox[c], e)}
              /\ c \in Receivers(e) /\ Len(inbox[c]) < Capacity => Sent(e)[c] = Append(inbox[c], e)
<1>1. Receivers(e) \subseteq Conns
  BY DEF Receivers, Typed
<1>2. Sent(e) = [c \in Conns |-> IF c \in Receivers(e) /\ Len(inbox[c]) < Capacity
                                 THEN Append(inbox[c], e) ELSE inbox[c]]
  BY DEF Sent
<1>3. ASSUME NEW c \in Conns
      PROVE  /\ inbox[c] \in Seq(Event) /\ Append(inbox[c], e) \in Seq(Event)
             /\ Len(inbox[c]) \in Nat /\ Len(inbox[c]) <= Capacity
             /\ Len(Append(inbox[c], e)) = Len(inbox[c]) + 1
             /\ \A i \in 1 .. Len(inbox[c]) : EventOK(inbox[c][i])
             /\ \A i \in 1 .. Len(Append(inbox[c], e)) : EventOK(Append(inbox[c], e)[i])
  <2>1. inbox[c] \in Seq(Event) /\ Len(inbox[c]) \in Nat /\ Len(inbox[c]) <= Capacity
    BY DEF Typed
  <2>2. \A i \in 1 .. Len(inbox[c]) : EventOK(inbox[c][i])
    BY DEF InboxInv
  <2>3. /\ Append(inbox[c], e) \in Seq(Event) /\ Len(Append(inbox[c], e)) = Len(inbox[c]) + 1
        /\ Append(inbox[c], e)[Len(inbox[c]) + 1] = e
        /\ \A i \in 1 .. Len(inbox[c]) : Append(inbox[c], e)[i] = inbox[c][i]
    BY <2>1, AppendProperties
  <2>4. \A i \in 1 .. Len(Append(inbox[c], e)) : i \in 1 .. Len(inbox[c]) \/ i = Len(inbox[c]) + 1
    BY <2>1, <2>3
  <2>5. \A i \in 1 .. Len(Append(inbox[c], e)) : EventOK(Append(inbox[c], e)[i])
    BY <2>2, <2>3, <2>4
  <2>. QED  BY <2>1, <2>2, <2>3, <2>5
<1>4. Sent(e) \in [Conns -> Seq(Event)]
  BY <1>2, <1>3
<1>5. ASSUME NEW c \in Conns
      PROVE  /\ Len(Sent(e)[c]) <= Capacity
             /\ \A i \in 1 .. Len(Sent(e)[c]) : EventOK(Sent(e)[c][i])
             /\ Sent(e)[c] \in {inbox[c], Append(inbox[c], e)}
             /\ c \in Receivers(e) /\ Len(inbox[c]) < Capacity => Sent(e)[c] = Append(inbox[c], e)
  <2>1. CASE c \in Receivers(e) /\ Len(inbox[c]) < Capacity
    <3>1. Sent(e)[c] = Append(inbox[c], e)
      BY <1>2, <2>1
    <3>2. Len(inbox[c]) + 1 <= Capacity
      BY <1>3, <2>1, CapacityAssumption
    <3>. QED  BY <1>3, <3>1, <3>2
  <2>2. CASE ~(c \in Receivers(e) /\ Len(inbox[c]) < Capacity)
    <3>1. Sent(e)[c] = inbox[c]
      BY <1>2, <2>2
    <3>. QED  BY <1>3, <2>2, <3>1
  <2>. QED  BY <2>1, <2>2
<1>. QED  BY <1>1, <1>4, <1>5

LEMMA InitOK == Init => IInv
<1>. SUFFICES ASSUME Init PROVE IInv
  OBVIOUS
<1>1. \A c \in Conns : inbox[c] = <<>> /\ Len(inbox[c]) = 0 /\ owed[c] = {}
  BY EmptySeq DEF Init
<1>2. \A r \in Requests : req[r] = Idle
  BY DEF Init
<1>3. Typed
  <2>1. inbox \in [Conns -> Seq(Event)]
    BY EmptySeq DEF Init
  <2>2. \A c \in Conns : Len(inbox[c]) <= Capacity
    BY <1>1, CapacityAssumption
  <2>. QED  BY <2>1, <2>2, OwnerAssumption, IdleIs, FreeIs DEF Init, Typed, Texts
<1>4. ReqInv
  BY <1>2, IdleIs DEF ReqInv
<1>5. InboxInv
  BY <1>1 DEF InboxInv
<1>6. SubInv /\ HandInv
  <2>1. \A c \in Conns : hand[c] = Free
    BY DEF Init
  <2>. QED  BY <1>1, <2>1, FreeIs DEF Init, SubInv, HandInv
<1>7. AloneInv
  BY <1>2 DEF AloneInv
<1>8. SendInv
  BY <1>2, IdleIs DEF SendInv, Sends
<1>9. ViewInv
  BY <1>1 DEF ViewInv
<1>. QED  BY <1>3, <1>4, <1>5, <1>6, <1>7, <1>8, <1>9 DEF IInv

-----------------------------------------------------------------------------
(* Requests.                                                               *)

\* Until requests overlap, what is in flight is one request.
LEMMA AloneIs ==
  ASSUME IInv, ~overlapped, NEW r \in Requests, req[r] # Idle
  PROVE  \A q \in Requests : q # r => req[q] = Idle /\ \A m \in Messages : ~Sends(q, m)
BY IdleIs DEF IInv, AloneInv, Sends

LEMMA StartKeeps ==
  ASSUME IInv, NEW r \in Requests, NEW q \in Reqs, req[r] = Idle,
         q.op \in {"post", "edit", "delete"}, ReqOK(q),
         req' = [req EXCEPT ![r] = q], NoteOverlap, UNCHANGED <<database, layer, client, cut>>
  PROVE  IInv'
<1>1. /\ overlapped' \in BOOLEAN
      /\ ~overlapped' => ~overlapped /\ \A p \in Requests : req[p] = Idle
  BY DEF NoteOverlap, IInv, Typed
<1>2. /\ req' \in [Requests -> Reqs]
      /\ \A p \in Requests : req'[p] = IF p = r THEN q ELSE req[p]
  BY DEF IInv, Typed
<1>3. Typed'
  BY <1>1, <1>2 DEF IInv, Typed, database, members, layer, client
<1>4. ReqInv'
  BY <1>2 DEF IInv, ReqInv
<1>5. InboxInv' /\ HandInv' /\ SubInv'
  BY DEF IInv, InboxInv, HandInv, SubInv, database, members, layer, client
<1>6. AloneInv'
  BY <1>1, <1>2 DEF AloneInv
<1>7. \A p \in Requests, m \in Messages : ~overlapped' => ~Sends(p, m) /\ ~Sends(p, m)'
  BY <1>1, <1>2, IdleIs DEF Sends
<1>8. SendInv'
  BY <1>7 DEF SendInv
<1>9. ViewInv'
  BY <1>1, <1>7 DEF IInv, Typed, ViewInv, Stored, Shows, Shown, database, layer, client
<1>. QED  BY <1>3, <1>4, <1>5, <1>6, <1>8, <1>9 DEF IInv

\* A request writes the row of m and has then one event about it to send.
LEMMA CommitKeeps ==
  ASSUME IInv, NEW r \in Requests, req[r].op \in {"post", "edit", "delete"},
         NEW m \in Messages, NEW e \in Event, EventOK(e), e.msg = m,
         NEW x \in Texts \union {"deleted"}, text' = [text EXCEPT ![m] = x],
         e.text = IF x = "deleted" THEN "none" ELSE x,
         Publishes(r, <<e>>), author' \in [Messages -> Users],
         owed' \in [Conns -> SUBSET Messages],
         \A c \in Conns : owed'[c] \subseteq owed[c] \union {m} /\ (owed'[c] # {} => c \in subbed),
         UNCHANGED <<members, layer, subbed, view, overlapped, cut>>
  PROVE  IInv'
<1>. DEFINE q == Publishing(<<e>>)
<1>1. req[r] \in Reqs /\ req[r] # Idle
  BY IdleIs DEF IInv, Typed
<1>2. q \in Reqs /\ q.op = "send" /\ q.out = <<e>>
  <2>1. <<e>> \in Seq(Event)
    OBVIOUS
  <2>. QED  BY <2>1, OwnerAssumption DEF Publishing, Reqs
<1>3. q.out[1] = e /\ Len(q.out) = 1 /\ q.out # <<>>
  BY <1>2
<1>4. req' = [req EXCEPT ![r] = q]
  BY DEF Publishes
<1>. HIDE DEF q
<1>5. ReqOK(q)
  BY <1>2, <1>3 DEF ReqOK
<1>6. /\ req' \in [Requests -> Reqs]
      /\ \A p \in Requests : req'[p] = IF p = r THEN q ELSE req[p]
  BY <1>2, <1>4 DEF IInv, Typed
<1>7. /\ text' \in [Messages -> Texts \union {"deleted"}]
      /\ \A n \in Messages : Stored(n)' = IF n = m THEN e.text ELSE Stored(n)
  BY DEF Stored, IInv, Typed
<1>8. Typed'
  BY <1>6, <1>7 DEF IInv, Typed, members, layer
<1>9. ReqInv'
  BY <1>5, <1>6 DEF IInv, ReqInv
<1>10. InboxInv' /\ HandInv' /\ SubInv'
  BY DEF IInv, InboxInv, HandInv, SubInv, members, layer
<1>11. ~overlapped' => /\ ~overlapped
                       /\ \A p \in Requests : p # r => req[p] = Idle /\ \A n \in Messages : ~Sends(p, n)
  BY <1>1, AloneIs
<1>12. AloneInv'
  BY <1>6, <1>11 DEF AloneInv
<1>13. Sends(r, m)' /\ \A n \in Messages : ~Sends(r, n) /\ (Sends(r, n)' => n = m)
  BY <1>2, <1>3, <1>6 DEF Sends
<1>14. SendInv'
  <2>1. SUFFICES ASSUME ~overlapped', NEW p \in Requests, NEW n \in Messages, Sends(p, n)'
                 PROVE  req'[p].out[1].text = Stored(n)'
    BY DEF SendInv
  <2>2. p = r
    BY <1>6, <1>11, <2>1 DEF Sends
  <2>. QED  BY <1>3, <1>6, <1>7, <1>13, <2>1, <2>2
<1>15. ViewInv'
  <2>. \A c \in Conns : Shows(c)' = Shows(c)
    BY DEF Shows, Shown, layer
  <2>1. SUFFICES ASSUME ~overlapped', NEW c \in Conns \ cut, NEW n \in owed'[c], n # m
                 PROVE  EndsWith(inbox[c], Shows(c), n, Stored(n))
    BY <1>7, <1>13 DEF ViewInv, layer, IInv, Typed
  <2>2. n \in owed[c] /\ n \in Messages
    BY <2>1 DEF IInv, Typed
  <2>3. ~\E p \in Requests : Sends(p, n)
    BY <1>11, <1>13, <2>1, <2>2
  <2>. QED  BY <1>11, <2>1, <2>2, <2>3 DEF IInv, ViewInv
<1>. QED  BY <1>8, <1>9, <1>10, <1>12, <1>14, <1>15 DEF IInv

LEMMA RefusedKeeps ==
  ASSUME IInv, NEW r \in Requests, req[r].op \in {"post", "edit", "delete"}, Refused(r)
  PROVE  IInv'
<1>1. /\ req' \in [Requests -> Reqs]
      /\ \A p \in Requests : req'[p] = IF p = r THEN Idle ELSE req[p]
  BY IdleIs DEF IInv, Typed, Refused
<1>2. UNCHANGED <<database, layer, client, history>>
  BY DEF Refused
<1>3. Typed'
  BY <1>1, <1>2 DEF IInv, Typed, database, members, layer, client, history
<1>4. ReqInv'
  BY <1>1, IdleIs DEF IInv, ReqInv
<1>5. InboxInv' /\ HandInv' /\ SubInv'
  BY <1>2 DEF IInv, InboxInv, HandInv, SubInv, database, members, layer, client, history
<1>6. AloneInv'
  BY <1>1, <1>2 DEF IInv, AloneInv, history
<1>7. \A p \in Requests, m \in Messages : Sends(p, m)' <=> Sends(p, m)
  BY <1>1, IdleIs DEF Sends
<1>8. SendInv'
  BY <1>1, <1>2, <1>7, IdleIs DEF IInv, SendInv, Sends, Stored, database, history
<1>9. ViewInv'
  <2>1. SUFFICES ASSUME ~overlapped, NEW c \in Conns \ cut, NEW m \in owed[c]
                 PROVE  (\E p \in Requests : Sends(p, m)') \/ EndsWith(inbox[c], Shows(c), m, Stored(m))
    BY <1>2 DEF ViewInv, Stored, Shows, Shown, database, layer, client, history
  <2>2. m \in Messages
    BY <2>1 DEF IInv, Typed
  <2>. QED  BY <1>7, <2>1, <2>2 DEF IInv, ViewInv
<1>. QED  BY <1>3, <1>4, <1>5, <1>6, <1>8, <1>9 DEF IInv

LEMMA PostKeeps == ASSUME IInv, NEW r \in Requests, Post(r) PROVE IInv'
<1>. DEFINE m == req[r].msg
<1>1. m \in Messages /\ req[r].op = "post" /\ req[r].user \in Users
  BY DEF Post, IInv, Typed, Reqs, ReqInv, ReqOK
<1>2. /\ Upsert(m, "first") \in Event /\ Upsert(m, "first").msg = m
      /\ Upsert(m, "first").text = "first" /\ EventOK(Upsert(m, "first"))
  BY <1>1, EventsAre DEF Texts
<1>3. owed' = [c \in Conns |-> IF c \in subbed THEN owed[c] \union {m} ELSE owed[c]]
  BY DEF Post
<1>4. /\ owed' \in [Conns -> SUBSET Messages]
      /\ \A c \in Conns : owed'[c] \subseteq owed[c] \union {m} /\ (owed'[c] # {} => c \in subbed)
  BY <1>1, <1>3 DEF IInv, Typed, SubInv
<1>5. /\ text' = [text EXCEPT ![m] = "first"] /\ author' \in [Messages -> Users]
      /\ Publishes(r, <<Upsert(m, "first")>>)
      /\ UNCHANGED <<members, layer, subbed, view, overlapped, cut>>
  BY <1>1 DEF Post, IInv, Typed
<1>6. "first" \in Texts \union {"deleted"} /\ "first" # "deleted"
  BY DEF Texts
<1>. HIDE DEF m
<1>. QED  BY <1>1, <1>2, <1>4, <1>5, <1>6, CommitKeeps

\* What leaves authors and owed messages alone.
LEMMA WriteKeeps ==
  ASSUME IInv, NEW r \in Requests, req[r].op \in {"edit", "delete"},
         NEW m \in Messages, NEW e \in Event, EventOK(e), e.msg = m,
         NEW x \in Texts \union {"deleted"}, text' = [text EXCEPT ![m] = x],
         e.text = IF x = "deleted" THEN "none" ELSE x,
         Publishes(r, <<e>>), UNCHANGED <<members, author, layer, client, overlapped, cut>>
  PROVE  IInv'
<1>1. author' \in [Messages -> Users] /\ owed' \in [Conns -> SUBSET Messages]
  BY DEF IInv, Typed, client
<1>2. \A c \in Conns : owed'[c] \subseteq owed[c] \union {m} /\ (owed'[c] # {} => c \in subbed)
  BY DEF IInv, SubInv, client
<1>3. UNCHANGED <<members, layer, subbed, view, overlapped, cut>>
  BY DEF client
<1>. QED  BY <1>1, <1>2, <1>3, CommitKeeps

LEMMA EditKeeps == ASSUME IInv, NEW r \in Requests, Edit(r) PROVE IInv'
<1>. DEFINE m == req[r].msg
<1>1. m \in Messages /\ req[r].op = "edit"
  BY DEF Edit, IInv, ReqInv, ReqOK
<1>2. CASE /\ text' = [text EXCEPT ![m] = "edited"] /\ Publishes(r, <<Upsert(m, "edited")>>)
           /\ UNCHANGED <<members, author, layer, client, overlapped, cut>>
  <2>1. /\ Upsert(m, "edited") \in Event /\ Upsert(m, "edited").msg = m
        /\ Upsert(m, "edited").text = "edited" /\ EventOK(Upsert(m, "edited"))
    BY <1>1, EventsAre DEF Texts
  <2>2. "edited" \in Texts \union {"deleted"} /\ "edited" # "deleted"
    BY DEF Texts
  <2>. HIDE DEF m
  <2>. QED  BY <1>1, <1>2, <2>1, <2>2, WriteKeeps
<1>. QED  BY <1>1, <1>2, RefusedKeeps DEF Edit

LEMMA DeleteKeeps == ASSUME IInv, NEW r \in Requests, Delete(r) PROVE IInv'
<1>. DEFINE m == req[r].msg
<1>1. m \in Messages /\ req[r].op = "delete"
  BY DEF Delete, IInv, ReqInv, ReqOK
<1>2. CASE /\ text' = [text EXCEPT ![m] = "deleted"] /\ Publishes(r, <<Deleted(m)>>)
           /\ UNCHANGED <<members, author, layer, client, overlapped, cut>>
  <2>1. /\ Deleted(m) \in Event /\ Deleted(m).msg = m
        /\ Deleted(m).text = "none" /\ EventOK(Deleted(m))
    BY <1>1, EventsAre
  <2>. HIDE DEF m
  <2>. QED  BY <1>1, <1>2, <2>1, WriteKeeps
<1>. QED  BY <1>1, <1>2, RefusedKeeps DEF Delete, history

\* A request sends the next of its events; what remains names no message.
LEMMA SendKeeps == ASSUME IInv, NEW r \in Requests, Send(r) PROVE IInv'
<1>. DEFINE out == req[r].out
            e == Head(out)
            q == IF Len(out) = 1 THEN Idle ELSE [req[r] EXCEPT !.out = Tail(out)]
<1>1. /\ req[r] \in Reqs /\ ReqOK(req[r]) /\ req[r].op = "send" /\ req[r] # Idle
      /\ UNCHANGED <<database, group, subs, hand, client, overlapped>>
      /\ inbox' = Sent(e) /\ req' = [req EXCEPT ![r] = q]
      /\ cut' = cut \union {c \in Receivers(e) : Len(inbox[c]) >= Capacity}
  BY IdleIs DEF Send, IInv, Typed, ReqInv
<1>2. /\ out \in Seq(Event) /\ out # <<>> /\ Len(out) \in Nat /\ Len(out) > 0 /\ e = out[1]
      /\ e \in Event /\ EventOK(e) /\ (e.msg # NoMessage => Len(out) = 1)
  <2>1. out \in Seq(Event) /\ out # <<>>
    BY <1>1 DEF Reqs, ReqOK
  <2>2. Len(out) \in Nat /\ Len(out) > 0 /\ e = out[1] /\ e \in Event
    BY <2>1, HeadTailProperties, EmptySeq
  <2>. QED  BY <1>1, <2>1, <2>2 DEF ReqOK
<1>3. q \in Reqs /\ ReqOK(q) /\ \A m \in Messages : ~(q.op = "send" /\ q.out[1].msg = m)
  <2>1. CASE Len(out) = 1
    BY <2>1, IdleIs
  <2>2. CASE Len(out) # 1
    <3>. DEFINE rest == Tail(out)
    <3>1. /\ rest \in Seq(Event) /\ Len(rest) = Len(out) - 1
          /\ \A i \in 1 .. Len(rest) : rest[i] = out[i + 1]
      BY <1>2, HeadTailProperties
    <3>. HIDE DEF rest
    <3>2. Len(rest) > 0 /\ rest # <<>>
      <4>. HIDE DEF out
      <4>1. Len(rest) > 0
        BY <1>2, <2>2, <3>1
      <4>2. Len(<<>>) = 0
        OBVIOUS
      <4>. QED  BY <4>1, <4>2
    <3>3. \A i \in 1 .. Len(out) : EventOK(out[i]) /\ out[i].msg = NoMessage
      BY <1>1, <2>2 DEF ReqOK
    <3>4. \A i \in 1 .. Len(rest) : i + 1 \in 1 .. Len(out)
      BY <1>2, <3>1
    <3>5. \A i \in 1 .. Len(rest) : EventOK(rest[i]) /\ rest[i].msg = NoMessage
      BY <3>1, <3>3, <3>4
    <3>6. q = [req[r] EXCEPT !.out = rest]
      BY <2>2 DEF rest
    <3>7. q \in Reqs /\ q.op = "send" /\ q.out = rest
      BY <1>1, <3>1, <3>6 DEF Reqs
    <3>8. rest[1].msg = NoMessage
      BY <3>1, <3>2, <3>5
    <3>. HIDE DEF q
    <3>. QED  BY <3>2, <3>5, <3>7, <3>8, MessageAssumption DEF ReqOK
  <2>. QED  BY <2>1, <2>2
<1>. HIDE DEF out, e, q
<1>4. /\ req' \in [Requests -> Reqs]
      /\ \A p \in Requests : req'[p] = IF p = r THEN q ELSE req[p]
  BY <1>1, <1>3 DEF IInv, Typed
<1>5. /\ Receivers(e) \subseteq Conns /\ inbox' \in [Conns -> Seq(Event)]
      /\ \A c \in Conns :
           /\ Len(inbox'[c]) <= Capacity
           /\ \A i \in 1 .. Len(inbox'[c]) : EventOK(inbox'[c][i])
           /\ inbox'[c] \in {inbox[c], Append(inbox[c], e)}
           /\ c \in Receivers(e) /\ Len(inbox[c]) < Capacity => inbox'[c] = Append(inbox[c], e)
  BY <1>1, <1>2, SentIs DEF IInv
<1>6. cut \subseteq cut' /\ cut' \subseteq Conns
  BY <1>1, <1>5 DEF IInv, Typed
<1>7. Typed'
  BY <1>1, <1>4, <1>5, <1>6 DEF IInv, Typed, database, members, client
<1>8. ReqInv'
  BY <1>3, <1>4 DEF IInv, ReqInv
<1>9. InboxInv'
  BY <1>5 DEF InboxInv
<1>10. SubInv' /\ HandInv'
  BY <1>1, <1>6 DEF IInv, SubInv, HandInv, database, members, client
<1>11. AloneInv'
  BY <1>1, <1>4 DEF IInv, AloneInv
<1>12. ~overlapped => \A p \in Requests : p # r => \A m \in Messages : ~Sends(p, m)
  BY <1>1, AloneIs
<1>13. SendInv'
  BY <1>1, <1>3, <1>4, <1>12 DEF SendInv, Sends
<1>14. ViewInv'
  <2>1. SUFFICES ASSUME ~overlapped, NEW c \in Conns \ cut', NEW m \in owed[c]
                 PROVE  EndsWith(inbox'[c], Shows(c), m, Stored(m))
    BY <1>1 DEF ViewInv, Stored, Shows, Shown, database, client
  <2>2. /\ m \in Messages /\ c \in Conns \ cut /\ c \in group /\ inbox[c] \in Seq(Event)
        /\ Len(inbox[c]) \in Nat
    BY <1>6, <2>1 DEF IInv, Typed, SubInv
  <2>3. IF e.msg = m THEN e.text = Stored(m) ELSE EndsWith(inbox[c], Shows(c), m, Stored(m))
    <3>1. CASE e.msg = m
      <4>1. Sends(r, m)
        BY <1>1, <1>2, <3>1 DEF Sends, out
      <4>2. req[r].out[1].text = Stored(m)
        BY <2>1, <2>2, <4>1 DEF IInv, SendInv
      <4>. QED  BY <1>2, <3>1, <4>2 DEF out
    <3>2. CASE e.msg # m
      <4>1. ~Sends(r, m)
        BY <1>2, <3>2 DEF Sends, out
      <4>2. ~\E p \in Requests : Sends(p, m)
        BY <1>12, <2>1, <2>2, <4>1
      <4>. QED  BY <2>1, <2>2, <3>2, <4>2 DEF IInv, ViewInv
    <3>. QED  BY <3>1, <3>2
  <2>4. EndsWith(Append(inbox[c], e), Shows(c), m, Stored(m))
    BY <1>2, <2>2, <2>3, EndsAppend
  <2>5. CASE e.msg = m
    <3>1. c \in Receivers(e)
      BY <1>2, <2>2, <2>5, MessageAssumption DEF Receivers, EventOK
    <3>2. Len(inbox[c]) < Capacity
      BY <1>1, <2>1, <2>2, <3>1, CapacityAssumption
    <3>. QED  BY <1>5, <2>2, <2>4, <3>1, <3>2
  <2>6. CASE e.msg # m
    BY <1>5, <2>2, <2>3, <2>4, <2>6
  <2>. QED  BY <2>5, <2>6
<1>. QED  BY <1>7, <1>8, <1>9, <1>10, <1>11, <1>13, <1>14 DEF IInv

LEMMA AnnouncementIs ==
  ASSUME NEW op, NEW u \in Users
  PROVE  LET out == Announcement(op, u)
         IN  /\ out \in Seq(Event)
             /\ \A i \in 1 .. Len(out) : EventOK(out[i]) /\ out[i].msg = NoMessage
<1>1. /\ Member \in Event /\ Member.msg = NoMessage /\ EventOK(Member)
      /\ ForceOut(u) \in Event /\ ForceOut(u).msg = NoMessage /\ EventOK(ForceOut(u))
  BY EventsAre
<1>. DEFINE Fine(out) == /\ out \in Seq(Event)
                         /\ \A i \in 1 .. Len(out) : EventOK(out[i]) /\ out[i].msg = NoMessage
<1>2. Fine(<<>>)
  OBVIOUS
<1>3. Fine(<<Member>>)
  <2>1. <<Member>> \in Seq(Event) /\ Len(<<Member>>) = 1 /\ <<Member>>[1] = Member
    BY <1>1
  <2>. QED  BY <1>1, <2>1
<1>4. Fine(<<Member, ForceOut(u)>>)
  <2>. DEFINE both == <<Member, ForceOut(u)>>
  <2>1. both \in Seq(Event) /\ Len(both) = 2 /\ both[1] = Member /\ both[2] = ForceOut(u)
    BY <1>1
  <2>2. \A i \in 1 .. 2 : i = 1 \/ i = 2
    OBVIOUS
  <2>. HIDE DEF both
  <2>3. Fine(both)
    BY <1>1, <2>1, <2>2
  <2>. QED  BY <2>3 DEF both
<1>. HIDE DEF Fine
<1>5. Fine(Announcement(op, u))
  BY <1>2, <1>3, <1>4 DEF Announcement
<1>. QED  BY <1>5 DEF Fine

\* Who loses access is owed nothing any more.
LEMMA ChangeKeeps ==
  ASSUME IInv, NEW r \in Requests, NEW op, NEW u \in Users, ChangeMembership(r, op, u)
  PROVE  IInv'
<1>. DEFINE out == Announcement(op, u)
<1>1. /\ req[r] = Idle /\ NoteOverlap /\ u # Owner
      /\ UNCHANGED <<text, author, layer, view, cut>>
      /\ subbed' = IF u \in access' THEN subbed ELSE {c \in subbed : UserOf[c] # u}
      /\ owed' = [c \in Conns |-> IF UserOf[c] \in access' THEN owed[c] ELSE {}]
      /\ access' \in {access \union {u}, access, access \ {u}}
      /\ admins' \subseteq access' \ {Owner}
  <2>1. /\ u # Owner /\ MayChange(op, u)
        /\ access' = CASE op = "enter" -> access \union {u}
                       [] op \in {"unban", "promote", "demote"} -> access
                       [] OTHER -> access \ {u}
        /\ admins' = IF op = "promote" THEN admins \union {u} ELSE admins \ {u}
        /\ admins \subseteq access \ {Owner}
    BY DEF ChangeMembership, IInv, Typed
  <2>2. access' \in {access \union {u}, access, access \ {u}}
    BY <2>1
  <2>3. admins' \subseteq access' \ {Owner}
    <3>1. CASE op = "promote"
      BY <2>1, <3>1 DEF MayChange
    <3>2. CASE op # "promote"
      BY <2>1, <2>2, <3>2
    <3>. QED  BY <3>1, <3>2
  <2>. QED  BY <2>2, <2>3 DEF ChangeMembership
<1>2. /\ overlapped' \in BOOLEAN
      /\ ~overlapped' => ~overlapped /\ \A p \in Requests : req[p] = Idle
  BY <1>1 DEF NoteOverlap, IInv, Typed
<1>3. PICK q \in Reqs : /\ req' = [req EXCEPT ![r] = q] /\ ReqOK(q)
                        /\ \A m \in Messages : ~(q.op = "send" /\ q.out[1].msg = m)
  <2>1. CASE out = <<>>
    <3>1. req' = [req EXCEPT ![r] = Idle]
      BY <1>1, <2>1 DEF ChangeMembership, IInv, Typed
    <3>. QED  BY <3>1, IdleIs
  <2>2. CASE out # <<>>
    <3>. DEFINE q == Publishing(out)
    <3>1. /\ out \in Seq(Event) /\ Len(out) \in Nat
          /\ \A i \in 1 .. Len(out) : EventOK(out[i]) /\ out[i].msg = NoMessage
      BY AnnouncementIs
    <3>2. req' = [req EXCEPT ![r] = q]
      BY <2>2 DEF ChangeMembership
    <3>. HIDE DEF out
    <3>3. q \in Reqs /\ q.op = "send" /\ q.out = out
      BY <3>1, OwnerAssumption DEF Publishing, Reqs
    <3>4. Len(out) > 0
      BY <2>2, <3>1, EmptySeq
    <3>5. out[1].msg = NoMessage
      BY <3>1, <3>4
    <3>6. ReqOK(q)
      BY <2>2, <3>1, <3>3 DEF ReqOK
    <3>. HIDE DEF q
    <3>. QED  BY <3>2, <3>3, <3>5, <3>6, MessageAssumption
  <2>. QED  BY <2>1, <2>2
<1>. HIDE DEF out
<1>4. /\ req' \in [Requests -> Reqs]
      /\ \A p \in Requests : req'[p] = IF p = r THEN q ELSE req[p]
  BY <1>3 DEF IInv, Typed
<1>5. /\ subbed' \subseteq subbed /\ owed' \in [Conns -> SUBSET Messages]
      /\ \A c \in Conns : owed'[c] \subseteq owed[c]
      /\ access' \subseteq Users /\ Owner \in access'
  BY <1>1 DEF IInv, Typed
<1>6. Typed'
  BY <1>1, <1>2, <1>4, <1>5 DEF IInv, Typed, layer
<1>7. ReqInv'
  BY <1>3, <1>4 DEF IInv, ReqInv
<1>8. InboxInv' /\ HandInv'
  BY <1>1 DEF IInv, InboxInv, HandInv, layer
<1>9. SubInv'
  <2>1. \A c \in Conns : c \in subbed' => UserOf[c] \in access'
    BY <1>1, ConnAssumption DEF IInv, SubInv
  <2>2. \A c \in Conns : owed'[c] # {} => c \in subbed'
    BY <1>1 DEF IInv, SubInv
  <2>. QED  BY <1>1, <1>5, <2>1, <2>2 DEF IInv, SubInv, layer
<1>10. AloneInv'
  BY <1>2, <1>4 DEF AloneInv
<1>11. \A p \in Requests, m \in Messages : ~overlapped' => ~Sends(p, m) /\ ~Sends(p, m)'
  BY <1>2, <1>3, <1>4, IdleIs DEF Sends
<1>12. SendInv'
  BY <1>11 DEF SendInv
<1>13. ViewInv'
  <2>1. SUFFICES ASSUME ~overlapped', NEW c \in Conns \ cut, NEW m \in owed'[c]
                 PROVE  EndsWith(inbox[c], Shows(c), m, Stored(m))
    BY <1>1 DEF ViewInv, Stored, Shows, Shown, layer
  <2>2. m \in owed[c] /\ m \in Messages
    BY <1>5, <2>1 DEF IInv, Typed
  <2>. QED  BY <1>2, <1>11, <2>1, <2>2 DEF IInv, ViewInv
<1>. QED  BY <1>6, <1>7, <1>8, <1>9, <1>10, <1>12, <1>13 DEF IInv

-----------------------------------------------------------------------------
(* The consumer.                                                           *)

\* A consumer that is about nothing turns to h, and may take its first event or
\* end a subscription on the way.
LEMMA TurnKeeps ==
  ASSUME IInv, NEW c \in Conns, hand[c] = Free,
         NEW h \in Hands, HandOK(h), hand' = [hand EXCEPT ![c] = h],
         NEW box \in Seq(Event), inbox' = [inbox EXCEPT ![c] = box], Len(box) <= Capacity,
         \A i \in 1 .. Len(box) : EventOK(box[i]),
         UNCHANGED <<database, req, view, overlapped>>,
         subbed' \subseteq subbed, owed' \in [Conns -> SUBSET Messages],
         group' \subseteq group, subs' = group',
         \A d \in Conns : d # c => /\ d \in group' <=> d \in group
                                   /\ d \in subbed' <=> d \in subbed
                                   /\ owed'[d] = owed[d],
         c \in subbed' /\ c \notin cut' => c \in group',
         owed'[c] \subseteq owed[c], owed'[c] # {} => c \in subbed',
         h.does = "drop" => c \notin subbed', cut' \in {cut, cut \union {c}},
         c \notin cut' => \A m \in owed'[c] :
           EndsWith(inbox[c], view[c], m, Stored(m)) =>
             EndsWith(box, IF h.does = "pass" THEN Shown(c, h.event) ELSE view[c], m, Stored(m))
  PROVE  IInv'
<1>1. /\ inbox' \in [Conns -> Seq(Event)] /\ hand' \in [Conns -> Hands]
      /\ \A d \in Conns : /\ inbox'[d] = IF d = c THEN box ELSE inbox[d]
                          /\ hand'[d] = IF d = c THEN h ELSE hand[d]
  BY DEF IInv, Typed
<1>2. cut \subseteq cut' /\ cut' \subseteq Conns /\ \A d \in Conns : d # c => (d \in cut' <=> d \in cut)
  BY DEF IInv, Typed
<1>3. Typed'
  BY <1>1, <1>2 DEF IInv, Typed, database, members
<1>4. ReqInv' /\ AloneInv' /\ SendInv'
  BY DEF IInv, ReqInv, AloneInv, SendInv, Sends, Stored, database
<1>5. InboxInv' /\ HandInv'
  BY <1>1 DEF IInv, InboxInv, HandInv
<1>6. SubInv'
  BY <1>1, <1>2 DEF IInv, SubInv, database, members
<1>7. ViewInv'
  <2>1. SUFFICES ASSUME ~overlapped, NEW d \in Conns \ cut', NEW m \in owed'[d],
                        ~\E p \in Requests : Sends(p, m)
                 PROVE  EndsWith(inbox'[d], Shows(d)', m, Stored(m))
    BY DEF ViewInv, Sends, Stored, database
  <2>2. m \in owed[d] /\ EndsWith(inbox[d], Shows(d), m, Stored(m))
    BY <1>2, <2>1 DEF IInv, ViewInv
  <2>3. CASE d = c
    <3>1. Shows(c) = view[c]
      BY FreeIs DEF Shows
    <3>2. Shows(c)' = IF h.does = "pass" THEN Shown(c, h.event) ELSE view[c]
      BY <1>1 DEF Shows, Shown
    <3>. QED  BY <1>1, <2>1, <2>2, <2>3, <3>1, <3>2
  <2>4. CASE d # c
    BY <1>1, <2>2, <2>4 DEF Shows, Shown
  <2>. QED  BY <2>3, <2>4
<1>. QED  BY <1>3, <1>4, <1>5, <1>6, <1>7 DEF IInv

LEMMA BoxIs ==
  ASSUME IInv, NEW c \in Conns
  PROVE  /\ inbox[c] \in Seq(Event) /\ Len(inbox[c]) <= Capacity
         /\ \A i \in 1 .. Len(inbox[c]) : EventOK(inbox[c][i])
         /\ inbox = [inbox EXCEPT ![c] = inbox[c]]
BY DEF IInv, Typed, InboxInv

LEMMA SubscribeKeeps == ASSUME IInv, NEW c \in Conns, Subscribe(c) PROVE IInv'
<1>. DEFINE h == [does |-> "join", event |-> Member]
<1>1. /\ hand[c] = Free /\ hand' = [hand EXCEPT ![c] = h]
      /\ UNCHANGED <<database, req, group, subs, inbox, client, history>>
  BY DEF Subscribe, GoesOn
<1>2. h \in Hands /\ HandOK(h) /\ h.does = "join"
  BY EventsAre DEF Hands, HandOK, Member
<1>. HIDE DEF h
<1>3. inbox' = [inbox EXCEPT ![c] = inbox[c]]
  BY <1>1, BoxIs
<1>. QED  BY <1>1, <1>2, <1>3, BoxIs, TurnKeeps DEF IInv, Typed, SubInv, client, history

LEMMA UnsubscribeKeeps == ASSUME IInv, NEW c \in Conns, Unsubscribe(c) PROVE IInv'
<1>1. /\ hand[c] = Free /\ group' = group \ {c} /\ subs' = subs \ {c} /\ subbed' = subbed \ {c}
      /\ owed' = [owed EXCEPT ![c] = {}] /\ UNCHANGED <<database, req, inbox, hand, view, history>>
  BY DEF Unsubscribe
<1>2. /\ owed' \in [Conns -> SUBSET Messages]
      /\ \A d \in Conns : owed'[d] = IF d = c THEN {} ELSE owed[d]
  BY <1>1 DEF IInv, Typed
<1>3. inbox' = [inbox EXCEPT ![c] = inbox[c]] /\ hand' = [hand EXCEPT ![c] = Free]
  BY <1>1, BoxIs DEF IInv, Typed
<1>4. group' \subseteq group /\ subs' = group' /\ subbed' \subseteq subbed
  BY <1>1 DEF IInv, Typed
<1>. QED  BY <1>1, <1>2, <1>3, <1>4, BoxIs, FreeIs, TurnKeeps DEF history

LEMMA FirstIs ==
  ASSUME IInv, NEW c \in Conns, inbox[c] # <<>>
  PROVE  /\ Head(inbox[c]) \in Event /\ EventOK(Head(inbox[c]))
         /\ Tail(inbox[c]) \in Seq(Event) /\ Len(Tail(inbox[c])) <= Capacity
         /\ \A i \in 1 .. Len(Tail(inbox[c])) : EventOK(Tail(inbox[c])[i])
<1>1. /\ inbox[c] \in Seq(Event) /\ Len(inbox[c]) > 0 /\ Head(inbox[c]) = inbox[c][1]
      /\ Len(inbox[c]) \in Nat /\ Len(inbox[c]) <= Capacity /\ Head(inbox[c]) \in Event
      /\ Tail(inbox[c]) \in Seq(Event) /\ Len(Tail(inbox[c])) = Len(inbox[c]) - 1
      /\ \A i \in 1 .. Len(Tail(inbox[c])) : Tail(inbox[c])[i] = inbox[c][i + 1]
  BY HeadTailProperties, EmptySeq DEF IInv, Typed
<1>2. 1 \in 1 .. Len(inbox[c]) /\ \A i \in 1 .. Len(Tail(inbox[c])) : i + 1 \in 1 .. Len(inbox[c])
  BY <1>1
<1>3. Len(Tail(inbox[c])) <= Capacity
  BY <1>1, CapacityAssumption
<1>. QED  BY <1>1, <1>2, <1>3 DEF IInv, InboxInv

\* What a client that takes e shows of m.
LEMMA ShownIs ==
  ASSUME IInv, NEW c \in Conns, NEW e \in Event, EventOK(e), e.kind # "force"
  PROVE  /\ Shown(c, e) \in [Messages -> Texts]
         /\ \A m \in Messages : Shown(c, e)[m] = IF e.msg = m THEN e.text ELSE view[c][m]
<1>1. view[c] \in [Messages -> Texts] /\ e.text \in Texts /\ e.msg \in Messages \union {NoMessage}
      /\ e.kind \in {"upsert", "delete", "member"}
  BY DEF IInv, Typed, Event
<1>2. CASE e.kind = "member"
  BY <1>1, <1>2, MessageAssumption DEF Shown, EventOK
<1>3. CASE e.kind # "member"
  BY <1>1, <1>3 DEF Shown, EventOK
<1>. QED  BY <1>2, <1>3

LEMMA CheckKeeps == ASSUME IInv, NEW c \in Conns, Check(c) PROVE IInv'
<1>. DEFINE e == Head(inbox[c])
            box == Tail(inbox[c])
<1>1. /\ hand[c] = Free /\ inbox[c] # <<>> /\ e.kind # "force" /\ inbox' = [inbox EXCEPT ![c] = box]
      /\ UNCHANGED <<database, req, group, subs, client, history>>
  BY DEF Check, Takes
<1>2. /\ e \in Event /\ EventOK(e) /\ box \in Seq(Event) /\ Len(box) <= Capacity
      /\ \A i \in 1 .. Len(box) : EventOK(box[i])
  BY <1>1, FirstIs
<1>3. PICK h \in Hands : /\ hand' = [hand EXCEPT ![c] = h] /\ HandOK(h)
                         /\ HasAccess(c) => h.does = "pass" /\ h.event = e
                         /\ h.does = "drop" => ~HasAccess(c)
  <2>. HIDE DEF e, box
  <2>. DEFINE Turned(does, f) == [does |-> does, event |-> f]
  <2>1. CASE MayReceive(c) /\ GoesOn(c, "pass", e)
    <3>1. hand' = [hand EXCEPT ![c] = Turned("pass", e)]
      BY <2>1 DEF GoesOn
    <3>2. Turned("pass", e) \in Hands /\ HandOK(Turned("pass", e))
      BY <1>1, <1>2 DEF Hands, HandOK, e
    <3>. QED  BY <2>1, <3>1, <3>2 DEF MayReceive
  <2>2. CASE ~MayReceive(c) /\ GoesOn(c, "drop", Member)
    <3>1. hand' = [hand EXCEPT ![c] = Turned("drop", Member)]
      BY <2>2 DEF GoesOn
    <3>2. Turned("drop", Member) \in Hands /\ HandOK(Turned("drop", Member))
      BY EventsAre DEF Hands, HandOK, Member
    <3>. QED  BY <2>2, <3>1, <3>2 DEF MayReceive
  <2>3. CASE ~MayReceive(c) /\ UNCHANGED hand
    <3>1. hand' = [hand EXCEPT ![c] = Free]
      BY <1>1, <2>3 DEF IInv, Typed
    <3>. QED  BY <2>3, <3>1, FreeIs DEF MayReceive
  <2>. QED  BY <2>1, <2>2, <2>3 DEF Check, e
<1>4. \A m \in owed[c] : EndsWith(inbox[c], view[c], m, Stored(m)) =>
        EndsWith(box, IF h.does = "pass" THEN Shown(c, h.event) ELSE view[c], m, Stored(m))
  <2>1. SUFFICES ASSUME NEW m \in owed[c], EndsWith(inbox[c], view[c], m, Stored(m))
                 PROVE  EndsWith(box, IF h.does = "pass" THEN Shown(c, h.event) ELSE view[c], m, Stored(m))
    OBVIOUS
  <2>2. m \in Messages /\ h.does = "pass" /\ h.event = e /\ inbox[c] \in Seq(Event)
    BY <1>3, <2>1 DEF IInv, Typed, SubInv, HasAccess
  <2>3. Shown(c, e)[m] = IF e.msg = m THEN e.text ELSE view[c][m]
    BY <1>1, <1>2, <2>2, ShownIs
  <2>4. EndsWith(box, Shown(c, e), m, Stored(m))
    BY <1>1, <2>1, <2>2, <2>3, EndsTail
  <2>. QED  BY <2>2, <2>4
<1>5. h.does = "drop" => c \notin subbed
  BY <1>3 DEF IInv, SubInv, HasAccess
<1>. HIDE DEF e, box
<1>6. UNCHANGED <<group, subs, view, subbed, owed, overlapped, cut>> /\ group = subs
  BY <1>1 DEF client, history, IInv, Typed
<1>7. owed \in [Conns -> SUBSET Messages] /\ (c \in subbed \ cut => c \in group)
      /\ (owed[c] # {} => c \in subbed)
  BY DEF IInv, Typed, SubInv
<1>. QED  BY <1>1, <1>2, <1>3, <1>4, <1>5, <1>6, <1>7, TurnKeeps

LEMMA ForcedKeeps == ASSUME IInv, NEW c \in Conns, Forced(c) PROVE IInv'
<1>. DEFINE box == Tail(inbox[c])
<1>1. /\ hand[c] = Free /\ inbox[c] # <<>> /\ inbox' = [inbox EXCEPT ![c] = box]
      /\ group' = group \ {c} /\ subs' = subs \ {c}
      /\ cut' = IF HasAccess(c) THEN cut \union {c} ELSE cut
      /\ UNCHANGED <<database, req, hand, client, overlapped>>
  BY DEF Forced, Takes, DropSubscription
<1>2. /\ box \in Seq(Event) /\ Len(box) <= Capacity /\ \A i \in 1 .. Len(box) : EventOK(box[i])
  BY <1>1, FirstIs
<1>. HIDE DEF box
<1>3. hand' = [hand EXCEPT ![c] = Free]
  BY <1>1 DEF IInv, Typed
<1>4. /\ UNCHANGED <<view, subbed, owed>> /\ group' \subseteq group /\ subs' = group'
      /\ cut' \in {cut, cut \union {c}}
  BY <1>1 DEF client, IInv, Typed
<1>5. /\ owed \in [Conns -> SUBSET Messages] /\ (owed[c] # {} => c \in subbed)
      /\ c \notin cut' => c \notin subbed
  BY <1>1 DEF IInv, Typed, SubInv, HasAccess
<1>. QED  BY <1>1, <1>2, <1>3, <1>4, <1>5, FreeIs, TurnKeeps

\* The hands of a consumer become free.
LEMMA FreedKeeps ==
  ASSUME IInv, NEW c \in Conns, hand[c].does # "nothing", hand' = [hand EXCEPT ![c] = Free],
         view' = [view EXCEPT ![c] = Shows(c)],
         UNCHANGED <<database, req, inbox, owed, overlapped, cut>>,
         group' = subs', group' \subseteq Conns,
         subbed \subseteq subbed', subbed' \subseteq subbed \union {c},
         c \in subbed' => HasAccess(c) /\ c \in group' \union cut,
         \A d \in Conns : d # c => (d \in group' <=> d \in group)
  PROVE  IInv'
<1>1. Shows(c) \in [Messages -> Texts]
  <2>1. hand[c].event \in Event /\ HandOK(hand[c]) /\ view[c] \in [Messages -> Texts]
    BY DEF IInv, Typed, HandInv, Hands
  <2>. QED  BY <2>1, ShownIs DEF Shows, HandOK
<1>2. /\ hand' \in [Conns -> Hands] /\ view' \in [Conns -> [Messages -> Texts]]
      /\ \A d \in Conns : /\ hand'[d] = IF d = c THEN Free ELSE hand[d]
                          /\ view'[d] = IF d = c THEN Shows(c) ELSE view[d]
  BY <1>1, FreeIs DEF IInv, Typed
<1>3. Typed'
  BY <1>2 DEF IInv, Typed, database, members
<1>4. ReqInv' /\ AloneInv' /\ SendInv' /\ InboxInv'
  BY DEF IInv, ReqInv, AloneInv, SendInv, InboxInv, Sends, Stored, database
<1>5. HandInv'
  BY <1>2, FreeIs DEF IInv, HandInv
<1>6. SubInv'
  BY <1>2, FreeIs DEF IInv, SubInv, HasAccess, database, members
<1>7. ViewInv'
  <2>1. \A d \in Conns : Shows(d)' = Shows(d)
    BY <1>2, FreeIs DEF Shows, Shown
  <2>. QED  BY <2>1 DEF IInv, ViewInv, Sends, Stored, database
<1>. QED  BY <1>3, <1>4, <1>5, <1>6, <1>7 DEF IInv

LEMMA PassKeeps == ASSUME IInv, NEW c \in Conns, Pass(c) PROVE IInv'
<1>1. /\ hand[c].does = "pass" /\ hand' = [hand EXCEPT ![c] = Free]
      /\ view' = [view EXCEPT ![c] = Shows(c)]
      /\ UNCHANGED <<database, req, group, subs, inbox, subbed, owed, history>>
  BY DEF Pass, Shows
<1>. QED  BY <1>1, FreedKeeps DEF IInv, Typed, SubInv, HasAccess, history

LEMMA DropKeeps == ASSUME IInv, NEW c \in Conns, Drop(c) PROVE IInv'
<1>1. /\ hand[c].does = "drop" /\ hand' = [hand EXCEPT ![c] = Free]
      /\ group' = group \ {c} /\ subs' = subs \ {c}
      /\ UNCHANGED <<database, req, inbox, client, history>>
  BY DEF Drop, DropSubscription
<1>2. view' = [view EXCEPT ![c] = Shows(c)] /\ c \notin subbed
  BY <1>1 DEF Shows, IInv, Typed, SubInv, client
<1>. QED  BY <1>1, <1>2, FreedKeeps DEF IInv, Typed, client, history

LEMMA JoinKeeps == ASSUME IInv, NEW c \in Conns, Join(c) PROVE IInv'
<1>1. /\ hand[c].does = "join" /\ hand' = [hand EXCEPT ![c] = Free]
      /\ group' = group \union {c} /\ subs' = subs \union {c}
      /\ subbed' = IF HasAccess(c) THEN subbed \union {c} ELSE subbed
      /\ UNCHANGED <<database, req, inbox, owed, view, history>>
  BY DEF Join
<1>2. view' = [view EXCEPT ![c] = Shows(c)]
  BY <1>1 DEF Shows, IInv, Typed
<1>. QED  BY <1>1, <1>2, FreedKeeps DEF IInv, Typed, SubInv, HasAccess, history

-----------------------------------------------------------------------------
(* The theorems.                                                           *)

LEMMA StartIs ==
  ASSUME IInv, NEW r \in Requests, NEW op \in {"post", "edit", "delete"}, NEW u \in Users,
         NEW m \in Messages, Start(r, op, u, m)
  PROVE  IInv'
<1>. DEFINE q == [op |-> op, user |-> u, msg |-> m, out |-> <<>>]
<1>1. q \in Reqs /\ q.op = op /\ q.msg = m /\ q.out = <<>> /\ Len(q.out) = 0
  BY EmptySeq DEF Reqs
<1>2. /\ req[r] = Idle /\ req' = [req EXCEPT ![r] = q] /\ NoteOverlap
      /\ UNCHANGED <<database, layer, client, cut>>
  BY DEF Start
<1>. HIDE DEF q
<1>3. ReqOK(q) /\ q.op \in {"post", "edit", "delete"}
  BY <1>1 DEF ReqOK
<1>. QED  BY <1>1, <1>2, <1>3, StartKeeps

LEMMA StutterKeeps == IInv /\ UNCHANGED vars => IInv'
<1>. SUFFICES ASSUME IInv, UNCHANGED vars PROVE IInv'
  OBVIOUS
<1>1. Typed' /\ ReqInv' /\ InboxInv' /\ HandInv' /\ SubInv' /\ AloneInv' /\ SendInv'
  BY DEF vars, IInv, Typed, ReqInv, InboxInv, HandInv, SubInv, AloneInv, SendInv, Sends, Stored
<1>2. ViewInv'
  BY DEF vars, IInv, ViewInv, Sends, Stored, Shows, Shown
<1>. QED  BY <1>1, <1>2 DEF IInv

LEMMA NextKeeps == IInv /\ [Next]_vars => IInv'
<1>. SUFFICES ASSUME IInv, Next PROVE IInv'
  BY StutterKeeps
<1>1. ASSUME NEW r \in Requests, NEW u \in Users, NEW m \in Messages,
             NEW op \in {"post", "edit", "delete"}, Start(r, op, u, m)
      PROVE  IInv'
  BY <1>1, StartIs
<1>2. ASSUME NEW r \in Requests, NEW u \in Users,
             NEW op \in AllOps \ {"post", "edit", "delete"}, ChangeMembership(r, op, u)
      PROVE  IInv'
  BY <1>2, ChangeKeeps
<1>3. ASSUME NEW r \in Requests, RequestStep(r)
      PROVE  IInv'
  BY <1>3, PostKeeps, EditKeeps, DeleteKeeps, SendKeeps DEF RequestStep
<1>4. ASSUME NEW c \in Conns, Subscribe(c) \/ Unsubscribe(c) \/ TakesEvent(c)
      PROVE  IInv'
  BY <1>4, SubscribeKeeps, UnsubscribeKeeps, CheckKeeps, ForcedKeeps DEF TakesEvent
<1>5. ASSUME NEW c \in Conns, GoesOnStep(c)
      PROVE  IInv'
  BY <1>5, PassKeeps, DropKeeps, JoinKeeps DEF GoesOnStep
<1>. QED  BY <1>1, <1>2, <1>3, <1>4, <1>5 DEF Next

\* The inductive invariant of requests, channels and clients holds.
THEOREM RealtimeInvariant == Spec => []IInv
BY InitOK, NextKeeps, PTL DEF Spec

\* Until requests overlap, every client that was not cut off shows the database
\* once what was sent has arrived (consumers.py broadcast_event, App.tsx).
THEOREM ViewFollowsSerialRequestsHolds == Spec => []ViewFollowsSerialRequests
<1>1. IInv => ViewFollowsSerialRequests
  <2>1. SUFFICES ASSUME IInv, ~overlapped, NEW c \in Conns \ cut, Quiet(c), NEW m \in owed[c]
                 PROVE  view[c][m] = Stored(m)
    BY DEF ViewFollowsSerialRequests, ShowsDatabase, Stored
  <2>2. m \in Messages /\ ~\E r \in Requests : Sends(r, m)
    BY <2>1 DEF Quiet, Sends, IInv, Typed
  <2>3. EndsWith(inbox[c], view[c], m, Stored(m))
    BY <2>1, <2>2 DEF IInv, ViewInv, Shows, Quiet
  <2>4. inbox[c] = <<>> /\ Len(<<>>) = 0
    BY <2>1 DEF Quiet
  <2>. QED  BY <2>3, <2>4 DEF EndsWith
<1>. QED  BY <1>1, RealtimeInvariant, PTL

-----------------------------------------------------------------------------
(* What is withheld.                                                       *)

\* The text t of m has been written.
Written(m, t) ==
  /\ t = "first" => text[m] # "none"
  /\ t = "edited" => text[m] \in {"edited", "deleted"}

Known(e) == e.msg # NoMessage => Written(e.msg, e.text)

\* Whatever is in circulation has been written.
KnownInv ==
  /\ \A r \in Requests : \A i \in 1 .. Len(req[r].out) : Known(req[r].out[i])
  /\ \A c \in Conns : \A i \in 1 .. Len(inbox[c]) : Known(inbox[c][i])
  /\ \A c \in Conns : Known(hand[c].event)
  /\ \A c \in Conns, m \in Messages : Written(m, view[c][m])

\* Nothing is withheld from who has access, and nothing withheld was let through.
WithheldInv ==
  /\ withheld \in [Users -> SUBSET (Messages \X Texts)]
  /\ \A u \in access : withheld[u] = {}
  /\ \A c \in Conns : <<hand[c].event.msg, hand[c].event.text>> \notin withheld[UserOf[c]]
  /\ NothingWithheldIsShown

KInv == KnownInv /\ WithheldInv

LEMMA KInit == Init => KInv
<1>. SUFFICES ASSUME Init PROVE KInv
  OBVIOUS
<1>1. /\ \A r \in Requests : Len(req[r].out) = 0
      /\ \A c \in Conns : Len(inbox[c]) = 0 /\ hand[c].event = Member
      /\ \A c \in Conns, m \in Messages : view[c][m] = "none"
  BY EmptySeq, IdleIs, FreeIs DEF Init
<1>2. KnownInv
  BY <1>1, EventsAre DEF KnownInv, Known, Written
<1>3. withheld = [u \in Users |-> {}] /\ access = Users
  BY DEF Init
<1>4. WithheldInv
  BY <1>3, ConnAssumption DEF WithheldInv, NothingWithheldIsShown
<1>. QED  BY <1>2, <1>4 DEF KInv

\* What has been written stays so.
LEMMA WriteKnows ==
  ASSUME IInv, NEW m \in Messages, NEW x \in Texts \union {"deleted"},
         text' = [text EXCEPT ![m] = x],
         \/ x = "first" /\ text[m] = "none"
         \/ x = "edited" /\ text[m] = "first"
         \/ x = "deleted"
  PROVE  \A n \in Messages, t \in Texts : Written(n, t) => Written(n, t)'
BY DEF Written, IInv, Typed

\* A request writes the text x of m, which no one has seen, and withholds it from
\* those without access.
LEMMA CommitKnows ==
  ASSUME IInv, KInv, NEW r \in Requests, NEW m \in Messages, NEW x \in Texts \union {"deleted"},
         text' = [text EXCEPT ![m] = x],
         \/ x = "first" /\ text[m] = "none" /\ Withhold(m, x)
         \/ x = "edited" /\ text[m] = "first" /\ Withhold(m, x)
         \/ x = "deleted" /\ withheld' = withheld,
         NEW e \in Event, e.msg = m, e.text = IF x = "deleted" THEN "none" ELSE x,
         Publishes(r, <<e>>), UNCHANGED <<members, layer, view>>
  PROVE  KInv'
<1>1. \A n \in Messages, t \in Texts : Written(n, t) => Written(n, t)'
  BY WriteKnows
<1>2. \A f \in Event : Known(f) => Known(f)'
  BY <1>1 DEF Known, Event
<1>3. Known(e)'
  BY DEF Known, Written, IInv, Typed, Texts
<1>4. KnownInv'
  <2>1. ASSUME NEW p \in Requests, NEW i \in 1 .. Len(req'[p].out)
        PROVE  Known(req[p].out[i])'
    <3>1. CASE p = r
      <4>1. req'[p].out = <<e>>
        BY <3>1 DEF Publishes, Publishing, IInv, Typed
      <4>2. Len(<<e>>) = 1 /\ <<e>>[1] = e /\ \A j \in 1 .. 1 : j = 1
        OBVIOUS
      <4>. QED  BY <1>3, <2>1, <4>1, <4>2
    <3>2. CASE p # r
      <4>1. req'[p] = req[p] /\ req[p].out \in Seq(Event)
        BY <3>2 DEF Publishes, IInv, Typed, Reqs
      <4>2. req[p].out[i] \in Event /\ Known(req[p].out[i])
        BY <2>1, <4>1 DEF KInv, KnownInv
      <4>. QED  BY <1>2, <4>1, <4>2
    <3>. QED  BY <3>1, <3>2
  <2>2. ASSUME NEW c \in Conns, NEW i \in 1 .. Len(inbox'[c])
        PROVE  Known(inbox[c][i])'
    <3>1. inbox' = inbox /\ inbox[c] \in Seq(Event)
      BY DEF layer, IInv, Typed
    <3>2. inbox[c][i] \in Event /\ Known(inbox[c][i])
      BY <2>2, <3>1 DEF KInv, KnownInv
    <3>. QED  BY <1>2, <3>1, <3>2
  <2>3. ASSUME NEW c \in Conns
        PROVE  Known(hand[c].event)' /\ \A n \in Messages : Written(n, view[c][n])'
    <3>1. /\ hand' = hand /\ view' = view /\ hand[c].event \in Event
          /\ view[c] \in [Messages -> Texts]
      BY DEF layer, IInv, Typed, Hands
    <3>. QED  BY <1>1, <1>2, <3>1 DEF KInv, KnownInv
  <2>. QED  BY <2>1, <2>2, <2>3 DEF KnownInv
<1>5. WithheldInv'
  <2>1. CASE withheld' = withheld
    BY <2>1 DEF KInv, WithheldInv, NothingWithheldIsShown, members, layer
  <2>2. CASE /\ Withhold(m, x)
             /\ \/ x = "first" /\ text[m] = "none"
                \/ x = "edited" /\ text[m] = "first"
    <3>1. x \in Texts /\ withheld \in [Users -> SUBSET (Messages \X Texts)]
      BY <2>2 DEF Texts, KInv, WithheldInv
    <3>2. withheld' = [u \in Users |-> IF u \in access THEN withheld[u]
                                       ELSE withheld[u] \union {<<m, x>>}]
      BY <2>2 DEF Withhold
    <3>3. /\ withheld' \in [Users -> SUBSET (Messages \X Texts)]
          /\ \A u \in access : withheld'[u] = {}
          /\ \A u \in Users : withheld'[u] \subseteq withheld[u] \union {<<m, x>>}
      BY <3>1, <3>2 DEF IInv, Typed, KInv, WithheldInv
    <3>4. ~Written(m, x)
      BY <2>2 DEF Written
    <3>5. ASSUME NEW c \in Conns
          PROVE  <<hand[c].event.msg, hand[c].event.text>> # <<m, x>>
      <4>1. Known(hand[c].event) /\ m # NoMessage
        BY MessageAssumption DEF KInv, KnownInv
      <4>. QED  BY <3>4, <4>1 DEF Known
    <3>6. \A c \in Conns, n \in Messages : <<n, view[c][n]>> # <<m, x>>
      BY <3>4 DEF KInv, KnownInv
    <3>7. \A c \in Conns : UserOf[c] \in Users
      BY ConnAssumption
    <3>8. NothingWithheldIsShown'
      BY <3>3, <3>6, <3>7 DEF KInv, WithheldInv, NothingWithheldIsShown
    <3>9. \A c \in Conns : <<hand[c].event.msg, hand[c].event.text>> \notin withheld'[UserOf[c]]
      BY <3>3, <3>5, <3>7 DEF KInv, WithheldInv
    <3>. QED  BY <3>3, <3>8, <3>9 DEF WithheldInv, members, layer
  <2>. QED  BY <2>1, <2>2
<1>. QED  BY <1>4, <1>5 DEF KInv

LEMMA RequestKnows ==
  ASSUME IInv, KInv, NEW r \in Requests, Post(r) \/ Edit(r) \/ Delete(r)
  PROVE  KInv'
<1>. DEFINE m == req[r].msg
<1>1. m \in Messages
  BY DEF Post, Edit, Delete, IInv, ReqInv, ReqOK
<1>2. CASE Post(r)
  <2>1. /\ text[m] = "none" /\ text' = [text EXCEPT ![m] = "first"]
        /\ Withhold(m, "first") /\ Publishes(r, <<Upsert(m, "first")>>)
        /\ UNCHANGED <<members, layer, view>>
    BY <1>2 DEF Post
  <2>2. /\ Upsert(m, "first") \in Event /\ Upsert(m, "first").msg = m
        /\ Upsert(m, "first").text = "first" /\ "first" \in Texts
    BY <1>1, EventsAre DEF Texts
  <2>. HIDE DEF m
  <2>. QED  BY <1>1, <2>1, <2>2, CommitKnows
<1>3. CASE /\ text[m] = "first" /\ text' = [text EXCEPT ![m] = "edited"]
           /\ Withhold(m, "edited") /\ Publishes(r, <<Upsert(m, "edited")>>)
           /\ UNCHANGED <<members, layer, view>>
  <2>1. /\ Upsert(m, "edited") \in Event /\ Upsert(m, "edited").msg = m
        /\ Upsert(m, "edited").text = "edited" /\ "edited" \in Texts
    BY <1>1, EventsAre DEF Texts
  <2>. HIDE DEF m
  <2>. QED  BY <1>1, <1>3, <2>1, CommitKnows
<1>4. CASE /\ text' = [text EXCEPT ![m] = "deleted"] /\ withheld' = withheld
           /\ Publishes(r, <<Deleted(m)>>) /\ UNCHANGED <<members, layer, view>>
  <2>1. Deleted(m) \in Event /\ Deleted(m).msg = m /\ Deleted(m).text = "none"
    BY <1>1, EventsAre
  <2>. HIDE DEF m
  <2>. QED  BY <1>1, <1>4, <2>1, CommitKnows
<1>5. CASE Refused(r)
  <2>1. /\ \A p \in Requests : req'[p] = IF p = r THEN Idle ELSE req[p]
        /\ UNCHANGED <<text, access, inbox, hand, view, withheld>>
    BY <1>5 DEF Refused, IInv, Typed, database, members, layer, client, history
  <2>2. Len(Idle.out) = 0
    BY IdleIs, EmptySeq
  <2>. QED  BY <2>1, <2>2 DEF KInv, KnownInv, Known, Written, WithheldInv, NothingWithheldIsShown
<1>. QED  BY <1>2, <1>3, <1>4, <1>5 DEF Edit, MayEdit, Delete, client, history

\* Events move on: what a request or a channel holds next, it or the request held.
LEMMA SendKnows == ASSUME IInv, KInv, NEW r \in Requests, Send(r) PROVE KInv'
<1>. DEFINE out == req[r].out
            e == Head(out)
<1>1. /\ inbox' = Sent(e)
      /\ req' = [req EXCEPT ![r] = IF Len(out) = 1 THEN Idle ELSE [@ EXCEPT !.out = Tail(out)]]
      /\ UNCHANGED <<text, access, hand, view, withheld>>
  BY DEF Send, database, members, client
<1>2. /\ req[r] \in Reqs /\ ReqOK(req[r]) /\ out \in Seq(Event) /\ out # <<>>
  BY DEF Send, IInv, Typed, ReqInv, ReqOK, Reqs
<1>3. /\ Len(out) \in Nat /\ Len(out) > 0 /\ e = out[1] /\ e \in Event /\ Tail(out) \in Seq(Event)
      /\ Len(Tail(out)) = Len(out) - 1 /\ \A i \in 1 .. Len(Tail(out)) : Tail(out)[i] = out[i + 1]
  BY <1>2, HeadTailProperties, EmptySeq
<1>4. \A i \in 1 .. Len(out) : Known(out[i]) /\ EventOK(out[i])
  BY <1>2 DEF KInv, KnownInv, ReqOK
<1>5. Known(e) /\ EventOK(e)
  <2>1. 1 \in 1 .. Len(out)
    BY <1>3
  <2>. QED  BY <1>3, <1>4, <2>1
<1>6. ASSUME NEW p \in Requests, NEW i \in 1 .. Len(req'[p].out)
      PROVE  Known(req'[p].out[i])
  <2>1. CASE p # r
    BY <1>1, <1>6, <2>1 DEF IInv, Typed, KInv, KnownInv
  <2>2. CASE p = r /\ Len(out) = 1
    <3>1. Len(req'[p].out) = 0
      BY <1>1, <2>2, IdleIs, EmptySeq DEF IInv, Typed
    <3>. QED  BY <1>6, <3>1
  <2>3. CASE p = r /\ Len(out) # 1
    <3>1. req'[p].out = Tail(out)
      BY <1>1, <1>2, <2>3 DEF IInv, Typed, Reqs
    <3>2. i \in 1 .. Len(Tail(out)) /\ i + 1 \in 1 .. Len(out)
      BY <1>3, <1>6, <3>1
    <3>. QED  BY <1>3, <1>4, <3>1, <3>2
  <2>. QED  BY <2>1, <2>2, <2>3
<1>. HIDE DEF out, e
<1>7. ASSUME NEW c \in Conns, NEW i \in 1 .. Len(inbox'[c])
      PROVE  Known(inbox'[c][i])
  <2>1. inbox[c] \in Seq(Event) /\ Len(inbox[c]) \in Nat
    BY DEF IInv, Typed
  <2>2. \A j \in 1 .. Len(inbox[c]) : Known(inbox[c][j])
    BY DEF KInv, KnownInv
  <2>3. CASE inbox'[c] = inbox[c]
    BY <1>7, <2>2, <2>3
  <2>4. CASE inbox'[c] = Append(inbox[c], e)
    <3>1. /\ Len(Append(inbox[c], e)) = Len(inbox[c]) + 1
          /\ Append(inbox[c], e)[Len(inbox[c]) + 1] = e
          /\ \A j \in 1 .. Len(inbox[c]) : Append(inbox[c], e)[j] = inbox[c][j]
      BY <1>3, <2>1, AppendProperties
    <3>2. i \in 1 .. Len(inbox[c]) \/ i = Len(inbox[c]) + 1
      BY <1>7, <2>1, <2>4, <3>1
    <3>. QED  BY <1>5, <2>2, <2>4, <3>1, <3>2
  <2>. QED  BY <1>1, <1>3, <1>5, <2>3, <2>4, SentIs DEF IInv
<1>. QED  BY <1>1, <1>6, <1>7 DEF KInv, KnownInv, Known, Written, WithheldInv, NothingWithheldIsShown

LEMMA StartKnows ==
  ASSUME IInv, KInv, NEW r \in Requests, NEW op, NEW u \in Users, NEW m \in Messages, Start(r, op, u, m)
  PROVE  KInv'
<1>1. /\ \A p \in Requests : req'[p].out = IF p = r THEN <<>> ELSE req[p].out
      /\ UNCHANGED <<text, access, inbox, hand, view, withheld>>
  BY DEF Start, IInv, Typed, database, members, layer, client
<1>2. Len(<<>>) = 0
  OBVIOUS
<1>. QED  BY <1>1, <1>2 DEF KInv, KnownInv, Known, Written, WithheldInv, NothingWithheldIsShown

LEMMA ChangeKnows ==
  ASSUME IInv, KInv, NEW r \in Requests, NEW op, NEW u \in Users, ChangeMembership(r, op, u)
  PROVE  KInv'
<1>. DEFINE out == Announcement(op, u)
<1>1. /\ UNCHANGED <<text, inbox, hand, view>>
      /\ withheld' = [x \in Users |-> IF x \in access' THEN {} ELSE withheld[x]]
      /\ req' = IF out = <<>> THEN req ELSE [req EXCEPT ![r] = Publishing(out)]
      /\ access' \subseteq Users
  BY DEF ChangeMembership, layer, IInv, Typed
<1>2. \A i \in 1 .. Len(out) : out[i].msg = NoMessage
  BY AnnouncementIs
<1>. HIDE DEF out
<1>3. ASSUME NEW p \in Requests, NEW i \in 1 .. Len(req'[p].out)
      PROVE  Known(req'[p].out[i])
  <2>1. CASE req'[p] = req[p]
    BY <1>3, <2>1 DEF KInv, KnownInv
  <2>2. CASE req'[p] = Publishing(out)
    BY <1>2, <1>3, <2>2 DEF Publishing, Known
  <2>. QED  BY <1>1, <2>1, <2>2 DEF IInv, Typed
<1>4. KnownInv'
  BY <1>1, <1>3 DEF KInv, KnownInv, Known, Written
<1>5. /\ withheld' \in [Users -> SUBSET (Messages \X Texts)]
      /\ \A x \in access' : withheld'[x] = {}
      /\ \A x \in Users : withheld'[x] \subseteq withheld[x]
  BY <1>1 DEF KInv, WithheldInv
<1>6. WithheldInv'
  BY <1>1, <1>5, ConnAssumption DEF KInv, WithheldInv, NothingWithheldIsShown
<1>. QED  BY <1>4, <1>6 DEF KInv

\* An event reaches a consumer's hands when its user has access.
LEMMA ConsumerKnows ==
  ASSUME IInv, KInv, NEW c \in Conns, Subscribe(c) \/ Unsubscribe(c) \/ TakesEvent(c) \/ GoesOnStep(c)
  PROVE  KInv'
<1>1. UNCHANGED <<text, access, req, withheld>>
  BY DEF Subscribe, Unsubscribe, TakesEvent, Check, Forced, GoesOnStep, Pass, Drop, Join,
         database, members, history
<1>2. ASSUME NEW d \in Conns, NEW i \in 1 .. Len(inbox'[d])
      PROVE  Known(inbox'[d][i])
  <2>1. CASE inbox' = inbox
    BY <1>2, <2>1 DEF KInv, KnownInv
  <2>2. CASE Takes(c)
    <3>1. /\ inbox[c] # <<>> /\ inbox' = [inbox EXCEPT ![c] = Tail(@)]
          /\ inbox[c] \in Seq(Event)
      BY <2>2 DEF Takes, IInv, Typed
    <3>2. CASE d # c
      BY <1>2, <3>1, <3>2 DEF IInv, Typed, KInv, KnownInv
    <3>3. CASE d = c
      <4>1. /\ inbox'[d] = Tail(inbox[c]) /\ Len(inbox[c]) \in Nat
            /\ Len(Tail(inbox[c])) = Len(inbox[c]) - 1
            /\ \A j \in 1 .. Len(Tail(inbox[c])) : Tail(inbox[c])[j] = inbox[c][j + 1]
        BY <3>1, <3>3, HeadTailProperties DEF IInv, Typed
      <4>2. i + 1 \in 1 .. Len(inbox[c])
        BY <1>2, <4>1
      <4>. QED  BY <1>2, <4>1, <4>2 DEF KInv, KnownInv
    <3>. QED  BY <3>2, <3>3
  <2>. QED  BY <2>1, <2>2 DEF Subscribe, Unsubscribe, TakesEvent, Check, Forced, GoesOnStep, Pass, Drop, Join
<1>3. \A d \in Conns : hand[d].event \in Event /\ Known(hand[d].event)
  BY DEF IInv, Typed, Hands, KInv, KnownInv
<1>4. Known(Member) /\ \A u \in Users : <<Member.msg, Member.text>> \notin withheld[u]
  BY EventsAre, MessageAssumption DEF Known, KInv, WithheldInv
<1>5. ASSUME NEW d \in Conns
      PROVE  Known(hand'[d].event) /\ <<hand'[d].event.msg, hand'[d].event.text>> \notin withheld[UserOf[d]]
  <2>1. CASE hand'[d] = hand[d]
    BY <1>3, <2>1 DEF KInv, WithheldInv
  <2>2. CASE hand'[d].event = Member
    BY <1>4, <2>2, ConnAssumption
  <2>3. CASE MayReceive(c) /\ Check(c) /\ d = c /\ GoesOn(c, "pass", Head(inbox[c]))
    <3>1. inbox[c] \in Seq(Event) /\ inbox[c] # <<>> /\ withheld[UserOf[c]] = {}
      BY <2>3 DEF Check, Takes, IInv, Typed, MayReceive, HasAccess, KInv, WithheldInv
    <3>2. Head(inbox[c]) = inbox[c][1] /\ 1 \in 1 .. Len(inbox[c])
      BY <3>1, HeadTailProperties, EmptySeq
    <3>3. hand'[d].event = Head(inbox[c])
      BY <2>3 DEF GoesOn, IInv, Typed
    <3>. QED  BY <2>3, <3>1, <3>2, <3>3 DEF KInv, KnownInv
  <2>4. hand'[d] = hand[d] \/ d = c
    BY DEF Subscribe, Unsubscribe, TakesEvent, Check, Forced, GoesOnStep, Pass, Drop, Join, GoesOn,
           IInv, Typed
  <2>5. \/ hand' = hand
        \/ \E h : hand' = [hand EXCEPT ![c] = h] /\ h.event = Member
        \/ MayReceive(c) /\ Check(c) /\ GoesOn(c, "pass", Head(inbox[c]))
    <3>1. Free.event = Member /\ \A does : [does |-> does, event |-> Member].event = Member
      BY FreeIs
    <3>2. CASE Subscribe(c)
      BY <3>1, <3>2 DEF Subscribe, GoesOn
    <3>3. CASE Unsubscribe(c) \/ Forced(c)
      BY <3>3 DEF Unsubscribe, Forced
    <3>4. CASE Check(c)
      BY <3>1, <3>4 DEF Check, GoesOn
    <3>5. CASE GoesOnStep(c)
      BY <3>1, <3>5 DEF GoesOnStep, Pass, Drop, Join
    <3>. QED  BY <3>2, <3>3, <3>4, <3>5 DEF TakesEvent
  <2>6. CASE \E h : hand' = [hand EXCEPT ![c] = h] /\ h.event = Member
    BY <2>1, <2>2, <2>4, <2>6 DEF IInv, Typed
  <2>. QED  BY <2>1, <2>3, <2>4, <2>5, <2>6
<1>6. ASSUME NEW d \in Conns, NEW m \in Messages
      PROVE  Written(m, view'[d][m]) /\ <<m, view'[d][m]>> \notin withheld[UserOf[d]]
  <2>1. Written(m, view[d][m]) /\ <<m, view[d][m]>> \notin withheld[UserOf[d]]
    BY DEF KInv, KnownInv, WithheldInv, NothingWithheldIsShown
  <2>2. CASE view' = view
    BY <2>1, <2>2
  <2>3. CASE Pass(c)
    <3>. DEFINE e == hand[c].event
    <3>1. view' = [view EXCEPT ![c] = Shown(c, e)]
      BY <2>3 DEF Pass
    <3>2. e \in Event /\ EventOK(e) /\ e.kind # "force"
      BY DEF IInv, Typed, Hands, HandInv, HandOK
    <3>3. Known(e) /\ <<e.msg, e.text>> \notin withheld[UserOf[c]]
      BY DEF KInv, KnownInv, WithheldInv
    <3>. HIDE DEF e
    <3>4. Shown(c, e)[m] = IF e.msg = m THEN e.text ELSE view[c][m]
      BY <3>2, ShownIs
    <3>5. view'[d] = IF d = c THEN Shown(c, e) ELSE view[d]
      BY <3>1 DEF IInv, Typed
    <3>6. m # NoMessage
      BY MessageAssumption
    <3>. QED  BY <2>1, <3>3, <3>4, <3>5, <3>6 DEF Known
  <2>. QED  BY <2>2, <2>3 DEF Subscribe, Unsubscribe, TakesEvent, Check, Forced, GoesOnStep, Drop, Join, client
<1>8. KnownInv'
  BY <1>1, <1>2, <1>5, <1>6 DEF KInv, KnownInv, Known, Written
<1>9. WithheldInv'
  BY <1>1, <1>5, <1>6 DEF KInv, WithheldInv, NothingWithheldIsShown
<1>. QED  BY <1>8, <1>9 DEF KInv

LEMMA NextKnows == IInv /\ KInv /\ [Next]_vars => KInv'
<1>1. ASSUME KInv, UNCHANGED vars PROVE KInv'
  BY <1>1 DEF vars, KInv, KnownInv, Known, Written, WithheldInv, NothingWithheldIsShown
<1>. SUFFICES ASSUME IInv, KInv, Next PROVE KInv'
  BY <1>1
<1>2. ASSUME NEW r \in Requests, RequestStep(r) PROVE KInv'
  BY <1>2, RequestKnows, SendKnows DEF RequestStep
<1>. QED  BY <1>2, StartKnows, ChangeKnows, ConsumerKnows DEF Next

\* No connection ever shows a message or a text written after its user has lost
\* access, until the user is back: a subscription or an event that outlives the
\* access does not matter, nor a loss between the check and the socket
\* (consumers.py broadcast_event, docs/API_CONTRACT.md 24.3).
THEOREM NothingWithheldIsShownHolds == Spec => []NothingWithheldIsShown
<1>1. KInv => NothingWithheldIsShown
  BY DEF KInv, WithheldInv
<1>. QED  BY <1>1, InitOK, NextKeeps, KInit, NextKnows, PTL DEF Spec

\* Every reachable state is well typed, and no channel exceeds its capacity.
THEOREM RealtimeTypeCorrect == Spec => []TypeOK
<1>1. IInv /\ KInv => TypeOK
  BY DEF IInv, Typed, TypeOK, Reqs, Hands, KInv, WithheldInv
<1>. QED  BY <1>1, InitOK, NextKeeps, KInit, NextKnows, PTL DEF Spec

=============================================================================
