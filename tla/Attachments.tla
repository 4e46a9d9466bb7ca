---------------------------- MODULE Attachments ----------------------------
(***************************************************************************)
(* The life of an attachment: its row and its object in the store          *)
(* (backend/apps/attachments/services.py, signals.py), and its binding to  *)
(* a message of a room or a dialog (backend/apps/chat/services.py).        *)
(*                                                                         *)
(* The database forgets what a failed request wrote; the object store does *)
(* not.  create_attachment puts the object before it inserts the row, and  *)
(* a post_delete signal removes the object before the deletion of the row  *)
(* is committed.  A request is therefore as many actions as it has         *)
(* statements another request, or the store, can tell apart:               *)
(*   - a sender locks its attachments FOR UPDATE until it commits;         *)
(*   - a deletion first removes the bindings it sees, then waits for the   *)
(*     attachment rows, then removes one object after the other;           *)
(*   - foreign keys are checked at commit (DEFERRABLE INITIALLY DEFERRED): *)
(*     a binding committed in between makes the whole deletion roll back.  *)
(***************************************************************************)
EXTENDS FiniteSets, Naturals

CONSTANTS
  Files,         \* primary keys (and storage keys) of attachments
  Messages,      \* primary keys of messages
  NoMessage,     \* no message
  Slots,         \* how many requests are in flight at once
  Ops,           \* the kinds of request the clients send
  Failing        \* the stages in which a request may die or meet an error

AllOps == {"upload", "post", "discard", "erase", "close"}
Deleting == {"deleting", "purging", "clearing", "collected"}
Stages == {"idle", "uploading", "posting", "discarding", "unbound",
           "deleting", "erasing", "purging", "closing", "clearing", "collected"}

ASSUME NullAssumption == NoMessage \notin Messages
ASSUME OpsAssumption == Ops \subseteq AllOps
ASSUME FailingAssumption == Failing \subseteq Stages \ {"idle"}

VARIABLES
  room,          \* the Room row exists
  message,       \* RoomMessage and DialogMessage rows
  row,           \* Attachment rows, by their binding_type
  binding,       \* binding["room"], binding["dialog"]: the two join tables
  object,        \* the files whose object is in the store
  work,          \* the requests in flight
  disturbed,     \* history: two requests have overlapped, or one has died
  wasted         \* history: the files whose object a request removed in vain

database == <<room, message, row, binding>>
history == <<disturbed, wasted>>
vars == <<room, message, row, binding, object, work, history>>

Kinds == {"room", "dialog"}
Idle == [stage |-> "idle", kind |-> "room", msg |-> NoMessage,
         files |-> {}, todo |-> {}, seen |-> {}]

TypeOK ==
  /\ room \in BOOLEAN
  /\ message \in [Messages -> Kinds \union {"none", "gone"}]
  /\ row \in [Files -> Kinds \union {"none", "unbound", "gone"}]
  /\ binding \in [Kinds -> [Files -> Messages \union {NoMessage}]]
  /\ object \subseteq Files
  /\ work \in [Slots -> [stage : Stages, kind : Kinds,
                         msg : Messages \union {NoMessage},
                         files : SUBSET Files, todo : SUBSET Files,
                         seen : SUBSET Messages]]
  /\ \A s \in Slots : work[s].todo \subseteq work[s].files
  /\ ~room => \A m \in Messages : message[m] # "room"
  /\ disturbed \in BOOLEAN
  /\ wasted \subseteq Files

Init ==
  /\ room = TRUE
  /\ message = [m \in Messages |-> "none"]
  /\ row = [f \in Files |-> "none"]
  /\ binding = [k \in Kinds |-> [f \in Files |-> NoMessage]]
  /\ object = {}
  /\ work = [s \in Slots |-> Idle]
  /\ disturbed = FALSE
  /\ wasted = {}

-----------------------------------------------------------------------------
(* What the requests read, and the locks that make them wait.              *)

Live(f) == row[f] \in Kinds \union {"unbound"}

\* The messages the join tables bind f to.
BoundTo(f) == {binding[k][f] : k \in Kinds} \ {NoMessage}

FilesOf(m) == {f \in Files : m \in BoundTo(f)}

\* Bound of the model: a message is posted while a primary key is left.
Fresh == {m \in Messages : message[m] = "none"}

RoomMessages == {m \in Messages : message[m] = "room"}

\* Variant: the rows are read without select_for_update.
NeverLocked(s, files) == FALSE

\* A row of files is locked, or its deletion is not committed.
Locked(s, files) ==
  \E t \in Slots \ {s} :
    /\ work[t].stage \in Deleting \union {"posting"}
    /\ work[t].files \intersect files # {}

MessageLocked(m) ==
  \E t \in Slots : work[t].stage \in {"erasing", "purging"} /\ work[t].msg = m

Begin(s, stage, kind, m, files) ==
  /\ work[s].stage = "idle"
  /\ work' = [work EXCEPT ![s] = [stage |-> stage, kind |-> kind, msg |-> m,
                                  files |-> files, todo |-> files, seen |-> {}]]
  /\ disturbed' = (disturbed \/ \E t \in Slots : work[t].stage # "idle")
  /\ UNCHANGED wasted

Move(s, from, to) ==
  /\ work[s].stage = from
  /\ work' = [work EXCEPT ![s].stage = to]
  /\ UNCHANGED history

End(s, stage) ==
  /\ work[s].stage = stage
  /\ work' = [work EXCEPT ![s] = Idle]
  /\ UNCHANGED history

\* The rows a request has deleted are back; the objects it removed are not.
RollBack(s) ==
  /\ work' = [work EXCEPT ![s] = Idle]
  /\ wasted' = wasted \union
       {f \in work[s].files \ object : work[s].stage \in Deleting}
  /\ UNCHANGED <<database, object>>

\* Variant: room_id is no foreign key.
RoomUnchecked(kind) == TRUE

RoomExists(kind) == kind = "room" => room

\* Deleted rows leave both join tables.
Unbind(files) ==
  [k \in Kinds |-> [f \in Files |-> IF f \in files THEN NoMessage ELSE binding[k][f]]]

RowsGone(files) ==
  [f \in Files |-> IF f \in files /\ Live(f) THEN "gone" ELSE row[f]]

-----------------------------------------------------------------------------
(* create_attachment.                                                      *)

UploadPut(s, f) ==
  /\ "upload" \in Ops
  /\ row[f] = "none"
  /\ f \notin object
  /\ object' = object \union {f}
  /\ Begin(s, "uploading", "room", NoMessage, {f})
  /\ UNCHANGED database

UploadInsert(s) ==
  /\ End(s, "uploading")
  /\ row' = [f \in Files |-> IF f \in work[s].files THEN "unbound" ELSE row[f]]
  /\ UNCHANGED <<room, message, binding, object>>

\* Variant: the object of a refused upload is not removed.
UploadFailsKept(s) ==
  /\ End(s, "uploading")
  /\ UNCHANGED <<database, object>>

\* The INSERT raises: the object is removed again.
UploadFails(s) ==
  /\ End(s, "uploading")
  /\ object' = object \ work[s].files
  /\ UNCHANGED database

-----------------------------------------------------------------------------
(* create_room_message and create_dialog_message with attachments.         *)

\* _lock_owned_unbound_attachments: the rows exist, and nothing is bound.
PostStart(s, kind, files) ==
  /\ "post" \in Ops
  /\ Cardinality({t \in Slots : work[t].stage = "posting"}) < Cardinality(Fresh)
  /\ RoomExists(kind)
  /\ files # {}
  /\ ~Locked(s, files)
  /\ \A f \in files : row[f] = "unbound"
  /\ Begin(s, "posting", kind, NoMessage, files)
  /\ UNCHANGED <<database, object>>

(* The message, its bindings and the binding types become visible at once; *)
(* without the room the INSERT fails its foreign key.                      *)
PostCommit(s, m) ==
  LET kind == work[s].kind
      files == work[s].files
  IN
  /\ End(s, "posting")
  /\ \/ /\ RoomExists(kind)
        /\ m \in Fresh
        /\ message' = [message EXCEPT ![m] = kind]
        /\ row' = [f \in Files |-> IF f \in files THEN kind ELSE row[f]]
        /\ binding' = [binding EXCEPT ![kind] =
             [f \in Files |-> IF f \in files THEN m ELSE @[f]]]
        /\ UNCHANGED <<room, object>>
     \/ ~RoomExists(kind) /\ UNCHANGED <<database, object>>

-----------------------------------------------------------------------------
(* DELETE /attachments/{id}: delete_unbound_attachment.                    *)

\* Variant: the binding type is not looked at.
MayDiscardBound(f) == Live(f)

MayDiscard(f) == row[f] = "unbound"

\* The view reads the row, without a lock, before the transaction starts.
DiscardStart(s, f) ==
  /\ "discard" \in Ops
  /\ MayDiscard(f)
  /\ Begin(s, "discarding", "room", NoMessage, {f})
  /\ UNCHANGED <<database, object>>

\* The cascade deletes the bindings it sees.
DiscardBindings(s) ==
  /\ work[s].stage = "discarding"
  /\ work' = [work EXCEPT ![s].stage = "unbound",
                          ![s].seen = UNION {BoundTo(f) : f \in work[s].files}]
  /\ UNCHANGED <<database, object, history>>

\* The row is deleted, and the signal removes the object.
DiscardDelete(s) ==
  /\ Move(s, "unbound", "deleting")
  /\ ~Locked(s, work[s].files)
  /\ object' = object \ work[s].files
  /\ UNCHANGED database

\* A binding the cascade did not see violates its foreign key at commit.
DiscardCommit(s) ==
  LET files == work[s].files
      allSeen == \A f \in files : BoundTo(f) \subseteq work[s].seen
  IN
  \/ /\ End(s, "deleting")
     /\ allSeen
     /\ row' = RowsGone(files)
     /\ binding' = Unbind(files)
     /\ UNCHANGED <<room, message, object>>
  \/ /\ work[s].stage = "deleting"
     /\ ~allSeen
     /\ RollBack(s)
     /\ UNCHANGED disturbed

-----------------------------------------------------------------------------
(* delete_room_message and delete_dialog_message: the message row is       *)
(* locked, its attachments deleted, then the message.                      *)

EraseStart(s, m) ==
  /\ "erase" \in Ops
  /\ message[m] \in Kinds
  /\ ~MessageLocked(m)
  /\ Begin(s, "erasing", "room", m, FilesOf(m))
  /\ UNCHANGED <<database, object>>

EraseDelete(s) ==
  /\ Move(s, "erasing", "purging")
  /\ ~Locked(s, work[s].files)
  /\ UNCHANGED <<database, object>>

\* The post_delete signal of one attachment of a message or a room.
Purge(s, f) ==
  /\ work[s].stage \in {"purging", "clearing"}
  /\ f \in work[s].todo
  /\ object' = object \ {f}
  /\ work' = [work EXCEPT ![s].todo = @ \ {f}]
  /\ UNCHANGED <<database, history>>

EraseCommit(s) ==
  /\ work[s].todo = {}
  /\ End(s, "purging")
  /\ message' = [message EXCEPT ![work[s].msg] = "gone"]
  /\ row' = RowsGone(work[s].files)
  /\ binding' = Unbind(work[s].files)
  /\ UNCHANGED <<room, object>>

-----------------------------------------------------------------------------
(* delete_room: the attachments bound in the room are listed and deleted,  *)
(* then the room with all its messages.                                    *)

CloseStart(s) ==
  /\ "close" \in Ops
  /\ room
  /\ Begin(s, "closing", "room", NoMessage, UNION {FilesOf(m) : m \in RoomMessages})
  /\ UNCHANGED <<database, object>>

CloseDelete(s) ==
  /\ Move(s, "closing", "clearing")
  /\ ~Locked(s, work[s].files)
  /\ UNCHANGED <<database, object>>

\* room.delete() collects the messages it will delete before the room.
CloseCollect(s) ==
  /\ work[s].stage = "clearing"
  /\ work[s].todo = {}
  /\ work' = [work EXCEPT ![s].stage = "collected", ![s].seen = RoomMessages]
  /\ UNCHANGED <<database, object, history>>

(* A message that was not collected violates its foreign key at commit.    *)
(* The bindings of a collected message go with it; its attachment only if  *)
(* it was listed.                                                          *)
CloseCommit(s) ==
  /\ \A m \in RoomMessages : ~MessageLocked(m)
  /\ \/ /\ End(s, "collected")
        /\ RoomMessages \subseteq work[s].seen
        /\ room' = FALSE
        /\ message' = [m \in Messages |-> IF m \in RoomMessages THEN "gone" ELSE message[m]]
        /\ row' = RowsGone(work[s].files)
        /\ binding' = Unbind(work[s].files \union UNION {FilesOf(m) : m \in RoomMessages})
        /\ UNCHANGED object
     \/ /\ work[s].stage = "collected"
        /\ ~(RoomMessages \subseteq work[s].seen)
        /\ RollBack(s)
        /\ UNCHANGED disturbed

-----------------------------------------------------------------------------
(* The worker dies, the store or the database raises, or PostgreSQL picks  *)
(* the request as a deadlock victim: the transaction rolls back, and what  *)
(* it did to the store remains.                                            *)
Abort(s) ==
  /\ work[s].stage \in Failing
  /\ RollBack(s)
  /\ disturbed' = TRUE

Next ==
  \E s \in Slots :
    \/ \E f \in Files : UploadPut(s, f)
    \/ UploadInsert(s)
    \/ UploadFails(s)
    \/ \E kind \in Kinds, files \in SUBSET Files : PostStart(s, kind, files)
    \/ \E m \in Messages : PostCommit(s, m)
    \/ \E f \in Files : DiscardStart(s, f)
    \/ DiscardBindings(s)
    \/ DiscardDelete(s)
    \/ DiscardCommit(s)
    \/ \E m \in Messages : EraseStart(s, m)
    \/ EraseDelete(s)
    \/ \E f \in Files : Purge(s, f)
    \/ EraseCommit(s)
    \/ CloseStart(s)
    \/ CloseDelete(s)
    \/ CloseCollect(s)
    \/ CloseCommit(s)
    \/ Abort(s)

Spec == Init /\ [][Next]_vars

-----------------------------------------------------------------------------
(* Properties.                                                             *)

\* SCHEMA.md:1014-1015: an attachment is bound to at most one message, and
\* its binding type names the join table (and the kind of message) it is in.
SingleBinding ==
  \A f \in Files :
    /\ Cardinality(BoundTo(f)) <= 1
    /\ \A k \in Kinds :
         binding[k][f] # NoMessage => row[f] = k /\ message[binding[k][f]] = k

\* The objects some request in flight has already removed or is removing.
BeingDeleted(f) ==
  \E s \in Slots : work[s].stage \in Deleting /\ f \in work[s].files

\* A committed row can be downloaded: however requests overlap and fail its
\* object is in the store, unless a deletion removed it and was then rolled
\* back.  While requests neither overlap nor die the store holds, between
\* them, exactly the objects of the rows, a row that claims to be bound is in
\* its join table, and a deleted room keeps no attachment
\* (API_CONTRACT.md:1216): nothing is left that nobody can reach.
StoreMatchesRows ==
  /\ \A f \in Files : Live(f) /\ ~BeingDeleted(f) => f \in object \union wasted
  /\ ~disturbed /\ (\A s \in Slots : work[s].stage = "idle") =>
       \A f \in Files :
         /\ f \in object <=> Live(f)
         /\ \A k \in Kinds : row[f] = k => binding[k][f] # NoMessage
  /\ ~disturbed /\ ~room => \A f \in Files : row[f] # "room"

\* An attachment goes although the message it is bound to stays.
TakenFromMessage ==
  \E f \in Files :
    /\ row[f] \in Kinds /\ row'[f] = "gone"
    /\ \E m \in BoundTo(f) : message'[m] # "gone"

\* API_CONTRACT.md:2207: "if already bound to a message, deletion MUST be
\* done through message deletion and retention rules": while requests neither
\* overlap nor die the code keeps to that.
OnlyARaceTakesAttachments == [][TakenFromMessage => disturbed]_vars
=============================================================================
