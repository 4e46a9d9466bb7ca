-------------------------- MODULE MessageTimeline --------------------------
(***************************************************************************)
(* One chat as one reader sees it: the order of its messages, the pages    *)
(* the reader loads and the count of unread messages.  Rooms and dialogs   *)
(* share the code shape: backend/apps/chat/services.py and views.py.       *)
(*                                                                         *)
(* A message is stamped (created_at) when it is inserted and seen when its *)
(* transaction commits, so messages may become visible out of order.       *)
(* Nothing stores what a reader has seen: the read state is the stamp of   *)
(* the latest message, and the position in the history is an offset from   *)
(* the newest message.                                                     *)
(***************************************************************************)
EXTENDS Naturals, FiniteSets

CONSTANTS
  MaxMessages,   \* bound: messages ever posted; a message is named by its stamp
  Limit,         \* of a page
  Slots          \* requests of the reader in flight at once

ASSUME MessageAssumption == MaxMessages \in Nat
ASSUME LimitAssumption == Limit \in Nat \ {0}

Stamps == 1 .. MaxMessages

VARIABLES
  row,         \* of each stamp: "none", "open" (not committed), "shown" or "gone"
  mine,        \* the messages the reader has sent
  mark,        \* last_read_at of the reader's read state; 0 before there is one
  req,         \* the reader's requests in flight
  cursor,      \* offset of the next page; 0 when there is none to load
  loaded,      \* the messages the reader has loaded
  acked,       \* history: what the request that set the mark saw
  since,       \* history: the messages shown ever since the first page
  inserted, deleted, repeated,  \* history: what has happened since the first page
  overlapped   \* history: a mark has overlapped a mark or an open insertion

vars == <<row, mine, mark, req, cursor, loaded, acked, since, inserted, deleted,
          repeated, overlapped>>
pager == <<cursor, loaded, since, inserted, deleted, repeated>>

Idle == [op |-> "idle", latest |-> 0, saw |-> {}]

TypeOK ==
  /\ row \in [Stamps -> {"none", "open", "shown", "gone"}]
  /\ mine \subseteq Stamps /\ mark \in 0 .. MaxMessages
  /\ req \in [Slots -> [op : {"idle", "read", "list"}, latest : 0 .. MaxMessages,
                        saw : SUBSET Stamps]]
  /\ cursor \in 0 .. MaxMessages
  /\ loaded \subseteq Stamps /\ acked \subseteq Stamps /\ since \subseteq Stamps
  /\ {inserted, deleted, repeated, overlapped} \subseteq BOOLEAN

Init ==
  /\ row = [i \in Stamps |-> "none"]
  /\ mine = {} /\ mark = 0
  /\ req = [s \in Slots |-> Idle]
  /\ cursor = 0 /\ loaded = {} /\ acked = {} /\ since = {}
  /\ inserted = FALSE /\ deleted = FALSE /\ repeated = FALSE /\ overlapped = FALSE

-----------------------------------------------------------------------------
(* Messages: create_room_message, create_dialog_message and their deletion.*)

Visible == {i \in Stamps : row[i] = "shown"}
Stamped == Cardinality({i \in Stamps : row[i] # "none"})
Marking == {s \in Slots : req[s].op = "read"}

\* The INSERT; the transaction goes on.
Insert(i) ==
  /\ i = Stamped + 1
  /\ row' = [row EXCEPT ![i] = "open"]
  /\ \/ mine' = mine \union {i}
     \/ mine' = mine
  /\ overlapped' = (overlapped \/ Marking # {})
  /\ UNCHANGED <<mark, req, acked, pager>>

Commit(i) ==
  /\ row[i] = "open"
  /\ row' = [row EXCEPT ![i] = "shown"]
  /\ inserted' = TRUE
  /\ UNCHANGED <<mine, mark, req, acked, cursor, loaded, since, deleted, repeated, overlapped>>

Rollback(i) ==
  /\ row[i] = "open"
  /\ row' = [row EXCEPT ![i] = "gone"]
  /\ UNCHANGED <<mine, mark, req, acked, pager, overlapped>>

Delete(i) ==
  /\ row[i] = "shown"
  /\ row' = [row EXCEPT ![i] = "gone"]
  /\ since' = since \ {i}
  /\ deleted' = TRUE
  /\ UNCHANGED <<mine, mark, req, acked, cursor, loaded, inserted, repeated, overlapped>>

-----------------------------------------------------------------------------
(* The read state: mark_room_read, mark_dialog_read.                       *)

\* The newest visible message, 0 when there is none.
Latest == IF Visible = {} THEN 0 ELSE CHOOSE i \in Visible : \A j \in Visible : j <= i

MarkRead(s) ==
  /\ req[s] = Idle
  /\ req' = [req EXCEPT ![s] = [op |-> "read", latest |-> Latest, saw |-> Visible]]
  /\ overlapped' = (overlapped \/ Marking # {} \/ \E i \in Stamps : row[i] = "open")
  /\ UNCHANGED <<row, mine, mark, acked, pager>>

\* Variant: an empty chat is read as of its last message.
MarkedBlank(latest) == IF latest = 0 THEN MaxMessages ELSE latest

\* The stamp of the latest message, or the present when there was none.
Marked(latest) == IF latest = 0 THEN Stamped ELSE latest

\* The read state refers to the message; it cannot be saved once that is gone.
MarkCommit(s) ==
  LET latest == req[s].latest
  IN  /\ req[s].op = "read"
      /\ \/ /\ latest \in Visible \union {0}
            /\ mark' = Marked(latest)
            /\ acked' = req[s].saw
         \/ latest \notin Visible \union {0} /\ UNCHANGED <<mark, acked>>
      /\ req' = [req EXCEPT ![s] = Idle]
      /\ UNCHANGED <<row, mine, pager, overlapped>>

\* Variant: the message at the mark counts as unread.
UnreadFrom(m) == {i \in Visible \ mine : i >= m}

\* get_dialog_unread_count, list_joined_room_rows, list_dialog_rows
Unread(m) == {i \in Visible \ mine : i > m}

\* The lists read the read states first and the messages later.
ListStart(s) ==
  /\ req[s] = Idle
  /\ req' = [req EXCEPT ![s] = [op |-> "list", latest |-> mark, saw |-> {}]]
  /\ UNCHANGED <<row, mine, mark, acked, pager, overlapped>>

ListAnswer(s) ==
  /\ req[s].op = "list"
  /\ req' = [req EXCEPT ![s] = Idle]
  /\ UNCHANGED <<row, mine, mark, acked, pager, overlapped>>

-----------------------------------------------------------------------------
(* The history: list_room_message_rows, list_dialog_message_rows.          *)

\* Position of a message counted from the newest one.
Rank(i) == Cardinality({j \in Visible : j >= i})

Slice(offset) == {i \in Visible : offset < Rank(i) /\ Rank(i) <= offset + Limit}

\* One item more than the page is fetched: has_next.
HasNext(offset) == Cardinality(Visible) > offset + Limit

\* Variant: the item fetched in excess is counted as delivered.
NextCursorPastExtra(offset) == IF HasNext(offset) THEN offset + Limit + 1 ELSE 0

\* Variant: the last page has a successor too.
NextCursorAlways(offset) == offset + Limit

NextCursor(offset) == IF HasNext(offset) THEN offset + Limit ELSE 0

LoadFirst ==
  /\ loaded' = Slice(0)
  /\ cursor' = NextCursor(0)
  /\ since' = Visible
  /\ inserted' = FALSE /\ deleted' = FALSE /\ repeated' = FALSE
  /\ UNCHANGED <<row, mine, mark, req, acked, overlapped>>

LoadOlder ==
  /\ cursor # 0
  /\ loaded' = loaded \union Slice(cursor)
  /\ cursor' = NextCursor(cursor)
  /\ repeated' = (repeated \/ Slice(cursor) \intersect loaded # {})
  /\ UNCHANGED <<row, mine, mark, req, acked, since, inserted, deleted, overlapped>>

-----------------------------------------------------------------------------
Next ==
  \/ \E i \in Stamps : Insert(i) \/ Commit(i) \/ Rollback(i) \/ Delete(i)
  \/ \E s \in Slots : MarkRead(s) \/ MarkCommit(s) \/ ListStart(s) \/ ListAnswer(s)
  \/ LoadFirst \/ LoadOlder

Spec == Init /\ [][Next]_vars
-----------------------------------------------------------------------------
(* Properties.                                                             *)

\* What has become visible since the reader marked the chat read.
Came == (Visible \ mine) \ acked

(* docs/API_CONTRACT.md 14.10: marking a chat read clears its unread count,*)
(* and what arrives later counts again: the messages later than a stamp    *)
(* are the messages that came since.  It needs a mark that overlaps no     *)
(* other mark and no insertion; deletions, rollbacks and lists may overlap.*)
UnreadIsWhatCame == ~overlapped => Unread(mark) = Came

(* A list of unread counts that overlaps a mark may still count what the   *)
(* mark has cleared; it never leaves out what came after the mark.         *)
ListHidesNothing ==
  [][\A s \in Slots : ListAnswer(s) /\ ~overlapped => Came \subseteq Unread(req[s].latest)]_vars

(* docs/API_CONTRACT.md 6.3 and 14: paging back through the history while  *)
(* others write.  Only a deletion makes a page skip a message that has     *)
(* been there all the time, and only an insertion makes one repeat a       *)
(* message.                                                                *)
PagesDriftWithWrites ==
  /\ ~deleted => \A i \in since : (cursor = 0 \/ \E j \in loaded : j < i)
                                    /\ loaded # {} => i \in loaded
  /\ ~inserted => ~repeated
=============================================================================
