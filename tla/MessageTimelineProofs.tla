------------------------ MODULE MessageTimelineProofs ------------------------
(***************************************************************************)
(* Proofs about the two ends of the messages of a chat: MessageTimeline,   *)
(* the server's pages and marks, for any number of messages, any page size *)
(* and any number of requests of the reader in flight; and ChatClient, the *)
(* list of the web client, for any chats, messages and number of actions   *)
(* and loads.                                                              *)
(***************************************************************************)
EXTENDS MessageTimeline, ChatClient, FiniteSetTheorems, SequenceTheorems, TLAPS

-----------------------------------------------------------------------------
(* Ranks.                                                                  *)

RankIn(V, i) == Cardinality({j \in V : j >= i})

LEMMA StampsFinite ==
  /\ IsFiniteSet(Stamps) /\ Cardinality(Stamps) = MaxMessages
  /\ \A V \in SUBSET Stamps :
       IsFiniteSet(V) /\ Cardinality(V) \in Nat /\ Cardinality(V) <= MaxMessages
<1>1. IsFiniteSet(Stamps) /\ Cardinality(Stamps) = MaxMessages
  BY MessageAssumption, FS_Interval DEF Stamps
<1>2. ASSUME NEW V \in SUBSET Stamps
      PROVE  IsFiniteSet(V) /\ Cardinality(V) \in Nat /\ Cardinality(V) <= MaxMessages
  BY <1>1, FS_Subset, FS_CardinalityType
<1>. QED  BY <1>1, <1>2

\* A rank counts the message itself and never more messages than there are.
LEMMA RankBounds ==
  ASSUME NEW V \in SUBSET Stamps, NEW i \in Stamps
  PROVE  /\ RankIn(V, i) \in Nat /\ RankIn(V, i) <= Cardinality(V)
         /\ i \in V => RankIn(V, i) >= 1
<1>. DEFINE R == {j \in V : j >= i}
<1>1. IsFiniteSet(V) /\ IsFiniteSet(R) /\ Cardinality(R) \in Nat
  BY StampsFinite
<1>2. Cardinality(R) <= Cardinality(V)
  BY <1>1, FS_Subset
<1>3. i \in V => i \in R
  BY MessageAssumption DEF Stamps
<1>4. Cardinality(R) = 0 <=> R = {}
  BY <1>1, FS_EmptySet
<1>. QED  BY <1>1, <1>2, <1>3, <1>4 DEF RankIn

\* More messages make ranks greater, and an older message has the greater rank.
LEMMA RankMonotonic ==
  ASSUME NEW V \in SUBSET Stamps, NEW W \in SUBSET Stamps, V \subseteq W,
         NEW i \in Stamps, NEW j \in Stamps, i <= j
  PROVE  RankIn(V, j) <= RankIn(W, i)
<1>. DEFINE R == {m \in V : m >= j}
            S == {m \in W : m >= i}
<1>1. IsFiniteSet(S)
  BY StampsFinite
<1>2. R \subseteq S
  <2>1. \A m \in V : m \in Nat /\ i \in Nat /\ j \in Nat
    BY MessageAssumption DEF Stamps
  <2>. QED  BY <2>1
<1>3. Cardinality(R) <= Cardinality(S)
  BY <1>1, <1>2, FS_Subset
<1>. QED  BY <1>3 DEF RankIn

\* A message older than another visible one has a greater rank.
LEMMA RankStrict ==
  ASSUME NEW V \in SUBSET Stamps, NEW i \in V, NEW j \in Stamps, i < j
  PROVE  RankIn(V, j) < RankIn(V, i)
<1>. DEFINE R == {m \in V : m >= j}
            S == {m \in V : m >= i}
<1>1. IsFiniteSet(S) /\ R \subseteq S /\ i \in S /\ i \notin R
  <2>1. IsFiniteSet(S)
    BY StampsFinite
  <2>2. \A m \in V : m \in Nat /\ i \in Nat /\ j \in Nat
    BY MessageAssumption DEF Stamps
  <2>. QED  BY <2>1, <2>2
<1>2. Cardinality(R) <= Cardinality(S) /\ (Cardinality(S) = Cardinality(R) => S = R)
  BY <1>1, FS_Subset
<1>3. Cardinality(R) \in Nat /\ Cardinality(S) \in Nat
  BY StampsFinite
<1>. QED  BY <1>1, <1>2, <1>3 DEF RankIn

\* Of some messages one is the newest: without it, the ranks of n messages would
\* be n different numbers from 2 to n.
LEMMA NewestExists ==
  ASSUME NEW V \in SUBSET Stamps, V # {}
  PROVE  \E i \in V : \A j \in V : j <= i
<1>. SUFFICES ASSUME \A i \in V : \E j \in V : ~(j <= i) PROVE FALSE
  OBVIOUS
<1>. DEFINE n == Cardinality(V)
            rank == [i \in V |-> RankIn(V, i)]
<1>1. IsFiniteSet(V) /\ n \in Nat /\ n # 0
  BY StampsFinite, FS_EmptySet
<1>2. ASSUME NEW i \in V PROVE rank[i] \in 2 .. n
  <2>1. PICK j \in V : ~(j <= i)
    OBVIOUS
  <2>2. i < j /\ i \in Stamps /\ j \in Stamps
    BY <2>1, MessageAssumption DEF Stamps
  <2>3. RankIn(V, j) < RankIn(V, i) /\ RankIn(V, j) >= 1
    BY <2>2, RankStrict, RankBounds
  <2>4. RankIn(V, i) \in Nat /\ RankIn(V, j) \in Nat /\ RankIn(V, i) <= n
    BY <2>2, RankBounds
  <2>. QED  BY <1>1, <2>3, <2>4
<1>3. IsFiniteSet(2 .. n) /\ Cardinality(2 .. n) < n
  <2>. HIDE DEF n
  <2>1. 2 \in Int /\ n \in Int /\ n \in Nat /\ n # 0
    BY <1>1
  <2>2. IsFiniteSet(2 .. n) /\ Cardinality(2 .. n) = IF 2 > n THEN 0 ELSE n - 2 + 1
    BY <2>1, FS_Interval
  <2>. QED  BY <2>1, <2>2
<1>4. rank \in [V -> 2 .. n]
  BY <1>2
<1>5. \E x, y \in V : x # y /\ rank[x] = rank[y]
  <2>. HIDE DEF rank, n
  <2>. QED  BY <1>1, <1>3, <1>4, FS_PigeonHole DEF n
<1>6. PICK x \in V, y \in V : x # y /\ rank[x] = rank[y]
  BY <1>5
<1>7. x \in Stamps /\ y \in Stamps /\ (x < y \/ y < x)
  BY <1>6, MessageAssumption DEF Stamps
<1>8. RankIn(V, x) \in Nat /\ RankIn(V, y) \in Nat
  BY <1>7, RankBounds
<1>. QED  BY <1>6, <1>7, <1>8, RankStrict

-----------------------------------------------------------------------------
(* The inductive invariant.                                                *)

Filled == {i \in Stamps : row[i] # "none"}
Alive(i) == row[i] \in {"open", "shown"}

\* The stamps are given in order, without gaps.
StampInv ==
  /\ \A i \in Stamps : row[i] # "none" <=> i <= Stamped
  /\ mark <= Stamped /\ acked \subseteq Filled /\ since \subseteq Filled

ReqInv ==
  \A s \in Slots :
    /\ req[s].latest <= Stamped /\ req[s].saw \subseteq Filled
    /\ req[s].op = "read" => \A i \in req[s].saw : i <= req[s].latest

\* As long as no mark has overlapped a mark or an insertion: a message that is
\* there, or still may commit, is later than the mark exactly if the request that
\* set the mark has not seen it; a mark in flight has seen them all; and what
\* came since the mark is later than any mark that a list has read.
MarkInv ==
  ~overlapped =>
    /\ \A i \in Stamps : Alive(i) => (i > mark <=> i \notin acked)
    /\ \A s \in Slots : req[s].op = "read" =>
         Marking = {s} /\ \A i \in Stamps : Alive(i) => i \in req[s].saw
    /\ \A s \in Slots : req[s].op = "list" =>
         \A i \in Stamps : Alive(i) /\ i \notin acked => i > req[s].latest

\* As long as nothing is deleted, what has been there since the first page and
\* is not loaded is further from the newest message than the cursor, and older
\* than all that is loaded.
PageInv ==
  ~deleted =>
    /\ since \subseteq Visible
    /\ \A i \in since \ loaded :
         cursor # 0 /\ RankIn(Visible, i) > cursor /\ \A j \in loaded : i < j

\* As long as nothing is inserted, what is loaded is no further than the cursor.
DriftInv ==
  ~inserted => ~repeated /\ (cursor # 0 =>
    \A j \in loaded : j \in Visible => RankIn(Visible, j) <= cursor)

IInv == TypeOK /\ StampInv /\ ReqInv /\ MarkInv /\ PageInv /\ DriftInv

-----------------------------------------------------------------------------
(* Stamps.                                                                 *)

LEMMA StampedTyped ==
  ASSUME TypeOK
  PROVE  /\ Stamped \in 0 .. MaxMessages /\ Visible \in SUBSET Stamps
         /\ Cardinality(Visible) \in 0 .. MaxMessages
<1>1. {i \in Stamps : row[i] # "none"} \in SUBSET Stamps /\ Visible \in SUBSET Stamps
  BY DEF Visible
<1>. QED  BY <1>1, StampsFinite, MessageAssumption DEF Stamped

LEMMA LatestIs ==
  ASSUME TypeOK
  PROVE  /\ Visible = {} => Latest = 0
         /\ Visible # {} => Latest \in Visible /\ \A j \in Visible : j <= Latest
         /\ Latest \in 0 .. MaxMessages
<1>1. CASE Visible = {}
  BY <1>1, MessageAssumption DEF Latest
<1>2. CASE Visible # {}
  <2>1. \E i \in Visible : \A j \in Visible : j <= i
    BY <1>2, StampedTyped, NewestExists
  <2>2. Latest \in Visible /\ \A j \in Visible : j <= Latest
    BY <1>2, <2>1 DEF Latest
  <2>3. Latest \in Stamps
    BY <2>2, StampedTyped
  <2>. QED  BY <1>2, <2>2, <2>3, MessageAssumption DEF Stamps
<1>. QED  BY <1>1, <1>2

\* Inserting gives the next stamp; nothing else gives or takes one.
LEMMA StampedSame ==
  ASSUME TypeOK, NEW i \in Stamps, row[i] # "none",
         NEW v \in {"open", "shown", "gone"}, row' = [row EXCEPT ![i] = v]
  PROVE  Stamped' = Stamped /\ Filled' = Filled
<1>1. Filled' = Filled
  BY DEF Filled, TypeOK
<1>. QED  BY <1>1 DEF Stamped, Filled

LEMMA StampedNext ==
  ASSUME TypeOK, StampInv, NEW i \in Stamps, Insert(i)
  PROVE  /\ row' \in [Stamps -> {"none", "open", "shown", "gone"}]
         /\ Stamped' = Stamped + 1 /\ Filled' = Filled \union {i} /\ row[i] = "none"
         /\ \A j \in Stamps : row'[j] = IF j = i THEN "open" ELSE row[j]
<1>1. row' \in [Stamps -> {"none", "open", "shown", "gone"}]
  BY DEF Insert, TypeOK
<1>2. \A j \in Stamps : row'[j] = IF j = i THEN "open" ELSE row[j]
  BY DEF Insert, TypeOK
<1>3. Stamped \in Nat /\ ~(i <= Stamped)
  BY StampedTyped, MessageAssumption DEF Insert
<1>4. row[i] = "none"
  BY <1>3 DEF StampInv
<1>5. Filled' = Filled \union {i} /\ i \notin Filled /\ Filled \in SUBSET Stamps
  BY <1>2, <1>4 DEF Filled
<1>6. Cardinality(Filled \union {i}) = Cardinality(Filled) + 1
  BY <1>5, StampsFinite, FS_AddElement
<1>. QED  BY <1>1, <1>2, <1>4, <1>5, <1>6 DEF Stamped, Filled

-----------------------------------------------------------------------------
(* Messages.                                                               *)

\* What the pages know, after a step that leaves the loaded messages alone.
LEMMA PagesFollow ==
  ASSUME IInv, UNCHANGED <<cursor, loaded, repeated>>, Visible' \in SUBSET Stamps,
         ~deleted' => ~deleted /\ since' = since /\ Visible \subseteq Visible',
         ~inserted' => ~inserted /\ Visible' \subseteq Visible
  PROVE  PageInv' /\ DriftInv'
<1>1. /\ Visible \in SUBSET Stamps /\ since \in SUBSET Stamps /\ loaded \in SUBSET Stamps
      /\ cursor \in Nat
  BY StampedTyped, MessageAssumption DEF IInv, TypeOK
<1>2. \A j \in Stamps : RankIn(Visible, j) \in Nat /\ RankIn(Visible', j) \in Nat
  BY <1>1, RankBounds
<1>3. \A j \in Stamps : j <= j
  BY MessageAssumption DEF Stamps
<1>4. PageInv'
  <2>1. SUFFICES ASSUME ~deleted', NEW j \in since \ loaded PROVE RankIn(Visible', j) > cursor
    BY DEF IInv, PageInv
  <2>2. RankIn(Visible, j) > cursor /\ j \in Stamps /\ Visible \subseteq Visible'
    BY <1>1, <2>1 DEF IInv, PageInv
  <2>3. RankIn(Visible, j) <= RankIn(Visible', j)
    BY <1>1, <1>3, <2>2, RankMonotonic
  <2>. QED  BY <1>1, <1>2, <2>2, <2>3
<1>5. DriftInv'
  <2>1. SUFFICES ASSUME ~inserted', cursor # 0, NEW j \in loaded, j \in Visible'
                 PROVE  RankIn(Visible', j) <= cursor
    BY DEF IInv, DriftInv
  <2>2. RankIn(Visible, j) <= cursor /\ j \in Stamps /\ Visible' \subseteq Visible
    BY <1>1, <2>1 DEF IInv, DriftInv
  <2>3. RankIn(Visible', j) <= RankIn(Visible, j)
    BY <1>1, <1>3, <2>2, RankMonotonic
  <2>. QED  BY <1>1, <1>2, <2>2, <2>3
<1>. QED  BY <1>4, <1>5

LEMMA InsertKeeps == ASSUME IInv, NEW i \in Stamps, Insert(i) PROVE IInv'
<1>1. /\ row' \in [Stamps -> {"none", "open", "shown", "gone"}]
      /\ Stamped' = Stamped + 1 /\ Filled' = Filled \union {i} /\ row[i] = "none"
      /\ \A j \in Stamps : row'[j] = IF j = i THEN "open" ELSE row[j]
  BY StampedNext DEF IInv
<1>2. /\ UNCHANGED <<mark, req, acked, cursor, loaded, since, inserted, deleted, repeated>>
      /\ i = Stamped + 1 /\ mine' \subseteq Stamps /\ overlapped' \in BOOLEAN
      /\ ~overlapped' => ~overlapped /\ Marking = {}
  BY DEF Insert, pager, IInv, TypeOK
<1>3. Stamped \in Nat /\ mark \in Nat /\ i \in Nat
  BY StampedTyped, MessageAssumption DEF IInv, TypeOK, Stamps
<1>4. \A s \in Slots : req[s].latest \in Nat
  BY MessageAssumption DEF IInv, TypeOK
<1>5. TypeOK'
  BY <1>1, <1>2 DEF IInv, TypeOK
<1>6. StampInv'
  <2>1. \A j \in Stamps : j \in Nat
    BY MessageAssumption DEF Stamps
  <2>2. \A j \in Stamps : row'[j] # "none" <=> j <= Stamped'
    BY <1>1, <1>2, <1>3, <2>1 DEF IInv, StampInv
  <2>. QED  BY <1>1, <1>2, <1>3, <2>2 DEF IInv, StampInv
<1>7. ReqInv'
  BY <1>1, <1>2, <1>3, <1>4 DEF IInv, ReqInv
<1>8. MarkInv'
  <2>1. SUFFICES ASSUME ~overlapped' PROVE MarkInv'
    BY DEF MarkInv
  <2>2. \A j \in Stamps : Alive(j)' => j = i \/ Alive(j)
    BY <1>1 DEF Alive
  <2>3. i > mark /\ i \notin acked
    BY <1>1, <1>2, <1>3 DEF IInv, StampInv, Filled
  <2>4. \A s \in Slots : i > req[s].latest
    BY <1>2, <1>3, <1>4 DEF IInv, ReqInv
  <2>5. \A s \in Slots : req[s].op # "read"
    BY <1>2, <2>1 DEF Marking
  <2>. QED  BY <1>2, <2>1, <2>2, <2>3, <2>4, <2>5 DEF IInv, MarkInv
<1>9. Visible' = Visible /\ Visible \in SUBSET Stamps
  BY <1>1 DEF Visible
<1>10. PageInv' /\ DriftInv'
  BY <1>2, <1>9, PagesFollow
<1>. QED  BY <1>5, <1>6, <1>7, <1>8, <1>10 DEF IInv

\* A transaction ends, or a message is deleted.
LEMMA RowKeeps ==
  ASSUME IInv, NEW i \in Stamps, Commit(i) \/ Rollback(i) \/ Delete(i) PROVE IInv'
<1>1. PICK v \in {"shown", "gone"} : row' = [row EXCEPT ![i] = v]
  BY DEF Commit, Rollback, Delete
<1>2. /\ Alive(i) /\ UNCHANGED <<mine, mark, req, acked, overlapped, cursor, loaded, repeated>>
      /\ since' \subseteq since /\ inserted' \in BOOLEAN /\ deleted' \in BOOLEAN
  BY DEF Commit, Rollback, Delete, Alive, pager, IInv, TypeOK
<1>3. /\ row' \in [Stamps -> {"none", "open", "shown", "gone"}]
      /\ \A j \in Stamps : row'[j] = IF j = i THEN v ELSE row[j]
  BY <1>1 DEF IInv, TypeOK
<1>4. Stamped' = Stamped /\ Filled' = Filled
  BY <1>1, <1>2, StampedSame DEF IInv, Alive
<1>5. TypeOK'
  BY <1>2, <1>3 DEF IInv, TypeOK
<1>6. StampInv' /\ ReqInv'
  BY <1>2, <1>3, <1>4 DEF IInv, StampInv, ReqInv, Alive
<1>7. MarkInv'
  <2>1. \A j \in Stamps : Alive(j)' => Alive(j)
    BY <1>2, <1>3 DEF Alive
  <2>2. Marking' = Marking
    BY <1>2 DEF Marking
  <2>. QED  BY <1>2, <2>1, <2>2 DEF IInv, MarkInv
<1>8. PageInv' /\ DriftInv'
  <2>1. Visible' \in SUBSET Stamps
    BY DEF Visible
  <2>2. CASE Commit(i)
    <3>1. Visible \subseteq Visible' /\ UNCHANGED <<since, deleted>> /\ inserted'
      BY <1>3, <2>2 DEF Commit, Visible
    <3>. QED  BY <1>2, <2>1, <3>1, PagesFollow
  <2>3. CASE Rollback(i)
    <3>1. Visible' = Visible /\ UNCHANGED <<since, deleted, inserted>>
      BY <2>3, <1>3 DEF Rollback, Visible, pager, IInv, TypeOK
    <3>. QED  BY <1>2, <2>1, <3>1, PagesFollow
  <2>4. CASE Delete(i)
    <3>1. Visible' \subseteq Visible /\ UNCHANGED inserted /\ deleted'
      BY <2>4, <1>3 DEF Delete, Visible, IInv, TypeOK
    <3>. QED  BY <1>2, <2>1, <3>1, PagesFollow
  <2>. QED  BY <2>2, <2>3, <2>4
<1>. QED  BY <1>5, <1>6, <1>7, <1>8 DEF IInv

-----------------------------------------------------------------------------
(* Requests of the reader.                                                 *)

\* A request changes and the messages do not.
LEMMA RequestKeeps ==
  ASSUME IInv, UNCHANGED <<row, mine, cursor, loaded, since, inserted, deleted, repeated>>,
         mark' \in 0 .. MaxMessages, mark' <= Stamped, acked' \subseteq Filled,
         overlapped' \in BOOLEAN,
         NEW s \in Slots,
         NEW r \in [op : {"idle", "read", "list"}, latest : 0 .. MaxMessages,
                    saw : SUBSET Stamps],
         req' = [req EXCEPT ![s] = r],
         r.latest <= Stamped, r.saw \subseteq Filled,
         r.op = "read" => \A i \in r.saw : i <= r.latest,
         MarkInv'
  PROVE  IInv'
<1>1. /\ req' \in [Slots -> [op : {"idle", "read", "list"}, latest : 0 .. MaxMessages,
                            saw : SUBSET Stamps]]
      /\ \A q \in Slots : req'[q] = IF q = s THEN r ELSE req[q]
  BY DEF IInv, TypeOK
<1>2. Visible' = Visible /\ Filled' = Filled /\ Stamped' = Stamped /\ Visible' \in SUBSET Stamps
  BY DEF Visible, Filled, Stamped
<1>3. TypeOK'
  BY <1>1, <1>2, StampedTyped DEF IInv, TypeOK, Filled
<1>4. StampInv' /\ ReqInv'
  BY <1>1, <1>2 DEF IInv, StampInv, ReqInv
<1>5. PageInv' /\ DriftInv'
  BY <1>2, PagesFollow
<1>. QED  BY <1>3, <1>4, <1>5 DEF IInv

LEMMA IdleIs ==
  /\ Idle.op = "idle" /\ Idle.latest = 0 /\ Idle.saw = {}
  /\ Idle \in [op : {"idle", "read", "list"}, latest : 0 .. MaxMessages, saw : SUBSET Stamps]
BY MessageAssumption DEF Idle

LEMMA MarkReadKeeps == ASSUME IInv, NEW s \in Slots, MarkRead(s) PROVE IInv'
<1>. DEFINE r == [op |-> "read", latest |-> Latest, saw |-> Visible]
<1>1. /\ r \in [op : {"idle", "read", "list"}, latest : 0 .. MaxMessages, saw : SUBSET Stamps]
      /\ r.op = "read" /\ r.latest = Latest /\ r.saw = Visible
      /\ req' = [req EXCEPT ![s] = r]
  BY LatestIs, StampedTyped DEF IInv, MarkRead
<1>. HIDE DEF r
<1>2. /\ UNCHANGED <<row, mine, mark, acked, cursor, loaded, since, inserted, deleted, repeated>>
      /\ overlapped' \in BOOLEAN
      /\ ~overlapped' => /\ ~overlapped /\ Marking = {}
                         /\ \A i \in Stamps : row[i] # "open"
  BY DEF MarkRead, pager, IInv, TypeOK
<1>3. Visible \subseteq Filled /\ Visible \subseteq Stamps
  BY DEF Visible, Filled
<1>4. Latest <= Stamped /\ \A i \in Visible : i <= Latest
  <2>1. CASE Visible = {}
    BY <2>1, LatestIs, StampedTyped DEF IInv
  <2>2. CASE Visible # {}
    BY <1>3, <2>2, LatestIs DEF IInv, StampInv, Filled
  <2>. QED  BY <2>1, <2>2
<1>5. mark \in 0 .. MaxMessages /\ mark <= Stamped /\ acked \subseteq Filled
  BY DEF IInv, TypeOK, StampInv
<1>6. MarkInv'
  <2>1. SUFFICES ASSUME ~overlapped' PROVE MarkInv'
    BY DEF MarkInv
  <2>2. \A q \in Slots : req'[q] = IF q = s THEN r ELSE req[q]
    BY <1>1 DEF IInv, TypeOK
  <2>3. \A q \in Slots : req[q].op # "read"
    BY <1>2, <2>1 DEF Marking
  <2>4. Marking' = {s}
    BY <1>1, <2>2, <2>3 DEF Marking
  <2>5. \A i \in Stamps : Alive(i) => i \in Visible
    BY <1>2, <2>1 DEF Alive, Visible
  <2>6. \A i \in Stamps : Alive(i)' <=> Alive(i)
    BY <1>2 DEF Alive
  <2>. QED  BY <1>1, <1>2, <2>1, <2>2, <2>3, <2>4, <2>5, <2>6 DEF IInv, MarkInv
<1>. QED  BY <1>1, <1>2, <1>3, <1>4, <1>5, <1>6, RequestKeeps

LEMMA MarkCommitKeeps == ASSUME IInv, NEW s \in Slots, MarkCommit(s) PROVE IInv'
<1>. DEFINE latest == req[s].latest
            saw == req[s].saw
<1>1. /\ req[s].op = "read" /\ req' = [req EXCEPT ![s] = Idle]
      /\ UNCHANGED <<row, mine, cursor, loaded, since, inserted, deleted, repeated, overlapped>>
      /\ latest \in 0 .. MaxMessages /\ saw \subseteq Filled /\ latest <= Stamped
      /\ saw \subseteq Stamps /\ \A i \in saw : i <= latest
      /\ overlapped \in BOOLEAN
  BY DEF MarkCommit, pager, IInv, TypeOK, ReqInv
<1>2. /\ Stamped \in 0 .. MaxMessages /\ mark \in 0 .. MaxMessages /\ mark <= Stamped
      /\ acked \subseteq Filled
  BY StampedTyped DEF IInv, TypeOK, StampInv
<1>3. \/ mark' = Marked(latest) /\ acked' = saw
      \/ UNCHANGED <<mark, acked>>
  BY DEF MarkCommit
<1>4. mark' \in 0 .. MaxMessages /\ mark' <= Stamped /\ acked' \subseteq Filled
  BY <1>1, <1>2, <1>3, MessageAssumption DEF Marked
<1>5. MarkInv'
  <2>1. SUFFICES ASSUME ~overlapped PROVE MarkInv'
    BY <1>1 DEF MarkInv
  <2>2. \A q \in Slots : req'[q] = IF q = s THEN Idle ELSE req[q]
    BY <1>1 DEF IInv, TypeOK
  <2>3. Marking = {s} /\ \A i \in Stamps : Alive(i) => i \in saw
    BY <1>1, <2>1 DEF IInv, MarkInv
  <2>4. \A q \in Slots : req'[q].op # "read" /\ (req'[q].op = "list" => req'[q] = req[q])
    BY <2>2, <2>3, IdleIs DEF Marking
  <2>5. \A i \in Stamps : Alive(i)' <=> Alive(i)
    BY <1>1 DEF Alive
  <2>6. CASE UNCHANGED <<mark, acked>>
    BY <2>1, <2>4, <2>5, <2>6 DEF IInv, MarkInv
  <2>7. CASE mark' = Marked(latest) /\ acked' = saw
    <3>1. ASSUME NEW i \in Stamps, Alive(i) PROVE i \in acked' /\ ~(i > mark')
      <4>1. i \in saw /\ i <= latest /\ i \in Nat \ {0} /\ latest \in Nat
        BY <1>1, <2>3, <3>1, MessageAssumption DEF Stamps
      <4>2. latest # 0
        BY <4>1
      <4>. QED  BY <2>7, <4>1, <4>2 DEF Marked
    <3>. QED  BY <2>4, <2>5, <3>1 DEF MarkInv
  <2>. QED  BY <1>3, <2>6, <2>7
<1>6. Idle.latest <= Stamped /\ Idle.saw \subseteq Filled /\ Idle.op # "read"
  BY <1>2, IdleIs
<1>. HIDE DEF latest, saw
<1>. QED  BY <1>1, <1>4, <1>5, <1>6, IdleIs, RequestKeeps

LEMMA ListKeeps == ASSUME IInv, NEW s \in Slots, ListStart(s) \/ ListAnswer(s) PROVE IInv'
<1>. DEFINE r == [op |-> "list", latest |-> mark, saw |-> {}]
<1>1. /\ UNCHANGED <<row, mine, mark, acked, cursor, loaded, since, inserted, deleted, repeated,
                     overlapped>>
      /\ overlapped \in BOOLEAN
      /\ mark \in 0 .. MaxMessages /\ mark <= Stamped /\ acked \subseteq Filled
      /\ Stamped \in 0 .. MaxMessages
  BY StampedTyped DEF ListStart, ListAnswer, pager, IInv, TypeOK, StampInv
<1>2. /\ r \in [op : {"idle", "read", "list"}, latest : 0 .. MaxMessages, saw : SUBSET Stamps]
      /\ r.op = "list" /\ r.latest = mark /\ r.saw = {}
  BY <1>1
<1>3. \/ req[s].op = "idle" /\ req' = [req EXCEPT ![s] = r]
      \/ req[s].op = "list" /\ req' = [req EXCEPT ![s] = Idle]
  BY IdleIs DEF ListStart, ListAnswer
<1>. HIDE DEF r
<1>4. ASSUME NEW x \in {r, Idle}, req' = [req EXCEPT ![s] = x], req[s].op # "read"
      PROVE  MarkInv'
  <2>1. \A q \in Slots : req'[q] = IF q = s THEN x ELSE req[q]
    BY <1>4 DEF IInv, TypeOK
  <2>2. Marking' = Marking
    BY <1>2, <1>4, <2>1, IdleIs DEF Marking
  <2>3. \A i \in Stamps : Alive(i)' <=> Alive(i)
    BY <1>1 DEF Alive
  <2>. QED  BY <1>1, <1>2, <2>1, <2>2, <2>3, IdleIs DEF IInv, MarkInv
<1>5. 0 <= Stamped
  BY <1>1
<1>6. CASE req[s].op = "idle" /\ req' = [req EXCEPT ![s] = r]
  BY <1>1, <1>2, <1>4, <1>6, RequestKeeps
<1>7. CASE req[s].op = "list" /\ req' = [req EXCEPT ![s] = Idle]
  BY <1>1, <1>4, <1>5, <1>7, IdleIs, RequestKeeps
<1>. QED  BY <1>3, <1>6, <1>7

-----------------------------------------------------------------------------
(* The history.                                                            *)

\* One page further: what it leaves out is past it.
LEMMA PageIs ==
  ASSUME TypeOK, NEW offset \in 0 .. MaxMessages
  PROVE  /\ Slice(offset) \in SUBSET Visible
         /\ \A i \in Visible : RankIn(Visible, i) \in Nat
         /\ \A i \in Slice(offset) : offset < RankIn(Visible, i) /\
                                     RankIn(Visible, i) <= offset + Limit
         /\ \A i \in Visible : RankIn(Visible, i) > offset =>
               \/ i \in Slice(offset)
               \/ RankIn(Visible, i) > offset + Limit /\ NextCursor(offset) # 0
         /\ NextCursor(offset) # 0 => NextCursor(offset) = offset + Limit
         /\ NextCursor(offset) \in 0 .. MaxMessages
<1>1. /\ offset \in Nat /\ Limit \in Nat \ {0} /\ MaxMessages \in Nat
      /\ Cardinality(Visible) \in 0 .. MaxMessages /\ Visible \in SUBSET Stamps
  BY StampedTyped, MessageAssumption, LimitAssumption
<1>2. \A i \in Visible : RankIn(Visible, i) \in Nat /\ RankIn(Visible, i) <= Cardinality(Visible)
  BY <1>1, RankBounds
<1>3. \A i : Rank(i) = RankIn(Visible, i)
  BY DEF Rank, RankIn
<1>4. HasNext(offset) <=> Cardinality(Visible) > offset + Limit
  BY DEF HasNext
<1>5. NextCursor(offset) = IF HasNext(offset) THEN offset + Limit ELSE 0
  BY DEF NextCursor
<1>6. /\ Slice(offset) \in SUBSET Visible
      /\ \A i \in Visible : i \in Slice(offset) <=>
           offset < RankIn(Visible, i) /\ RankIn(Visible, i) <= offset + Limit
  BY <1>3 DEF Slice
<1>7. ASSUME NEW i \in Visible, RankIn(Visible, i) > offset, i \notin Slice(offset)
      PROVE  RankIn(Visible, i) > offset + Limit /\ NextCursor(offset) # 0
  <2>1. RankIn(Visible, i) > offset + Limit
    BY <1>1, <1>2, <1>6, <1>7
  <2>2. Cardinality(Visible) > offset + Limit
    BY <1>1, <1>2, <2>1
  <2>. QED  BY <1>1, <1>4, <1>5, <2>1, <2>2
<1>8. NextCursor(offset) \in 0 .. MaxMessages
  BY <1>1, <1>4, <1>5
<1>. QED  BY <1>2, <1>5, <1>6, <1>7, <1>8

\* A message that is further than another is older.
LEMMA FurtherIsOlder ==
  ASSUME NEW V \in SUBSET Stamps, NEW i \in Stamps, NEW j \in Stamps,
         RankIn(V, j) < RankIn(V, i)
  PROVE  i < j
<1>1. i \in Nat /\ j \in Nat /\ RankIn(V, j) \in Nat /\ RankIn(V, i) \in Nat
  BY RankBounds, MessageAssumption DEF Stamps
<1>2. ~(j <= i)
  <2>1. j <= i => RankIn(V, i) <= RankIn(V, j)
    BY RankMonotonic
  <2>. QED  BY <1>1, <2>1
<1>. QED  BY <1>1, <1>2

LEMMA LoadSame ==
  ASSUME IInv, UNCHANGED <<row, mine, mark, req, acked, overlapped>>,
         since' \in SUBSET Filled, loaded' \in SUBSET Stamps, cursor' \in 0 .. MaxMessages,
         {inserted', deleted', repeated'} \subseteq BOOLEAN
  PROVE  TypeOK' /\ StampInv' /\ ReqInv' /\ MarkInv' /\ Visible' = Visible
<1>1. Visible' = Visible /\ Filled' = Filled /\ Stamped' = Stamped /\ Filled \subseteq Stamps
  BY DEF Visible, Filled, Stamped
<1>2. TypeOK'
  BY <1>1 DEF IInv, TypeOK
<1>3. StampInv' /\ ReqInv'
  BY <1>1 DEF IInv, StampInv, ReqInv
<1>4. MarkInv'
  BY DEF IInv, MarkInv, Marking, Alive
<1>. QED  BY <1>1, <1>2, <1>3, <1>4

LEMMA LoadFirstKeeps == IInv /\ LoadFirst => IInv'
<1>. SUFFICES ASSUME IInv, LoadFirst PROVE IInv'
  OBVIOUS
<1>1. /\ loaded' = Slice(0) /\ cursor' = NextCursor(0) /\ since' = Visible
      /\ inserted' = FALSE /\ deleted' = FALSE /\ repeated' = FALSE
      /\ UNCHANGED <<row, mine, mark, req, acked, overlapped>>
  BY DEF LoadFirst
<1>2. 0 \in 0 .. MaxMessages /\ Visible \in SUBSET Stamps /\ Visible \subseteq Filled
  BY MessageAssumption DEF Visible, Filled
<1>3. /\ Slice(0) \in SUBSET Visible
      /\ \A i \in Visible : RankIn(Visible, i) \in Nat
      /\ \A i \in Slice(0) : RankIn(Visible, i) <= 0 + Limit
      /\ \A i \in Visible : RankIn(Visible, i) > 0 =>
           \/ i \in Slice(0)
           \/ RankIn(Visible, i) > 0 + Limit /\ NextCursor(0) # 0
      /\ NextCursor(0) # 0 => NextCursor(0) = 0 + Limit
      /\ NextCursor(0) \in 0 .. MaxMessages
  BY <1>2, PageIs DEF IInv
<1>4. TypeOK' /\ StampInv' /\ ReqInv' /\ MarkInv' /\ Visible' = Visible
  BY <1>1, <1>2, <1>3, LoadSame
<1>5. PageInv'
  <2>1. SUFFICES ASSUME NEW i \in Visible, i \notin Slice(0)
                 PROVE  /\ NextCursor(0) # 0 /\ RankIn(Visible, i) > NextCursor(0)
                        /\ \A j \in Slice(0) : i < j
    BY <1>1, <1>4 DEF PageInv
  <2>2. RankIn(Visible, i) > 0
    BY <1>2, <1>3, RankBounds
  <2>3. NextCursor(0) # 0 /\ RankIn(Visible, i) > NextCursor(0)
    BY <1>3, <2>1, <2>2
  <2>4. ASSUME NEW j \in Slice(0) PROVE i < j
    <3>1. RankIn(Visible, j) < RankIn(Visible, i)
      BY <1>3, <2>1, <2>2, <2>4, LimitAssumption
    <3>. QED  BY <1>2, <1>3, <3>1, FurtherIsOlder
  <2>. QED  BY <2>3, <2>4
<1>6. DriftInv'
  BY <1>1, <1>3, <1>4 DEF DriftInv
<1>. QED  BY <1>4, <1>5, <1>6 DEF IInv

LEMMA LoadOlderKeeps == IInv /\ LoadOlder => IInv'
<1>. SUFFICES ASSUME IInv, LoadOlder PROVE IInv'
  OBVIOUS
<1>1. /\ loaded' = loaded \union Slice(cursor) /\ cursor' = NextCursor(cursor) /\ cursor # 0
      /\ repeated' = (repeated \/ Slice(cursor) \intersect loaded # {})
      /\ UNCHANGED <<row, mine, mark, req, acked, since, inserted, deleted, overlapped>>
  BY DEF LoadOlder
<1>2. /\ cursor \in 0 .. MaxMessages /\ Visible \in SUBSET Stamps /\ cursor \in Nat
      /\ since \in SUBSET Filled /\ loaded \in SUBSET Stamps /\ since \in SUBSET Stamps
      /\ {inserted, deleted, repeated} \subseteq BOOLEAN
  BY MessageAssumption DEF Visible, IInv, TypeOK, StampInv
<1>3. /\ Slice(cursor) \in SUBSET Visible
      /\ \A i \in Visible : RankIn(Visible, i) \in Nat
      /\ \A i \in Slice(cursor) : cursor < RankIn(Visible, i) /\
                                  RankIn(Visible, i) <= cursor + Limit
      /\ \A i \in Visible : RankIn(Visible, i) > cursor =>
           \/ i \in Slice(cursor)
           \/ RankIn(Visible, i) > cursor + Limit /\ NextCursor(cursor) # 0
      /\ NextCursor(cursor) # 0 => NextCursor(cursor) = cursor + Limit
      /\ NextCursor(cursor) \in 0 .. MaxMessages
  BY <1>2, PageIs DEF IInv
<1>4. repeated' \in BOOLEAN /\ loaded' \in SUBSET Stamps
  BY <1>1, <1>2, <1>3
<1>5. TypeOK' /\ StampInv' /\ ReqInv' /\ MarkInv' /\ Visible' = Visible
  BY <1>1, <1>2, <1>3, <1>4, LoadSame
<1>6. PageInv'
  <2>1. SUFFICES ASSUME ~deleted
                 PROVE  /\ since \subseteq Visible
                        /\ \A i \in since \ loaded' :
                             /\ NextCursor(cursor) # 0 /\ RankIn(Visible, i) > NextCursor(cursor)
                             /\ \A j \in loaded' : i < j
    BY <1>1, <1>5 DEF PageInv
  <2>2. since \subseteq Visible
    BY <2>1 DEF IInv, PageInv
  <2>3. ASSUME NEW i \in since \ loaded'
        PROVE  /\ NextCursor(cursor) # 0 /\ RankIn(Visible, i) > NextCursor(cursor)
               /\ \A j \in loaded' : i < j
    <3>1. RankIn(Visible, i) > cursor /\ \A j \in loaded : i < j
      BY <1>1, <2>1, <2>3 DEF IInv, PageInv
    <3>2. /\ RankIn(Visible, i) > cursor + Limit /\ NextCursor(cursor) # 0
          /\ RankIn(Visible, i) > NextCursor(cursor)
      BY <1>1, <1>3, <2>2, <2>3, <3>1
    <3>3. ASSUME NEW j \in Slice(cursor) PROVE i < j
      <4>1. RankIn(Visible, j) < RankIn(Visible, i)
        BY <1>2, <1>3, <2>2, <3>2, <3>3, LimitAssumption
      <4>. QED  BY <1>2, <1>3, <4>1, FurtherIsOlder
    <3>. QED  BY <1>1, <3>1, <3>2, <3>3
  <2>. QED  BY <2>2, <2>3
<1>7. DriftInv'
  <2>1. SUFFICES ASSUME ~inserted
                 PROVE  /\ ~repeated'
                        /\ NextCursor(cursor) # 0 => \A j \in loaded' : j \in Visible =>
                             RankIn(Visible, j) <= NextCursor(cursor)
    BY <1>1, <1>5 DEF DriftInv
  <2>2. ~repeated /\ \A j \in loaded : j \in Visible => RankIn(Visible, j) <= cursor
    BY <1>1, <2>1 DEF IInv, DriftInv
  <2>3. ~repeated'
    BY <1>1, <1>2, <1>3, <2>2
  <2>4. ASSUME NextCursor(cursor) # 0, NEW j \in loaded', j \in Visible
        PROVE  RankIn(Visible, j) <= NextCursor(cursor)
    BY <1>1, <1>2, <1>3, <2>2, <2>4, LimitAssumption
  <2>. QED  BY <2>3, <2>4
<1>. QED  BY <1>5, <1>6, <1>7 DEF IInv

-----------------------------------------------------------------------------
(* The theorems.                                                           *)

LEMMA InitIInv == Init => IInv
<1>. SUFFICES ASSUME Init PROVE IInv
  OBVIOUS
<1>1. /\ row = [i \in Stamps |-> "none"] /\ mine = {} /\ mark = 0
      /\ \A s \in Slots : req[s] = Idle
      /\ cursor = 0 /\ loaded = {} /\ acked = {} /\ since = {}
      /\ inserted = FALSE /\ deleted = FALSE /\ repeated = FALSE /\ overlapped = FALSE
  BY DEF Init
<1>2. TypeOK
  <2>1. req \in [Slots -> [op : {"idle", "read", "list"}, latest : 0 .. MaxMessages,
                          saw : SUBSET Stamps]]
    BY IdleIs DEF Init
  <2>2. row \in [Stamps -> {"none", "open", "shown", "gone"}]
    BY <1>1
  <2>3. 0 \in 0 .. MaxMessages
    BY MessageAssumption
  <2>. QED  BY <1>1, <2>1, <2>2, <2>3 DEF TypeOK
<1>3. Stamped = 0
  <2>1. {i \in Stamps : row[i] # "none"} = {}
    BY <1>1
  <2>. QED  BY <2>1, FS_EmptySet DEF Stamped
<1>4. StampInv
  <2>1. \A i \in Stamps : i \in Nat \ {0}
    BY MessageAssumption DEF Stamps
  <2>. QED  BY <1>1, <1>3, <2>1 DEF StampInv
<1>5. ReqInv
  BY <1>1, <1>3, IdleIs DEF ReqInv
<1>6. MarkInv /\ PageInv /\ DriftInv
  BY <1>1, IdleIs DEF MarkInv, Alive, PageInv, DriftInv
<1>. QED  BY <1>2, <1>4, <1>5, <1>6 DEF IInv

LEMMA NextKeeps == IInv /\ [Next]_vars => IInv'
<1>. SUFFICES ASSUME IInv, [Next]_vars PROVE IInv'
  OBVIOUS
<1>1. ASSUME NEW i \in Stamps, Insert(i) \/ Commit(i) \/ Rollback(i) \/ Delete(i)
      PROVE  IInv'
  BY <1>1, InsertKeeps, RowKeeps
<1>2. ASSUME NEW s \in Slots, MarkRead(s) \/ MarkCommit(s) \/ ListStart(s) \/ ListAnswer(s)
      PROVE  IInv'
  BY <1>2, MarkReadKeeps, MarkCommitKeeps, ListKeeps
<1>3. CASE LoadFirst \/ LoadOlder
  BY <1>3, LoadFirstKeeps, LoadOlderKeeps
<1>4. CASE UNCHANGED vars
  <2>1. UNCHANGED <<row, mine, mark, req, acked, overlapped, cursor, loaded, since,
                    inserted, deleted, repeated>>
    BY <1>4 DEF vars
  <2>. QED  BY <2>1 DEF IInv, TypeOK, StampInv, ReqInv, MarkInv, PageInv, DriftInv,
                        Filled, Stamped, Alive, Marking, Visible
<1>. QED  BY <1>1, <1>2, <1>3, <1>4 DEF Next

\* The inductive invariant holds in every state of Spec.
THEOREM TimelineInvariant == Spec => []IInv
BY InitIInv, NextKeeps, PTL DEF Spec

(* The rows, the read state, the requests of the reader and the pages stay *)
(* in the sets the module names: no mark and no cursor passes the last     *)
(* message.                                                                *)
THEOREM TimelineTypeCorrect == Spec => []TypeOK
<1>1. IInv => TypeOK
  BY DEF IInv
<1>. QED  BY <1>1, TimelineInvariant, PTL

(* The unread messages, which the code finds by their stamps, are those    *)
(* that came since the reader marked the chat read, for any number of      *)
(* requests and messages, unless a mark overlaps a mark or an insertion.   *)
THEOREM UnreadIsWhatCameHolds == Spec => []UnreadIsWhatCame
<1>1. IInv => UnreadIsWhatCame
  <2>1. \A i \in Visible : i \in Stamps /\ Alive(i)
    BY DEF Visible, Alive
  <2>. QED  BY <2>1 DEF IInv, MarkInv, UnreadIsWhatCame, Unread, Came
<1>. QED  BY <1>1, TimelineInvariant, PTL

(* A list of unread counts never leaves out what came after the mark,      *)
(* whatever marks were set while it was being answered.                    *)
THEOREM ListHidesNothingHolds == Spec => ListHidesNothing
<1>1. IInv => \A s \in Slots : ListAnswer(s) /\ ~overlapped => Came \subseteq Unread(req[s].latest)
  <2>1. \A i \in Visible : i \in Stamps /\ Alive(i)
    BY DEF Visible, Alive
  <2>. QED  BY <2>1 DEF IInv, MarkInv, ListAnswer, Unread, Came
<1>. QED  BY <1>1, TimelineInvariant, PTL DEF ListHidesNothing

(* While others write, only a deletion makes a page skip a message that    *)
(* has been there since the first page, and only an insertion makes one    *)
(* repeat a message, for any page size and any length of the history.      *)
THEOREM PagesDriftWithWritesHolds == Spec => []PagesDriftWithWrites
<1>1. IInv => PagesDriftWithWrites
  <2>. SUFFICES ASSUME IInv PROVE PagesDriftWithWrites
    OBVIOUS
  <2>1. ASSUME ~deleted, NEW i \in since, cursor = 0 \/ \E j \in loaded : j < i, i \notin loaded
        PROVE  FALSE
    <3>1. cursor # 0 /\ \A j \in loaded : i < j
      BY <2>1 DEF IInv, PageInv
    <3>2. PICK j \in loaded : j < i
      BY <2>1, <3>1
    <3>3. i \in Nat /\ j \in Nat
      BY <3>2, MessageAssumption DEF IInv, TypeOK, Stamps
    <3>. QED  BY <3>1, <3>2, <3>3
  <2>2. ~inserted => ~repeated
    BY DEF IInv, DriftInv
  <2>. QED  BY <2>1, <2>2 DEF PagesDriftWithWrites
<1>. QED  BY <1>1, TimelineInvariant, PTL

-----------------------------------------------------------------------------
(* The list of the web client.  Its state shares nothing with that of      *)
(* MessageTimeline; each theorem is about one of the two specifications.   *)
(*                                                                         *)
(* The invariant of the client's list: once the page of the active chat is *)
(* in, what the list lacks of the chat is on its way as an event, and what *)
(* it has in excess an event on its way removes - unless one of the        *)
(* exceptions on record (stray, missed) has occurred.                      *)

CommandType == [type : {"subscribe", "unsubscribe"}, chat : Chats]
EventType == [type : {"upsert", "remove"}, about : Messages] \union [type : {"left"}, about : Chats]

InQueue(q, e) == \E i \in DOMAIN q : q[i] = e
Upserts(m) == InQueue(inbox, [type |-> "upsert", about |-> m])
Removes(m) == InQueue(inbox, [type |-> "remove", about |-> m])

LoadsTyped ==
  /\ loads \subseteq LoadsOfSteps /\ IsFiniteSet(loads) /\ Cardinality(loads) <= MaxLoads
  /\ \A load, other \in Current : load = other
  /\ \A load \in Current : load.chat = active

WireTyped ==
  /\ joined \subseteq Chats /\ group \subseteq joined
  /\ socket \in {"connecting", "open", "closed"}
  /\ socket # "open" => group = {} /\ inbox = <<>> /\ outbox = <<>>
  /\ outbox \in Seq(CommandType) /\ inbox \in Seq(EventType)

DataTyped ==
  /\ sent \in [Messages -> {"none", "sent", "deleted"}]
  /\ active \in Chats \union {NoChat}
  /\ loading \in BOOLEAN /\ more \in BOOLEAN
  /\ view \subseteq Messages \union Chats
  /\ request \in [kind : {"none", "save", "delete", "older"}, step : {"idle", "asked", "answered"},
                  chat : Chats \union {NoChat}, message : Messages \union {NoMessage}]
  /\ refresh \in [step : {"idle", "asked", "answered"}, rooms : SUBSET Chats]
  /\ acts \in 0 .. MaxActs
  /\ stray \in BOOLEAN /\ missed \in BOOLEAN

ClientTyped == LoadsTyped /\ WireTyped /\ DataTyped

\* Only a load that has been superseded does not hold the flag.
LoadingInv == ~loading => Current = {}

\* A page, answered late or not, is one of the chat that was asked for.
LoadPageInv == \A load \in loads : load.page \subseteq Of(load.chat)

\* The list is that of the active chat from the arrival of its page on.
PageShown == \A load \in Current : load.step = "marking"
FitInv == PageShown /\ ~stray => view \subseteq Of(active) \union {active}

\* A request names a message of the chat that was active when it was made, and an
\* answered one has taken effect.
RequestInv ==
  /\ request.kind # "none" => request.chat \in Chats
  /\ request.kind \in {"save", "delete"} => request.message \in Of(request.chat)
  /\ request.step = "answered" =>
       /\ request.kind = "save" => sent[request.message] # "none"
       /\ request.kind = "delete" => sent[request.message] = "deleted"

\* Whatever has come from the server tells of something that has happened.
SeenInv ==
  \A m \in Messages :
    /\ sent[m] = "none" => m \notin view /\ ~Upserts(m) /\ \A load \in loads : m \notin load.page
    /\ Removes(m) => sent[m] = "deleted"

\* An answered page is up to date until the chat changes, which is then on record.
AnsweredInv ==
  ~missed =>
    \A load \in Current : load.step = "answered" => load.page = Present(active)

\* What the list lacks, or has in excess, an event on its way will put right.
LoadedInv ==
  socket # "closed" /\ ~stray /\ ~missed /\ PageShown =>
    \A m \in Of(active) :
      /\ sent[m] = "sent" => m \in view \/ Upserts(m)
      /\ sent[m] = "deleted" /\ m \in view => Removes(m)

ListInv == LoadingInv /\ LoadPageInv /\ FitInv /\ SeenInv /\ AnsweredInv /\ LoadedInv
ClientInv == ClientTyped /\ RequestInv /\ ListInv

-----------------------------------------------------------------------------
(* Queues and sets of loads.                                               *)

\* An event or command is put at the end of a queue.
LEMMA QueueAppend ==
  ASSUME NEW S, NEW q \in Seq(S), NEW e \in S
  PROVE  /\ Append(q, e) \in Seq(S)
         /\ \A x : InQueue(Append(q, e), x) <=> InQueue(q, x) \/ x = e
<1>. DEFINE new == Append(q, e)
<1>1. /\ new \in Seq(S) /\ Len(q) \in Nat /\ Len(new) = Len(q) + 1 /\ new[Len(q) + 1] = e
      /\ DOMAIN q = 1 .. Len(q) /\ DOMAIN new = 1 .. Len(new)
      /\ \A i \in 1 .. Len(q) : new[i] = q[i]
  BY AppendProperties, LenProperties
<1>. SUFFICES new \in Seq(S) /\ \A x : InQueue(new, x) <=> InQueue(q, x) \/ x = e
  OBVIOUS
<1>. HIDE DEF new
<1>2. ASSUME NEW x, InQueue(new, x)
      PROVE  InQueue(q, x) \/ x = e
  BY <1>1, <1>2 DEF InQueue
<1>3. ASSUME NEW x, InQueue(q, x) \/ x = e
      PROVE  InQueue(new, x)
  BY <1>1, <1>3 DEF InQueue
<1>. QED  BY <1>1, <1>2, <1>3

\* The first event or command is taken off a queue.
LEMMA QueueTail ==
  ASSUME NEW S, NEW q \in Seq(S), q # <<>>
  PROVE  /\ Head(q) \in S /\ Tail(q) \in Seq(S)
         /\ \A x : InQueue(q, x) <=> InQueue(Tail(q), x) \/ x = Head(q)
<1>. DEFINE rest == Tail(q)
<1>1. /\ rest \in Seq(S) /\ Head(q) \in S /\ Head(q) = q[1]
      /\ Len(q) \in Nat /\ Len(q) > 0 /\ Len(rest) = Len(q) - 1
      /\ DOMAIN q = 1 .. Len(q) /\ DOMAIN rest = 1 .. Len(rest)
      /\ \A i \in 1 .. Len(rest) : rest[i] = q[i + 1]
  BY HeadTailProperties, EmptySeq, LenProperties
<1>. SUFFICES /\ Head(q) \in S /\ rest \in Seq(S)
              /\ \A x : InQueue(q, x) <=> InQueue(rest, x) \/ x = Head(q)
  OBVIOUS
<1>. HIDE DEF rest
<1>2. ASSUME NEW x, InQueue(q, x)
      PROVE  InQueue(rest, x) \/ x = Head(q)
  <2>1. PICK i \in 1 .. Len(q) : q[i] = x
    BY <1>1, <1>2 DEF InQueue
  <2>2. CASE i = 1
    BY <1>1, <2>1, <2>2
  <2>3. CASE i # 1
    <3>1. i - 1 \in 1 .. Len(rest) /\ rest[i - 1] = x
      BY <1>1, <2>1, <2>3
    <3>. QED  BY <1>1, <3>1 DEF InQueue
  <2>. QED  BY <2>2, <2>3
<1>3. ASSUME NEW x, InQueue(rest, x) \/ x = Head(q)
      PROVE  InQueue(q, x)
  <2>1. CASE InQueue(rest, x)
    <3>1. PICK i \in 1 .. Len(rest) : rest[i] = x
      BY <1>1, <2>1 DEF InQueue
    <3>2. i + 1 \in 1 .. Len(q) /\ q[i + 1] = x
      BY <1>1, <3>1
    <3>. QED  BY <1>1, <3>2 DEF InQueue
  <2>2. CASE x = Head(q)
    <3>1. 1 \in 1 .. Len(q) /\ q[1] = x
      BY <1>1, <2>2
    <3>. QED  BY <1>1, <3>1 DEF InQueue
  <2>. QED  BY <1>3, <2>1, <2>2
<1>. QED  BY <1>1, <1>2, <1>3

\* An empty queue holds nothing.
LEMMA QueueEmpty == \A x : ~InQueue(<<>>, x)
<1>1. DOMAIN <<>> = {}
  BY EmptySeq
<1>. QED  BY <1>1 DEF InQueue

\* A commit of another selection writes at most two commands.
LEMMA CommandsTyped ==
  ASSUME NEW old \in Chats \union {NoChat}, NEW c \in Chats \union {NoChat},
         NEW q \in Seq(CommandType)
  PROVE  /\ Commands(old, c) \in Seq(CommandType)
         /\ q \o Commands(old, c) \in Seq(CommandType)
<1>. DEFINE out == IF old = NoChat THEN <<>> ELSE << [type |-> "unsubscribe", chat |-> old] >>
            in == IF c = NoChat THEN <<>> ELSE << [type |-> "subscribe", chat |-> c] >>
<1>1. /\ <<>> \in Seq(CommandType)
      /\ \A e \in CommandType : <<e>> \in Seq(CommandType)
  BY EmptySeq
<1>2. /\ old # NoChat => [type |-> "unsubscribe", chat |-> old] \in CommandType
      /\ c # NoChat => [type |-> "subscribe", chat |-> c] \in CommandType
  BY DEF CommandType
<1>3. out \in Seq(CommandType) /\ in \in Seq(CommandType)
  BY <1>1, <1>2
<1>4. Commands(old, c) \in Seq(CommandType)
  BY <1>3, ConcatProperties DEF Commands
<1>. QED  BY <1>4, ConcatProperties

\* A selection supersedes every load and may start one.
LEMMA CancelledLoads ==
  ASSUME LoadsTyped
  PROVE  /\ Cancelled \subseteq LoadsOfSteps /\ IsFiniteSet(Cancelled)
         /\ Cardinality(Cancelled) \in Nat
         /\ Cardinality(Cancelled) <= Cardinality(loads)
         /\ \A load \in Cancelled : load.cancelled
         /\ \A load \in Cancelled :
              \E old \in loads : load.page = old.page /\ load.chat = old.chat
<1>. DEFINE f == [load \in loads |-> [load EXCEPT !.cancelled = TRUE]]
<1>1. f \in Surjection(loads, Cancelled)
  <2>1. /\ f \in [loads -> Cancelled]
        /\ \A load \in Cancelled : \E old \in loads : f[old] = load
    BY DEF Cancelled
  <2>. QED  BY <2>1 DEF Surjection
<1>2. IsFiniteSet(Cancelled) /\ Cardinality(Cancelled) <= Cardinality(loads)
  BY <1>1, FS_Surjection DEF LoadsTyped
<1>3. \A load \in loads : load \in LoadsOfSteps
  BY DEF LoadsTyped
<1>4. Cancelled \subseteq LoadsOfSteps
  BY <1>3 DEF Cancelled, LoadsOfSteps
<1>5. \A load \in Cancelled : load.cancelled
  BY <1>3 DEF Cancelled, LoadsOfSteps
<1>6. \A load \in Cancelled : \E old \in loads : load.page = old.page /\ load.chat = old.chat
  BY <1>3 DEF Cancelled, LoadsOfSteps
<1>. QED  BY <1>2, <1>4, <1>5, <1>6, FS_CardinalityType

\* One more element makes a finite set at most one larger.
LEMMA OneMore ==
  ASSUME NEW S, IsFiniteSet(S), NEW x
  PROVE  /\ IsFiniteSet(S \union {x}) /\ Cardinality(S) \in Nat
         /\ Cardinality(S \union {x}) \in Nat /\ Cardinality(S \union {x}) <= Cardinality(S) + 1
<1>1. Cardinality(S) \in Nat
  BY FS_CardinalityType
<1>2. /\ IsFiniteSet(S \union {x})
      /\ \/ Cardinality(S \union {x}) = Cardinality(S)
         \/ Cardinality(S \union {x}) = Cardinality(S) + 1
  BY FS_AddElement
<1>. QED  BY <1>1, <1>2

\* A load makes a step or ends.
LEMMA AdvancedLoads ==
  ASSUME LoadsTyped, NEW load \in loads,
         \/ loads' = loads \ {load}
         \/ \E next \in LoadsOfSteps :
              /\ loads' = (loads \ {load}) \union {next}
              /\ next.chat = load.chat /\ next.cancelled = load.cancelled,
         active' = active
  PROVE  LoadsTyped'
<1>. DEFINE rest == loads \ {load}
<1>1. /\ IsFiniteSet(rest) /\ Cardinality(rest) = Cardinality(loads) - 1
      /\ Cardinality(loads) \in Nat /\ Cardinality(rest) \in Nat
  BY FS_RemoveElement, FS_CardinalityType DEF LoadsTyped
<1>2. MaxLoads \in Nat
  BY BoundAssumption
<1>3. CASE loads' = rest
  <2>1. loads' \subseteq LoadsOfSteps /\ IsFiniteSet(loads') /\ Cardinality(loads') <= MaxLoads
    BY <1>1, <1>2, <1>3 DEF LoadsTyped
  <2>. QED  BY <1>3, <2>1 DEF LoadsTyped, Current
<1>4. CASE \E next \in LoadsOfSteps :
             /\ loads' = (loads \ {load}) \union {next}
             /\ next.chat = load.chat /\ next.cancelled = load.cancelled
  <2>1. PICK next \in LoadsOfSteps :
               /\ loads' = rest \union {next}
               /\ next.chat = load.chat /\ next.cancelled = load.cancelled
    BY <1>4
  <2>. HIDE DEF rest
  <2>3. /\ IsFiniteSet(loads') /\ Cardinality(loads') \in Nat
        /\ Cardinality(loads') <= Cardinality(rest) + 1
    BY <1>1, <2>1, OneMore
  <2>4. Cardinality(loads') <= MaxLoads
    BY <1>1, <1>2, <2>3 DEF LoadsTyped
  <2>5. loads' \subseteq LoadsOfSteps
    BY <2>1 DEF LoadsTyped, rest
  <2>6. \A x \in Current' : x = next \/ (x \in Current /\ x # load)
    BY <2>1 DEF Current, rest
  <2>7. load \in Current \/ next \notin Current'
    BY <2>1 DEF Current
  <2>. QED  BY <2>1, <2>3, <2>4, <2>5, <2>6, <2>7 DEF LoadsTyped
<1>. QED  BY <1>3, <1>4

-----------------------------------------------------------------------------
(* The steps.                                                              *)

\* What each conjunct is about, for a step that leaves list, loads and messages alone
\* and takes no event about a message from the queue but the socket's last.
QueuesKept ==
  /\ \A m \in Messages : (Upserts(m)' => Upserts(m)) /\ (Removes(m)' => Removes(m))
  /\ socket' # "closed" =>
       /\ socket # "closed"
       /\ \A m \in Messages : (Upserts(m) => Upserts(m)') /\ (Removes(m) => Removes(m)')

\* While the queue stays, so does what is on its way.
LEMMA InboxSame ==
  ASSUME inbox' = inbox
  PROVE  \A m \in Messages : (Upserts(m)' <=> Upserts(m)) /\ (Removes(m)' <=> Removes(m))
BY DEF Upserts, Removes

\* A step that leaves list, loads and messages alone keeps what is said of the list.
LEMMA QuietStep ==
  ASSUME ClientInv, QueuesKept,
         UNCHANGED <<sent, active, loads, loading, view, stray, missed>>
  PROVE  ListInv'
<1>1. LoadingInv' /\ LoadPageInv' /\ FitInv' /\ AnsweredInv'
  BY DEF ClientInv, ListInv, LoadingInv, LoadPageInv, FitInv, AnsweredInv, PageShown,
      Current, Of, Present
<1>2. SeenInv'
  BY DEF ClientInv, ListInv, SeenInv, QueuesKept
<1>3. LoadedInv'
  <2>. SUFFICES ASSUME socket' # "closed", ~stray, ~missed, PageShown, NEW m \in Of(active)
                PROVE  /\ sent[m] = "sent" => m \in view \/ Upserts(m)'
                       /\ sent[m] = "deleted" /\ m \in view => Removes(m)'
    BY DEF LoadedInv, PageShown, Current, Of
  <2>1. /\ sent[m] = "sent" => m \in view \/ Upserts(m)
        /\ sent[m] = "deleted" /\ m \in view => Removes(m)
    BY DEF ClientInv, ListInv, LoadedInv, QueuesKept
  <2>. QED  BY <2>1 DEF QueuesKept, Of
<1>. QED  BY <1>1, <1>2, <1>3 DEF ListInv

\* A selection: nothing is claimed of the new list before its page comes.
LEMMA SetActiveStep ==
  ASSUME ClientInv, NEW c \in Chats \union {NoChat}, SetActive(c),
         \A m \in Messages : (Upserts(m)' <=> Upserts(m)) /\ (Removes(m)' <=> Removes(m)),
         UNCHANGED <<sent, joined, group, socket, request>>
  PROVE  /\ LoadsTyped' /\ outbox' \in Seq(CommandType)
         /\ (socket # "open" => outbox' = <<>>) /\ ListInv'
<1>. USE DEF ClientInv, ListInv
<1>1. outbox' \in Seq(CommandType) /\ (socket # "open" => outbox' = <<>>)
  BY CommandsTyped DEF SetActive, ClientTyped, WireTyped, DataTyped
<1>2. /\ Cancelled \subseteq LoadsOfSteps /\ IsFiniteSet(Cancelled)
      /\ Cardinality(Cancelled) \in Nat
      /\ Cardinality(Cancelled) <= Cardinality(loads)
      /\ \A load \in Cancelled : load.cancelled
      /\ \A load \in Cancelled :
           \E old \in loads : load.page = old.page /\ load.chat = old.chat
  BY CancelledLoads DEF ClientTyped
<1>3. active' = c
  BY DEF SetActive
<1>4. CASE c = NoChat
  <2>1. loads' = Cancelled /\ view' = {} /\ stray' = FALSE /\ missed' = FALSE
    BY <1>4 DEF SetActive, LoadEffect
  <2>2. Current' = {}
    BY <1>2, <2>1 DEF Current
  <2>3. Cardinality(Cancelled) <= MaxLoads
    BY <1>2, FS_CardinalityType, BoundAssumption DEF ClientTyped, LoadsTyped
  <2>4. LoadsTyped'
    BY <1>2, <2>1, <2>2, <2>3 DEF LoadsTyped
  <2>5. Of(c) = {}
    BY <1>4, ChatAssumption, HomeAssumption DEF Of
  <2>6. LoadingInv' /\ AnsweredInv' /\ FitInv'
    BY <2>1, <2>2 DEF LoadingInv, AnsweredInv, FitInv
  <2>7. LoadPageInv'
    BY <1>2, <2>1 DEF LoadPageInv, Of
  <2>8. SeenInv'
    BY <1>2, <2>1 DEF SeenInv
  <2>9. LoadedInv'
    BY <1>3, <2>5 DEF LoadedInv, Of
  <2>. QED  BY <1>1, <2>4, <2>6, <2>7, <2>8, <2>9
<1>5. CASE c # NoChat
  <2>1. /\ loads' = Cancelled \union {NewLoad(c)} /\ loading' = TRUE
        /\ Cardinality(Cancelled) < MaxLoads /\ UNCHANGED <<view, stray, missed>>
    BY <1>5 DEF SetActive, LoadEffect, history
  <2>2. /\ NewLoad(c) \in LoadsOfSteps
        /\ NewLoad(c).chat = c /\ NewLoad(c).page = {}
        /\ NewLoad(c).step = "asked" /\ ~NewLoad(c).cancelled
    BY <1>5 DEF NewLoad, LoadsOfSteps
  <2>3. Current' = {NewLoad(c)}
    BY <1>2, <2>1, <2>2 DEF Current
  <2>4. LoadsTyped'
    <3>1. IsFiniteSet(loads') /\ Cardinality(loads') <= Cardinality(Cancelled) + 1
          /\ Cardinality(loads') \in Nat
      BY <1>2, <2>1, OneMore
    <3>2. Cardinality(loads') <= MaxLoads
      BY <1>2, <2>1, <3>1, BoundAssumption
    <3>. QED  BY <1>2, <1>3, <2>1, <2>2, <2>3, <3>1, <3>2 DEF LoadsTyped
  <2>5. LoadingInv' /\ AnsweredInv' /\ FitInv' /\ LoadedInv'
    BY <2>1, <2>2, <2>3 DEF LoadingInv, AnsweredInv, FitInv, LoadedInv, PageShown
  <2>6. LoadPageInv'
    BY <1>2, <2>1, <2>2 DEF LoadPageInv, Of
  <2>7. SeenInv'
    BY <1>2, <2>1, <2>2 DEF SeenInv
  <2>. QED  BY <1>1, <2>4, <2>5, <2>6, <2>7
<1>. QED  BY <1>4, <1>5

\* A message appears or is deleted, and the event goes to the connection's groups.
LEMMA ChangeStep ==
  ASSUME ClientInv, NEW m \in Messages, NEW state, NEW type, Change(m, state, type),
         \/ sent[m] = "none" /\ state = "sent" /\ type = "upsert"
         \/ sent[m] = "sent" /\ state = "deleted" /\ type = "remove",
         UNCHANGED <<joined, group, socket, outbox, active, loads, loading, view, stray>>
  PROVE  /\ sent' \in [Messages -> {"none", "sent", "deleted"}] /\ missed' \in BOOLEAN
         /\ LoadsTyped' /\ WireTyped' /\ ListInv'
         /\ \A n \in Messages : /\ sent[n] # "none" => sent'[n] # "none"
                                /\ sent[n] = "deleted" => sent'[n] = "deleted"
<1>. USE DEF ClientInv, ListInv
<1>. DEFINE event == [type |-> type, about |-> m]
<1>1. event \in EventType /\ HomeOf[m] \in Chats /\ HomeOf[m] # NoChat
  BY HomeAssumption, ChatAssumption DEF EventType
<1>2. /\ sent \in [Messages -> {"none", "sent", "deleted"}] /\ missed \in BOOLEAN
      /\ inbox \in Seq(EventType)
  BY DEF ClientTyped, DataTyped, WireTyped
<1>3. /\ sent' \in [Messages -> {"none", "sent", "deleted"}] /\ sent'[m] = state
      /\ \A n \in Messages : n # m => sent'[n] = sent[n]
  BY <1>2 DEF Change
<1>4. missed' = (missed \/ ~Covered(m))
  BY DEF Change
<1>5. /\ inbox' \in Seq(EventType)
      /\ HomeOf[m] \in group => \A x : InQueue(inbox', x) <=> (InQueue(inbox, x) \/ x = event)
      /\ HomeOf[m] \notin group => inbox' = inbox
  BY <1>1, <1>2, QueueAppend DEF Change, Announce
<1>6. WireTyped'
  BY <1>5 DEF WireTyped, ClientTyped
<1>7. LoadsTyped'
  BY DEF ClientTyped, LoadsTyped, Current
<1>8. LoadingInv' /\ LoadPageInv' /\ FitInv'
  BY DEF LoadingInv, LoadPageInv, FitInv, PageShown, Current, Of
<1>9. /\ \A n \in Messages : Upserts(n) => Upserts(n)'
      /\ \A n \in Messages : Removes(n) => Removes(n)'
      /\ \A n \in Messages : Upserts(n)' => Upserts(n) \/ (n = m /\ type = "upsert")
      /\ \A n \in Messages : Removes(n)' => Removes(n) \/ (n = m /\ type = "remove")
      /\ HomeOf[m] \in group =>
           (type = "upsert" => Upserts(m)') /\ (type = "remove" => (Removes(m)'))
  BY <1>5 DEF Upserts, Removes
<1>10. SeenInv'
  BY <1>2, <1>3, <1>9 DEF SeenInv
<1>11. AnsweredInv'
  <2>. SUFFICES ASSUME ~missed', NEW load \in Current, load.step = "answered"
                PROVE  load.page = Present(active)'
    BY DEF AnsweredInv, Current
  <2>1. ~missed /\ Covered(m)
    BY <1>2, <1>4
  <2>2. \A other \in Current : other = load
    BY DEF ClientTyped, LoadsTyped
  <2>3. HomeOf[m] # active
    BY <2>1, <2>2 DEF Covered
  <2>4. Present(active)' = Present(active)
    BY <1>3, <2>3 DEF Present, Of
  <2>. QED  BY <2>1, <2>4 DEF AnsweredInv
<1>12. LoadedInv'
  <2>. SUFFICES ASSUME socket # "closed", ~stray, ~missed', PageShown, NEW n \in Of(active)
                PROVE  /\ sent'[n] = "sent" => n \in view \/ Upserts(n)'
                       /\ sent'[n] = "deleted" /\ n \in view => Removes(n)'
    BY DEF LoadedInv, PageShown, Current, Of
  <2>1. ~missed /\ Covered(m) /\ n \in Messages
    BY <1>2, <1>4 DEF Of
  <2>2. /\ sent[n] = "sent" => n \in view \/ Upserts(n)
        /\ sent[n] = "deleted" /\ n \in view => Removes(n)
    BY <2>1 DEF LoadedInv
  <2>3. n # m \/ HomeOf[m] \in group
    BY <2>1 DEF Covered, PageShown, Of
  <2>. QED  BY <1>3, <1>9, <2>1, <2>2, <2>3
<1>13. \A n \in Messages : /\ sent[n] # "none" => sent'[n] # "none"
                           /\ sent[n] = "deleted" => sent'[n] = "deleted"
  BY <1>3
<1>. QED  BY <1>2, <1>3, <1>4, <1>6, <1>7, <1>8, <1>10, <1>11, <1>12, <1>13

\* The server reads the page; a page of the active chat is then what there is.
LEMMA AnswerStep ==
  ASSUME ClientInv, NEW load \in loads, Answer(load)
  PROVE  ClientInv'
<1>. USE DEF ClientInv, ListInv
<1>. DEFINE next == [load EXCEPT !.step = "answered", !.page = Present(load.chat)]
<1>1. load \in LoadsOfSteps /\ load.step = "asked"
  BY DEF Answer, ClientTyped, LoadsTyped
<1>2. /\ Present(load.chat) \subseteq Of(load.chat)
      /\ Present(load.chat) \subseteq Messages
  BY DEF Present, Of
<1>3. /\ next \in LoadsOfSteps /\ next.chat = load.chat /\ next.cancelled = load.cancelled
      /\ next.step = "answered" /\ next.page = Present(load.chat)
  BY <1>1, <1>2 DEF LoadsOfSteps
<1>4. /\ loads' = (loads \ {load}) \union {next} /\ missed' = (missed /\ load.cancelled)
      /\ UNCHANGED <<sent, joined, group, socket, outbox, inbox, active, view, more, loading,
                     request, refresh, acts, stray>>
  BY DEF Answer, Advance, server, wire, list
<1>. HIDE DEF next
<1>5. LoadsTyped'
  BY <1>3, <1>4, AdvancedLoads DEF ClientTyped
<1>6. missed' \in BOOLEAN
  BY <1>1, <1>4 DEF ClientTyped, DataTyped, LoadsOfSteps
<1>7. ClientTyped' /\ RequestInv'
  BY <1>4, <1>5, <1>6 DEF ClientTyped, WireTyped, DataTyped, RequestInv, Of
<1>8. LoadPageInv'
  BY <1>2, <1>3, <1>4 DEF LoadPageInv, Of
<1>9. \A m \in Messages : (Upserts(m)' <=> Upserts(m)) /\ (Removes(m)' <=> Removes(m))
  BY <1>4, InboxSame
<1>10. \A m \in Messages : sent[m] = "none" => m \notin next.page
  BY <1>3 DEF Present
<1>11. SeenInv'
  BY <1>4, <1>9, <1>10 DEF SeenInv
<1>12. CASE load.cancelled
  <2>1. Current' = Current /\ missed' = missed
    <3>1. missed \in BOOLEAN
      BY DEF ClientTyped, DataTyped
    <3>. QED  BY <1>3, <1>4, <1>12, <3>1 DEF Current
  <2>2. LoadingInv' /\ FitInv' /\ AnsweredInv'
    BY <1>4, <2>1 DEF LoadingInv, FitInv, AnsweredInv, PageShown, Of, Present
  <2>3. LoadedInv'
    BY <1>4, <1>9, <2>1 DEF LoadedInv, PageShown, Of
  <2>. QED  BY <1>7, <1>8, <1>11, <2>2, <2>3
<1>13. CASE ~load.cancelled
  <2>1. load \in Current /\ \A other \in Current : other = load
    BY <1>13 DEF Current, ClientTyped, LoadsTyped
  <2>2. load.chat = active
    BY <2>1 DEF ClientTyped, LoadsTyped
  <2>3. Current' = {next}
    BY <1>3, <1>4, <1>13, <2>1 DEF Current
  <2>4. Present(active)' = next.page
    BY <1>3, <1>4, <2>2 DEF Present, Of
  <2>5. LoadingInv' /\ FitInv' /\ AnsweredInv' /\ LoadedInv'
    BY <1>3, <1>4, <2>1, <2>3, <2>4 DEF LoadingInv, FitInv, AnsweredInv, LoadedInv, PageShown
  <2>. QED  BY <1>7, <1>8, <1>11, <2>5
<1>. QED  BY <1>12, <1>13

\* The list becomes the page; unless the chat has changed since, it is what there is.
LEMMA ArriveStep ==
  ASSUME ClientInv, NEW load \in loads, Arrive(load)
  PROVE  ClientInv'
<1>. USE DEF ClientInv, ListInv
<1>1. load \in LoadsOfSteps /\ load.step = "answered" /\ load.page \subseteq Messages
  BY DEF Arrive, ClientTyped, LoadsTyped, LoadsOfSteps
<1>2. UNCHANGED <<sent, joined, group, socket, outbox, inbox, active, loading,
                  request, refresh, acts, missed>>
  BY DEF Arrive, server, wire
<1>3. \A m \in Messages : (Upserts(m)' <=> Upserts(m)) /\ (Removes(m)' <=> Removes(m))
  BY <1>2, InboxSame
<1>4. CASE load.cancelled
  <2>1. loads' = loads \ {load} /\ UNCHANGED <<view, more, stray>>
    BY <1>4 DEF Arrive, Advance
  <2>2. Current' = Current
    BY <1>4, <2>1 DEF Current
  <2>3. LoadsTyped'
    BY <1>2, <2>1, AdvancedLoads DEF ClientTyped
  <2>4. ClientTyped' /\ RequestInv'
    BY <1>2, <2>1, <2>3 DEF ClientTyped, WireTyped, DataTyped, RequestInv, Of
  <2>5. LoadPageInv' /\ SeenInv'
    BY <1>2, <1>3, <2>1 DEF LoadPageInv, SeenInv, Of
  <2>6. LoadingInv' /\ FitInv' /\ AnsweredInv'
    BY <1>2, <2>1, <2>2 DEF LoadingInv, FitInv, AnsweredInv, PageShown, Of, Present
  <2>7. LoadedInv'
    BY <1>2, <1>3, <2>1, <2>2 DEF LoadedInv, PageShown, Of
  <2>. QED  BY <2>4, <2>5, <2>6, <2>7
<1>5. CASE ~load.cancelled
  <2>. DEFINE next == [load EXCEPT !.step = "marking", !.page = {}]
  <2>1. /\ next \in LoadsOfSteps /\ next.chat = load.chat /\ next.cancelled = load.cancelled
        /\ next.step = "marking" /\ next.page = {}
    BY <1>1 DEF LoadsOfSteps
  <2>2. /\ loads' = (loads \ {load}) \union {next}
        /\ view' = load.page /\ more' = TRUE /\ stray' = FALSE
    BY <1>5 DEF Arrive, Advance
  <2>. HIDE DEF next
  <2>3. load \in Current /\ \A other \in Current : other = load
    BY <1>5 DEF Current, ClientTyped, LoadsTyped
  <2>4. load.chat = active
    BY <2>3 DEF ClientTyped, LoadsTyped
  <2>5. Current' = {next}
    BY <1>5, <2>1, <2>2, <2>3 DEF Current
  <2>6. LoadsTyped'
    BY <1>2, <2>1, <2>2, AdvancedLoads DEF ClientTyped
  <2>7. ClientTyped' /\ RequestInv'
    <3>1. view' \subseteq Messages \union Chats /\ more' \in BOOLEAN /\ stray' \in BOOLEAN
      BY <1>1, <2>2
    <3>2. DataTyped'
      BY <1>2, <3>1 DEF ClientTyped, DataTyped
    <3>3. WireTyped'
      BY <1>2 DEF ClientTyped, WireTyped
    <3>4. RequestInv'
      BY <1>2 DEF RequestInv, Of
    <3>. QED  BY <2>6, <3>2, <3>3, <3>4 DEF ClientTyped
  <2>8. LoadPageInv' /\ SeenInv'
    BY <1>2, <1>3, <2>1, <2>2 DEF LoadPageInv, SeenInv, Of
  <2>9. LoadingInv' /\ AnsweredInv'
    BY <1>2, <2>1, <2>3, <2>5 DEF LoadingInv, AnsweredInv
  <2>10. FitInv'
    BY <1>2, <2>2, <2>4 DEF FitInv, LoadPageInv, Of
  <2>11. LoadedInv'
    <3>1. ~missed => load.page = Present(active)
      BY <1>1, <2>3 DEF AnsweredInv
    <3>. QED  BY <1>2, <2>2, <3>1 DEF LoadedInv, Present, Of
  <2>. QED  BY <2>7, <2>8, <2>9, <2>10, <2>11
<1>. QED  BY <1>4, <1>5

\* A load ends, having marked the chat read or with an error.
LEMMA LoadEndStep ==
  ASSUME ClientInv, NEW load \in loads, LoadMarked(load) \/ Fail(load)
  PROVE  ClientInv'
<1>. USE DEF ClientInv, ListInv
<1>1. /\ loads' = loads \ {load} /\ loading' = (loading /\ load.cancelled)
      /\ UNCHANGED <<sent, joined, group, socket, outbox, inbox, active, view, more,
                     request, refresh, acts, missed>>
      /\ stray' = stray \/ stray' = (stray \/ ~load.cancelled)
  BY DEF LoadMarked, Fail, Advance, server, wire, history
<1>2. \A m \in Messages : (Upserts(m)' <=> Upserts(m)) /\ (Removes(m)' <=> Removes(m))
  BY <1>1, InboxSame
<1>3. load \in LoadsOfSteps /\ stray \in BOOLEAN /\ loading \in BOOLEAN
  BY DEF ClientTyped, LoadsTyped, DataTyped
<1>4. LoadsTyped'
  BY <1>1, AdvancedLoads DEF ClientTyped
<1>5. stray' \in BOOLEAN /\ loading' \in BOOLEAN
  BY <1>1, <1>3 DEF LoadsOfSteps
<1>6. ClientTyped' /\ RequestInv'
  BY <1>1, <1>4, <1>5 DEF ClientTyped, WireTyped, DataTyped, RequestInv, Of
<1>7. LoadPageInv' /\ SeenInv'
  BY <1>1, <1>2 DEF LoadPageInv, SeenInv, Of
<1>8. Current' = Current \ {load}
  BY <1>1 DEF Current
<1>9. load.cancelled => load \notin Current
  BY DEF Current
<1>10. ~load.cancelled => Current \ {load} = {}
  BY DEF Current, ClientTyped, LoadsTyped
<1>11. LoadingInv'
  BY <1>1, <1>3, <1>8, <1>10 DEF LoadingInv, LoadsOfSteps
<1>12. AnsweredInv'
  BY <1>1, <1>8 DEF AnsweredInv, Present, Of
<1>13. PageShown' /\ ~stray' => PageShown /\ ~stray
  <2>1. CASE LoadMarked(load)
    <3>1. load.step = "marking" /\ stray' = stray
      BY <2>1 DEF LoadMarked, history
    <3>. QED  BY <1>8, <3>1 DEF PageShown
  <2>2. CASE Fail(load)
    <3>1. stray' = (stray \/ ~load.cancelled)
      BY <2>2 DEF Fail
    <3>. QED  BY <1>3, <1>8, <1>9, <3>1 DEF PageShown
  <2>. QED  BY <2>1, <2>2
<1>14. FitInv'
  BY <1>1, <1>13 DEF FitInv, Of
<1>15. LoadedInv'
  BY <1>1, <1>2, <1>13 DEF LoadedInv, Of
<1>. QED  BY <1>6, <1>7, <1>11, <1>12, <1>14, <1>15

-----------------------------------------------------------------------------
(* Events.                                                                 *)

\* The client takes the first event off the queue.
LEMMA HeadEvent ==
  ASSUME ClientInv, inbox # <<>>, inbox' = Tail(inbox)
  PROVE  /\ Head(inbox) \in EventType /\ inbox' \in Seq(EventType) /\ socket = "open"
         /\ \A e : InQueue(inbox, e) <=> (InQueue(inbox', e) \/ e = Head(inbox))
<1>1. inbox \in Seq(EventType) /\ socket = "open"
  BY DEF ClientInv, ClientTyped, WireTyped
<1>. QED  BY <1>1, QueueTail

\* The message comes into the list, to stay unless a removal of it follows.
LEMMA DeliverUpsertStep ==
  ASSUME ClientInv, DeliverUpsert
  PROVE  ClientInv'
<1>. USE DEF ClientInv, ListInv
<1>. DEFINE m == Head(inbox).about
<1>1. /\ inbox # <<>> /\ Head(inbox).type = "upsert" /\ inbox' = Tail(inbox)
      /\ view' = IF HomeOf[m] = active THEN view \union {m} ELSE view
      /\ stray' = (stray \/ Outdated(m))
      /\ UNCHANGED <<sent, joined, group, socket, outbox, active, loads, loading, more, request,
                     refresh, acts, missed>>
  BY DEF DeliverUpsert, server
<1>2. /\ Head(inbox) \in EventType /\ inbox' \in Seq(EventType) /\ socket = "open"
      /\ \A e : InQueue(inbox, e) <=> (InQueue(inbox', e) \/ e = Head(inbox))
  BY <1>1, HeadEvent
<1>3. m \in Messages /\ Head(inbox) = [type |-> "upsert", about |-> m]
  BY <1>1, <1>2 DEF EventType
<1>4. /\ \A n \in Messages : Upserts(n) <=> (Upserts(n)' \/ n = m)
      /\ \A n \in Messages : Removes(n) <=> Removes(n)'
  BY <1>2, <1>3 DEF Upserts, Removes
<1>5. Outdated(m) <=> HomeOf[m] = active /\ sent[m] = "deleted" /\ ~Removes(m)
  BY DEF Outdated, Removes, InQueue
<1>. HIDE DEF m
<1>6. view' \subseteq Messages \union Chats /\ stray' \in BOOLEAN
  BY <1>1, <1>3, <1>5 DEF ClientTyped, DataTyped
<1>7. DataTyped'
  BY <1>1, <1>6 DEF ClientTyped, DataTyped
<1>8. WireTyped'
  BY <1>1, <1>2 DEF ClientTyped, WireTyped
<1>9. LoadsTyped' /\ Current' = Current
  BY <1>1 DEF ClientTyped, LoadsTyped, Current
<1>10. RequestInv' /\ LoadingInv' /\ LoadPageInv' /\ AnsweredInv'
  BY <1>1, <1>9 DEF RequestInv, LoadingInv, LoadPageInv, AnsweredInv, Present, Of
<1>11. stray \in BOOLEAN
  BY DEF ClientTyped, DataTyped
<1>12. FitInv'
  BY <1>1, <1>3, <1>9, <1>11 DEF FitInv, PageShown, Of
<1>13. sent[m] # "none"
  BY <1>3, <1>4 DEF SeenInv
<1>14. SeenInv'
  BY <1>1, <1>3, <1>4, <1>13 DEF SeenInv
<1>15. LoadedInv'
  <2>. SUFFICES ASSUME ~stray', ~missed, PageShown, NEW n \in Of(active)
                PROVE  /\ sent[n] = "sent" => n \in view' \/ Upserts(n)'
                       /\ sent[n] = "deleted" /\ n \in view' => Removes(n)'
    BY <1>1, <1>9 DEF LoadedInv, PageShown, Of
  <2>1. ~stray /\ ~Outdated(m) /\ n \in Messages /\ HomeOf[n] = active
    BY <1>1, <1>11 DEF Of
  <2>2. /\ sent[n] = "sent" => n \in view \/ Upserts(n)
        /\ sent[n] = "deleted" /\ n \in view => Removes(n)
    BY <1>2, <2>1 DEF LoadedInv
  <2>3. CASE n = m
    BY <1>1, <1>4, <1>5, <2>1, <2>3
  <2>4. CASE n # m
    BY <1>1, <1>4, <2>1, <2>2, <2>4
  <2>. QED  BY <2>3, <2>4
<1>. QED  BY <1>7, <1>8, <1>9, <1>10, <1>12, <1>14, <1>15 DEF ClientTyped

\* The message leaves the list, as it has left the chat.
LEMMA DeliverRemoveStep ==
  ASSUME ClientInv, DeliverRemove
  PROVE  ClientInv'
<1>. USE DEF ClientInv, ListInv
<1>. DEFINE m == Head(inbox).about
<1>1. /\ inbox # <<>> /\ Head(inbox).type = "remove" /\ inbox' = Tail(inbox)
      /\ view' = IF HomeOf[m] = active THEN view \ {m} ELSE view
      /\ UNCHANGED <<sent, joined, group, socket, outbox, active, loads, loading, more, request,
                     refresh, acts, stray, missed>>
  BY DEF DeliverRemove, server, history
<1>2. /\ Head(inbox) \in EventType /\ inbox' \in Seq(EventType) /\ socket = "open"
      /\ \A e : InQueue(inbox, e) <=> (InQueue(inbox', e) \/ e = Head(inbox))
  BY <1>1, HeadEvent
<1>3. m \in Messages /\ Head(inbox) = [type |-> "remove", about |-> m]
  BY <1>1, <1>2 DEF EventType
<1>4. /\ \A n \in Messages : Upserts(n) <=> Upserts(n)'
      /\ \A n \in Messages : Removes(n) <=> (Removes(n)' \/ n = m)
  BY <1>2, <1>3 DEF Upserts, Removes
<1>. HIDE DEF m
<1>5. view' \subseteq view
  BY <1>1
<1>6. DataTyped'
  BY <1>1, <1>5 DEF ClientTyped, DataTyped
<1>7. WireTyped'
  BY <1>1, <1>2 DEF ClientTyped, WireTyped
<1>8. LoadsTyped' /\ Current' = Current
  BY <1>1 DEF ClientTyped, LoadsTyped, Current
<1>9. RequestInv' /\ LoadingInv' /\ LoadPageInv' /\ AnsweredInv'
  BY <1>1, <1>8 DEF RequestInv, LoadingInv, LoadPageInv, AnsweredInv, Present, Of
<1>10. FitInv'
  BY <1>1, <1>5, <1>8 DEF FitInv, PageShown, Of
<1>11. SeenInv'
  BY <1>1, <1>4, <1>5 DEF SeenInv
<1>12. LoadedInv'
  <2>1. sent[m] = "deleted"
    BY <1>3, <1>4 DEF SeenInv
  <2>. SUFFICES ASSUME ~stray, ~missed, PageShown, NEW n \in Of(active)
                PROVE  /\ sent[n] = "sent" => n \in view' \/ Upserts(n)'
                       /\ sent[n] = "deleted" /\ n \in view' => Removes(n)'
    BY <1>1, <1>8 DEF LoadedInv, PageShown, Of
  <2>2. n \in Messages /\ HomeOf[n] = active
    BY DEF Of
  <2>3. /\ sent[n] = "sent" => n \in view \/ Upserts(n)
        /\ sent[n] = "deleted" /\ n \in view => Removes(n)
    BY <1>2 DEF LoadedInv
  <2>. QED  BY <1>1, <1>4, <2>1, <2>2, <2>3
<1>. QED  BY <1>6, <1>7, <1>8, <1>9, <1>10, <1>11, <1>12 DEF ClientTyped

\* The user is no longer in a chat: if it is the active one, the list is emptied.
LEMMA DeliverLeftStep ==
  ASSUME ClientInv, DeliverLeft
  PROVE  ClientInv'
<1>. USE DEF ClientInv
<1>1. /\ inbox # <<>> /\ Head(inbox).type = "left" /\ inbox' = Tail(inbox)
      /\ refresh' = [NoRefresh EXCEPT !.step = "asked"]
      /\ UNCHANGED <<sent, joined, group, socket, request, acts>>
      /\ \/ Head(inbox).about = active /\ SetActive(NoChat)
         \/ UNCHANGED <<active, outbox, loads, view, more, loading, stray, missed>>
  BY DEF DeliverLeft, server, list, history
<1>2. /\ Head(inbox) \in EventType /\ inbox' \in Seq(EventType) /\ socket = "open"
      /\ \A e : InQueue(inbox, e) <=> (InQueue(inbox', e) \/ e = Head(inbox))
  BY <1>1, HeadEvent
<1>3. \A m \in Messages : (Upserts(m)' <=> Upserts(m)) /\ (Removes(m)' <=> Removes(m))
  BY <1>1, <1>2 DEF Upserts, Removes
<1>4. refresh' \in [step : {"idle", "asked", "answered"}, rooms : SUBSET Chats]
  BY <1>1 DEF NoRefresh
<1>5. RequestInv'
  BY <1>1 DEF RequestInv, Of
<1>6. CASE SetActive(NoChat)
  <2>1. LoadsTyped' /\ outbox' \in Seq(CommandType) /\ ListInv'
    BY <1>1, <1>3, <1>6, SetActiveStep
  <2>2. /\ active' = NoChat /\ view' = {} /\ more' = FALSE /\ loading' = loading
        /\ stray' = FALSE /\ missed' = FALSE
    BY <1>6 DEF SetActive, LoadEffect
  <2>3. DataTyped'
    BY <1>1, <1>4, <2>2 DEF ClientTyped, DataTyped
  <2>4. WireTyped'
    BY <1>1, <1>2, <2>1 DEF ClientTyped, WireTyped
  <2>. QED  BY <1>5, <2>1, <2>3, <2>4 DEF ClientTyped
<1>7. CASE UNCHANGED <<active, outbox, loads, view, more, loading, stray, missed>>
  <2>1. ListInv'
    <3>1. QueuesKept
      BY <1>1, <1>2, <1>3 DEF QueuesKept
    <3>. QED  BY <1>1, <1>7, <3>1, QuietStep
  <2>2. DataTyped'
    BY <1>1, <1>4, <1>7 DEF ClientTyped, DataTyped
  <2>3. WireTyped'
    BY <1>1, <1>2, <1>7 DEF ClientTyped, WireTyped
  <2>4. LoadsTyped'
    BY <1>7 DEF ClientTyped, LoadsTyped, Current
  <2>. QED  BY <1>5, <2>1, <2>2, <2>3, <2>4 DEF ClientTyped
<1>. QED  BY <1>1, <1>6, <1>7

-----------------------------------------------------------------------------
(* The user and the socket.                                                *)

\* What a step leaves that touches neither the loads nor the data of the list.
LEMMA SocketStep ==
  ASSUME ClientInv, QueuesKept, WireTyped',
         UNCHANGED <<sent, active, loads, list, request, refresh, acts, history>>
  PROVE  ClientInv'
<1>1. UNCHANGED <<sent, active, loads, loading, view, more, request, refresh, acts, stray, missed>>
  BY DEF list, history
<1>2. ListInv'
  BY <1>1, QuietStep
<1>3. LoadsTyped' /\ DataTyped'
  BY <1>1 DEF ClientInv, ClientTyped, LoadsTyped, DataTyped, Current
<1>4. RequestInv'
  BY <1>1 DEF ClientInv, RequestInv, Of
<1>. QED  BY <1>2, <1>3, <1>4 DEF ClientInv, ClientTyped

\* The user selects a chat (setActiveChat).
LEMMA SelectStep ==
  ASSUME ClientInv, NEW c \in Chats, Select(c)
  PROVE  ClientInv'
<1>. USE DEF ClientInv
<1>1. /\ acts < MaxActs /\ acts' = acts + 1 /\ SetActive(c)
      /\ UNCHANGED <<sent, joined, group, socket, inbox, request, refresh>>
  BY DEF Select, server
<1>2. \A m \in Messages : (Upserts(m)' <=> Upserts(m)) /\ (Removes(m)' <=> Removes(m))
  BY <1>1, InboxSame
<1>3. LoadsTyped' /\ outbox' \in Seq(CommandType) /\ (socket # "open" => outbox' = <<>>) /\ ListInv'
  BY <1>1, <1>2, SetActiveStep
<1>4. /\ c # NoChat /\ active' = c /\ loading' = TRUE
      /\ UNCHANGED <<view, more, stray, missed>>
  BY <1>1, ChatAssumption DEF SetActive, LoadEffect, history
<1>5. acts' \in 0 .. MaxActs
  BY <1>1, BoundAssumption DEF ClientTyped, DataTyped
<1>6. DataTyped'
  BY <1>1, <1>4, <1>5 DEF ClientTyped, DataTyped
<1>7. WireTyped' /\ RequestInv'
  BY <1>1, <1>3 DEF ClientTyped, WireTyped, RequestInv, Of
<1>. QED  BY <1>3, <1>6, <1>7 DEF ClientTyped

\* The socket opens and the subscription is sent.
LEMMA OpenSocketStep ==
  ASSUME ClientInv, OpenSocket
  PROVE  ClientInv'
<1>1. /\ socket = "connecting" /\ socket' = "open" /\ outbox' = Commands(NoChat, active)
      /\ UNCHANGED <<joined, group, inbox>>
      /\ UNCHANGED <<sent, active, loads, list, request, refresh, acts, history>>
  BY DEF OpenSocket, server
<1>2. outbox' \in Seq(CommandType)
  BY <1>1, CommandsTyped, EmptySeq DEF ClientInv, ClientTyped, DataTyped
<1>3. WireTyped'
  BY <1>1, <1>2 DEF ClientInv, ClientTyped, WireTyped
<1>4. QueuesKept
  BY <1>1, InboxSame DEF QueuesKept
<1>. QED  BY <1>1, <1>3, <1>4, SocketStep

\* The socket closes, with all that was in it.
LEMMA CloseSocketStep ==
  ASSUME ClientInv, CloseSocket
  PROVE  ClientInv'
<1>1. /\ socket' = "closed" /\ inbox' = <<>> /\ outbox' = <<>> /\ group' = {} /\ UNCHANGED joined
      /\ UNCHANGED <<sent, active, loads, list, request, refresh, acts, history>>
  BY DEF CloseSocket
<1>2. <<>> \in Seq(CommandType) /\ <<>> \in Seq(EventType)
  BY EmptySeq
<1>3. WireTyped'
  BY <1>1, <1>2 DEF ClientInv, ClientTyped, WireTyped
<1>4. \A m \in Messages : ~Upserts(m)' /\ ~Removes(m)'
  BY <1>1, QueueEmpty DEF Upserts, Removes
<1>5. QueuesKept
  BY <1>1, <1>4 DEF QueuesKept
<1>. QED  BY <1>1, <1>3, <1>5, SocketStep

\* The consumer handles a subscription or its end.
LEMMA CommandStep ==
  ASSUME ClientInv, Command
  PROVE  ClientInv'
<1>1. /\ outbox # <<>> /\ outbox' = Tail(outbox)
      /\ group' \subseteq group \union joined
      /\ UNCHANGED <<joined, socket, inbox>>
      /\ UNCHANGED <<sent, active, loads, list, request, refresh, acts, history>>
  BY DEF Command
<1>2. outbox' \in Seq(CommandType)
  BY <1>1, QueueTail DEF ClientInv, ClientTyped, WireTyped
<1>3. WireTyped'
  BY <1>1, <1>2 DEF ClientInv, ClientTyped, WireTyped
<1>4. QueuesKept
  BY <1>1, InboxSame DEF QueuesKept, ClientInv, ClientTyped, WireTyped
<1>. QED  BY <1>1, <1>3, <1>4, SocketStep

\* The user loses a chat; the event says nothing of messages.
LEMMA LoseStep ==
  ASSUME ClientInv, NEW c \in Chats, Lose(c)
  PROVE  ClientInv'
<1>. DEFINE event == [type |-> "left", about |-> c]
<1>1. /\ joined' = joined \ {c} /\ group' = group \ {c}
      /\ inbox' = IF socket = "open" THEN Append(inbox, event) ELSE inbox
      /\ UNCHANGED <<socket, outbox>>
      /\ UNCHANGED <<sent, active, loads, list, request, refresh, acts, history>>
  BY DEF Lose
<1>2. event \in EventType /\ inbox \in Seq(EventType)
  BY DEF EventType, ClientInv, ClientTyped, WireTyped
<1>3. inbox' \in Seq(EventType) /\ (socket # "open" => inbox' = inbox)
  BY <1>1, <1>2, QueueAppend
<1>4. WireTyped'
  BY <1>1, <1>3 DEF ClientInv, ClientTyped, WireTyped
<1>5. \A m \in Messages : (Upserts(m)' <=> Upserts(m)) /\ (Removes(m)' <=> Removes(m))
  <2>1. CASE socket = "open"
    BY <1>1, <1>2, <2>1, QueueAppend DEF Upserts, Removes
  <2>2. CASE socket # "open"
    BY <1>3, <2>2, InboxSame
  <2>. QED  BY <2>1, <2>2
<1>6. QueuesKept
  BY <1>1, <1>5 DEF QueuesKept
<1>. QED  BY <1>1, <1>4, <1>6, SocketStep

\* Someone else posts or deletes a message.
LEMMA PostEraseStep ==
  ASSUME ClientInv, NEW m \in Messages, Post(m) \/ Erase(m)
  PROVE  ClientInv'
<1>1. UNCHANGED <<joined, group, socket, outbox, active, loads, loading, view, more, request,
                  refresh, acts, stray>>
  BY DEF Post, Erase, list
<1>2. PICK state, type :
        /\ Change(m, state, type)
        /\ \/ sent[m] = "none" /\ state = "sent" /\ type = "upsert"
           \/ sent[m] = "sent" /\ state = "deleted" /\ type = "remove"
  BY DEF Post, Erase
<1>3. /\ sent' \in [Messages -> {"none", "sent", "deleted"}] /\ missed' \in BOOLEAN
      /\ LoadsTyped' /\ WireTyped' /\ ListInv'
      /\ \A n \in Messages : /\ sent[n] # "none" => sent'[n] # "none"
                             /\ sent[n] = "deleted" => sent'[n] = "deleted"
  BY <1>1, <1>2, ChangeStep
<1>4. DataTyped'
  BY <1>1, <1>3 DEF ClientInv, ClientTyped, DataTyped
<1>5. RequestInv'
  <2>1. RequestInv /\ request' = request
    BY <1>1 DEF ClientInv
  <2>2. request.kind \in {"save", "delete"} => request.message \in Messages
    BY <2>1 DEF RequestInv, Of
  <2>. QED  BY <1>3, <2>1, <2>2 DEF RequestInv, Of
<1>. QED  BY <1>3, <1>4, <1>5 DEF ClientInv, ClientTyped

-----------------------------------------------------------------------------
(* The user's own requests.                                                *)

\* A step of a request that shows nothing yet.
LEMMA RequestStep ==
  ASSUME ClientInv, DataTyped', RequestInv',
         UNCHANGED <<server, wire, active, loads, list, history>>
  PROVE  ClientInv'
<1>1. UNCHANGED <<sent, joined, group, socket, outbox, inbox, active, loads, loading, view,
                  stray, missed>>
  BY DEF server, wire, list, history
<1>2. QueuesKept
  BY <1>1, InboxSame DEF QueuesKept
<1>3. ListInv'
  BY <1>1, <1>2, QuietStep
<1>4. LoadsTyped' /\ WireTyped'
  BY <1>1 DEF ClientInv, ClientTyped, LoadsTyped, WireTyped, Current
<1>. QED  BY <1>3, <1>4 DEF ClientInv, ClientTyped

\* The user asks for something in the active chat.
LEMMA AskStep ==
  ASSUME ClientInv, NEW kind \in {"save", "delete", "older"}, NEW m \in Messages \union {NoMessage},
         Ask(kind, m)
  PROVE  ClientInv'
<1>1. /\ acts < MaxActs /\ acts' = acts + 1 /\ active # NoChat
      /\ kind \in {"save", "delete"} => m \in Of(active)
      /\ request' = [kind |-> kind, step |-> "asked", chat |-> active, message |-> m]
      /\ UNCHANGED refresh
      /\ UNCHANGED <<server, wire, active, loads, list, history>>
  BY DEF Ask
<1>2. active \in Chats
  BY <1>1 DEF ClientInv, ClientTyped, DataTyped
<1>3. /\ request' \in [kind : {"none", "save", "delete", "older"},
                       step : {"idle", "asked", "answered"},
                       chat : Chats \union {NoChat}, message : Messages \union {NoMessage}]
      /\ request'.kind = kind /\ request'.step = "asked" /\ request'.chat = active
      /\ request'.message = m
  BY <1>1, <1>2
<1>4. acts' \in 0 .. MaxActs
  BY <1>1, BoundAssumption DEF ClientInv, ClientTyped, DataTyped
<1>5. DataTyped'
  BY <1>1, <1>3, <1>4
  DEF ClientInv, ClientTyped, DataTyped, server, list, history
<1>6. RequestInv'
  BY <1>1, <1>2, <1>3 DEF RequestInv, Of
<1>. QED  BY <1>1, <1>5, <1>6, RequestStep

\* An answer of a save or a deletion.
LEMMA AnsweredRequest ==
  ASSUME ClientInv, Answered
  PROVE  /\ request' \in [kind : {"none", "save", "delete", "older"},
                          step : {"idle", "asked", "answered"},
                          chat : Chats \union {NoChat}, message : Messages \union {NoMessage}]
         /\ request'.kind = request.kind /\ request'.step = "answered"
         /\ request'.chat = request.chat /\ request'.message = request.message
BY DEF ClientInv, ClientTyped, DataTyped, Answered

\* The server reads an older page.
LEMMA ReadOlderStep ==
  ASSUME ClientInv, ReadOlder
  PROVE  ClientInv'
<1>1. /\ request.kind = "older" /\ Answered /\ UNCHANGED <<refresh, acts>>
      /\ UNCHANGED <<server, wire, active, loads, list, history>>
  BY DEF ReadOlder
<1>2. DataTyped'
  BY <1>1, AnsweredRequest
  DEF ClientInv, ClientTyped, DataTyped, server, list, history
<1>3. RequestInv'
  BY <1>1, AnsweredRequest DEF ClientInv, RequestInv
<1>. QED  BY <1>1, <1>2, <1>3, RequestStep

\* The empty request is of the type of requests.
LEMMA NoRequestTyped ==
  /\ NoRequest \in [kind : {"none", "save", "delete", "older"},
                            step : {"idle", "asked", "answered"},
                            chat : Chats \union {NoChat}, message : Messages \union {NoMessage}]
  /\ NoRequest.kind = "none" /\ NoRequest.step = "idle"
BY DEF NoRequest

\* A request ends with an error.
LEMMA RefuseStep ==
  ASSUME ClientInv, Refuse
  PROVE  ClientInv'
<1>1. /\ request' = NoRequest /\ UNCHANGED <<refresh, acts>>
      /\ UNCHANGED <<server, wire, active, loads, list, history>>
  BY DEF Refuse
<1>2. DataTyped'
  BY <1>1, NoRequestTyped
  DEF ClientInv, ClientTyped, DataTyped, server, list, history
<1>3. RequestInv'
  BY <1>1, NoRequestTyped DEF RequestInv
<1>. QED  BY <1>1, <1>2, <1>3, RequestStep

\* A message is saved: a new one appears, of an old one the event goes out again.
LEMMA SaveStep ==
  ASSUME ClientInv, Save
  PROVE  ClientInv'
<1>. DEFINE m == request.message
<1>1. /\ request.kind = "save" /\ sent[m] # "deleted" /\ Answered
      /\ UNCHANGED <<joined, group, socket, outbox, active, loads, loading, view, more,
                     refresh, acts, stray>>
      /\ \/ sent[m] = "none" /\ Change(m, "sent", "upsert")
         \/ sent[m] # "none" /\ Announce("upsert", m) /\ UNCHANGED <<sent, missed>>
  BY DEF Save, list
<1>2. m \in Messages /\ sent[m] \in {"none", "sent", "deleted"}
  BY <1>1 DEF ClientInv, RequestInv, Of, ClientTyped, DataTyped
<1>3. /\ request'.kind = "save" /\ request'.chat = request.chat /\ request'.message = m
  BY <1>1, AnsweredRequest
<1>. HIDE DEF m
<1>4. CASE sent[m] = "none" /\ Change(m, "sent", "upsert")
  <2>1. /\ sent' \in [Messages -> {"none", "sent", "deleted"}] /\ missed' \in BOOLEAN
        /\ LoadsTyped' /\ WireTyped' /\ ListInv'
    BY <1>1, <1>2, <1>4, ChangeStep
  <2>2. DataTyped'
    BY <1>1, <2>1, AnsweredRequest DEF ClientInv, ClientTyped, DataTyped
  <2>3. sent'[m] = "sent"
    BY <1>2, <1>4 DEF Change, ClientInv, ClientTyped, DataTyped
  <2>4. RequestInv'
    BY <1>1, <1>3, <2>3, m = request.message DEF ClientInv, RequestInv, Of, m
  <2>. QED  BY <2>1, <2>2, <2>4 DEF ClientInv, ClientTyped
<1>5. CASE sent[m] # "none" /\ Announce("upsert", m) /\ UNCHANGED <<sent, missed>>
  <2>. DEFINE event == [type |-> "upsert", about |-> m]
  <2>1. event \in EventType /\ inbox \in Seq(EventType)
    BY <1>2 DEF EventType, ClientInv, ClientTyped, WireTyped
  <2>2. /\ inbox' \in Seq(EventType)
        /\ HomeOf[m] \in group => \A x : InQueue(inbox', x) <=> (InQueue(inbox, x) \/ x = event)
        /\ HomeOf[m] \notin group => inbox' = inbox
    BY <1>5, <2>1, QueueAppend DEF Announce
  <2>3. /\ \A n \in Messages : Upserts(n) => Upserts(n)'
        /\ \A n \in Messages : Upserts(n)' => Upserts(n) \/ n = m
        /\ \A n \in Messages : Removes(n)' <=> Removes(n)
    BY <2>2 DEF Upserts, Removes
  <2>4. WireTyped'
    BY <1>1, <2>2 DEF ClientInv, ClientTyped, WireTyped
  <2>5. DataTyped'
    BY <1>1, <1>5, AnsweredRequest DEF ClientInv, ClientTyped, DataTyped
  <2>6. LoadsTyped' /\ Current' = Current
    BY <1>1 DEF ClientInv, ClientTyped, LoadsTyped, Current
  <2>7. RequestInv'
    BY <1>1, <1>3, <1>5 DEF ClientInv, RequestInv, Of, m
  <2>8. LoadingInv' /\ LoadPageInv' /\ FitInv' /\ AnsweredInv'
    BY <1>1, <1>5, <2>6
    DEF ClientInv, ListInv, LoadingInv, LoadPageInv, FitInv, AnsweredInv, PageShown,
        Present, Of
  <2>9. SeenInv'
    BY <1>1, <1>5, <2>3 DEF ClientInv, ListInv, SeenInv
  <2>10. LoadedInv'
    BY <1>1, <1>5, <2>3, <2>6 DEF ClientInv, ListInv, LoadedInv, PageShown, Of
  <2>. QED  BY <2>4, <2>5, <2>6, <2>7, <2>8, <2>9, <2>10 DEF ClientInv, ListInv, ClientTyped
<1>. QED  BY <1>1, <1>4, <1>5

\* The message of the request is deleted.
LEMMA DeleteStep ==
  ASSUME ClientInv, Remove
  PROVE  ClientInv'
<1>. DEFINE m == request.message
<1>1. /\ request.kind = "delete" /\ sent[m] = "sent"
      /\ Change(m, "deleted", "remove") /\ Answered
      /\ UNCHANGED <<joined, group, socket, outbox, active, loads, loading, view, more,
                     refresh, acts, stray>>
  BY DEF Remove, list
<1>2. m \in Messages
  BY <1>1 DEF ClientInv, RequestInv, Of
<1>3. /\ request'.kind = "delete" /\ request'.chat = request.chat /\ request'.message = m
  BY <1>1, AnsweredRequest
<1>4. /\ sent' \in [Messages -> {"none", "sent", "deleted"}] /\ missed' \in BOOLEAN
      /\ LoadsTyped' /\ WireTyped' /\ ListInv'
  BY <1>1, <1>2, ChangeStep
<1>5. DataTyped'
  BY <1>1, <1>4, AnsweredRequest DEF ClientInv, ClientTyped, DataTyped
<1>6. sent'[m] = "deleted"
  BY <1>1, <1>2 DEF Change, ClientInv, ClientTyped, DataTyped
<1>7. RequestInv'
  BY <1>1, <1>3, <1>6 DEF ClientInv, RequestInv, Of
<1>. QED  BY <1>4, <1>5, <1>7 DEF ClientInv, ClientTyped

\* What an answer leaves alone.
LEMMA ArrivalFrame ==
  ASSUME ClientInv, request' = NoRequest, view' \subseteq Messages \union Chats,
         more' \in BOOLEAN, stray' \in BOOLEAN,
         UNCHANGED <<server, wire, active, loads, loading, refresh, acts, missed>>
  PROVE  /\ ClientTyped' /\ RequestInv' /\ LoadingInv' /\ LoadPageInv' /\ AnsweredInv'
         /\ Current' = Current /\ UNCHANGED <<sent, socket>>
         /\ \A m \in Messages : (Upserts(m)' <=> Upserts(m)) /\ (Removes(m)' <=> Removes(m))
<1>1. UNCHANGED <<sent, joined, group, socket, outbox, inbox, active, loads, loading,
                  refresh, acts, missed>>
  BY DEF server, wire
<1>2. Current' = Current
  BY <1>1 DEF Current
<1>3. DataTyped'
  BY <1>1, NoRequestTyped DEF ClientInv, ClientTyped, DataTyped
<1>4. LoadsTyped' /\ WireTyped'
  BY <1>1, <1>2 DEF ClientInv, ClientTyped, LoadsTyped, WireTyped
<1>5. RequestInv'
  BY NoRequestTyped DEF RequestInv
<1>6. LoadingInv' /\ LoadPageInv' /\ AnsweredInv'
  BY <1>1, <1>2
  DEF ClientInv, ListInv, LoadingInv, LoadPageInv, AnsweredInv, Present, Of
<1>. QED  BY <1>1, <1>2, <1>3, <1>4, <1>5, <1>6, InboxSame DEF ClientTyped

\* The saved message comes into the list, which may by then be another chat's.
LEMMA SaveArrivesStep ==
  ASSUME ClientInv, SaveArrives
  PROVE  ClientInv'
<1>. DEFINE m == request.message
<1>1. /\ request.step = "answered" /\ request.kind = "save" /\ request' = NoRequest
      /\ view' = view \union {m} /\ more' = more
      /\ stray' = (stray \/ request.chat # active \/ sent[m] = "deleted")
      /\ UNCHANGED <<server, wire, active, loads, loading, refresh, acts, missed>>
  BY DEF SaveArrives
<1>2. m \in Of(request.chat) /\ m \in Messages /\ sent[m] # "none"
  BY <1>1 DEF ClientInv, RequestInv, Of
<1>. HIDE DEF m
<1>3. /\ view \subseteq Messages \union Chats /\ more \in BOOLEAN /\ stray \in BOOLEAN
  BY DEF ClientInv, ClientTyped, DataTyped
<1>4. /\ view' \subseteq Messages \union Chats /\ more' \in BOOLEAN /\ stray' \in BOOLEAN
  BY <1>1, <1>2, <1>3
<1>5. /\ ClientTyped' /\ RequestInv' /\ LoadingInv' /\ LoadPageInv' /\ AnsweredInv'
      /\ Current' = Current /\ UNCHANGED <<sent, socket>>
      /\ \A n \in Messages : (Upserts(n)' <=> Upserts(n)) /\ (Removes(n)' <=> Removes(n))
  BY <1>1, <1>4, ArrivalFrame
<1>6. ~stray' => ~stray /\ request.chat = active /\ sent[m] # "deleted"
  BY <1>1, <1>3
<1>7. FitInv'
  BY <1>1, <1>2, <1>5, <1>6 DEF ClientInv, ListInv, FitInv, PageShown, Of
<1>8. SeenInv'
  BY <1>1, <1>2, <1>5 DEF ClientInv, ListInv, SeenInv
<1>9. LoadedInv'
  BY <1>1, <1>2, <1>5, <1>6 DEF ClientInv, ListInv, LoadedInv, PageShown, Of
<1>. QED  BY <1>5, <1>7, <1>8, <1>9 DEF ClientInv, ListInv

\* The deleted message leaves the list.
LEMMA DeleteArrivesStep ==
  ASSUME ClientInv, DeleteArrives
  PROVE  ClientInv'
<1>. DEFINE m == request.message
<1>1. /\ request.step = "answered" /\ request.kind = "delete" /\ request' = NoRequest
      /\ view' = view \ {m} /\ more' = more /\ stray' = stray
      /\ UNCHANGED <<server, wire, active, loads, loading, refresh, acts, missed>>
  BY DEF DeleteArrives, history
<1>2. sent[m] = "deleted"
  BY <1>1 DEF ClientInv, RequestInv
<1>. HIDE DEF m
<1>3. /\ view' \subseteq Messages \union Chats /\ more' \in BOOLEAN /\ stray' \in BOOLEAN
  BY <1>1 DEF ClientInv, ClientTyped, DataTyped
<1>4. /\ ClientTyped' /\ RequestInv' /\ LoadingInv' /\ LoadPageInv' /\ AnsweredInv'
      /\ Current' = Current /\ UNCHANGED <<sent, socket>>
      /\ \A n \in Messages : (Upserts(n)' <=> Upserts(n)) /\ (Removes(n)' <=> Removes(n))
  BY <1>1, <1>3, ArrivalFrame
<1>5. FitInv'
  BY <1>1, <1>4 DEF ClientInv, ListInv, FitInv, PageShown, Of
<1>6. SeenInv'
  BY <1>1, <1>4 DEF ClientInv, ListInv, SeenInv
<1>7. LoadedInv'
  BY <1>1, <1>2, <1>4 DEF ClientInv, ListInv, LoadedInv, PageShown, Of
<1>. QED  BY <1>4, <1>5, <1>6, <1>7 DEF ClientInv, ListInv

\* The older page comes into the list, which may by then be another chat's.
LEMMA OlderArrivesStep ==
  ASSUME ClientInv, OlderArrives
  PROVE  ClientInv'
<1>1. /\ request.step = "answered" /\ request.kind = "older" /\ request' = NoRequest
      /\ view' = view \union {request.chat} /\ more' = FALSE
      /\ stray' = (stray \/ request.chat # active)
      /\ UNCHANGED <<server, wire, active, loads, loading, refresh, acts, missed>>
  BY DEF OlderArrives
<1>2. request.chat \in Chats /\ request.chat \notin Messages
  BY <1>1, ChatAssumption DEF ClientInv, RequestInv
<1>3. /\ view \subseteq Messages \union Chats /\ stray \in BOOLEAN
  BY DEF ClientInv, ClientTyped, DataTyped
<1>4. /\ view' \subseteq Messages \union Chats /\ more' \in BOOLEAN /\ stray' \in BOOLEAN
  BY <1>1, <1>2, <1>3
<1>5. /\ ClientTyped' /\ RequestInv' /\ LoadingInv' /\ LoadPageInv' /\ AnsweredInv'
      /\ Current' = Current /\ UNCHANGED <<sent, socket>>
      /\ \A n \in Messages : (Upserts(n)' <=> Upserts(n)) /\ (Removes(n)' <=> Removes(n))
  BY <1>1, <1>4, ArrivalFrame
<1>6. ~stray' => ~stray /\ request.chat = active
  BY <1>1, <1>3
<1>7. FitInv'
  BY <1>1, <1>5, <1>6 DEF ClientInv, ListInv, FitInv, PageShown, Of
<1>8. SeenInv'
  BY <1>1, <1>2, <1>5 DEF ClientInv, ListInv, SeenInv
<1>9. LoadedInv'
  BY <1>1, <1>2, <1>5, <1>6 DEF ClientInv, ListInv, LoadedInv, PageShown, Of
<1>. QED  BY <1>5, <1>7, <1>8, <1>9 DEF ClientInv, ListInv

-----------------------------------------------------------------------------
(* refreshShell.                                                           *)

\* The server lists the chats of the user.
LEMMA RefreshAnswerStep ==
  ASSUME ClientInv, RefreshAnswer
  PROVE  ClientInv'
<1>1. /\ refresh' = [step |-> "answered", rooms |-> joined] \/ refresh' = NoRefresh
      /\ UNCHANGED <<request, acts>>
      /\ UNCHANGED <<server, wire, active, loads, list, history>>
  BY DEF RefreshAnswer
<1>2. refresh' \in [step : {"idle", "asked", "answered"}, rooms : SUBSET Chats]
  BY <1>1 DEF ClientInv, ClientTyped, WireTyped, NoRefresh
<1>3. DataTyped'
  BY <1>1, <1>2 DEF ClientInv, ClientTyped, DataTyped, server, list, history
<1>4. RequestInv'
  BY <1>1 DEF ClientInv, RequestInv, Of, server
<1>. QED  BY <1>1, <1>3, <1>4, RequestStep

\* A selection that is not among the chats listed is replaced.
LEMMA RefreshArriveStep ==
  ASSUME ClientInv, RefreshArrive
  PROVE  ClientInv'
<1>. USE DEF ClientInv
<1>1. /\ refresh.step = "answered" /\ refresh' = NoRefresh
      /\ UNCHANGED <<sent, joined, group, socket, inbox, request, acts>>
      /\ \/ UNCHANGED <<active, outbox, loads, list, history>>
         \/ \E c \in refresh.rooms \union {NoChat} : SetActive(c)
  BY DEF RefreshArrive, server
<1>2. refresh.rooms \subseteq Chats
        /\ refresh' \in [step : {"idle", "asked", "answered"}, rooms : SUBSET Chats]
  BY <1>1 DEF ClientTyped, DataTyped, NoRefresh
<1>3. \A m \in Messages : (Upserts(m)' <=> Upserts(m)) /\ (Removes(m)' <=> Removes(m))
  BY <1>1, InboxSame
<1>4. RequestInv'
  BY <1>1 DEF RequestInv, Of
<1>5. CASE UNCHANGED <<active, outbox, loads, list, history>>
  <2>1. UNCHANGED <<active, outbox, loads, loading, view, more, stray, missed>>
    BY <1>5 DEF list, history
  <2>2. QueuesKept
    BY <1>1, <1>3 DEF QueuesKept
  <2>3. ListInv'
    BY <1>1, <2>1, <2>2, QuietStep
  <2>4. LoadsTyped' /\ WireTyped' /\ DataTyped'
    BY <1>1, <1>2, <2>1 DEF ClientTyped, LoadsTyped, WireTyped, DataTyped, Current
  <2>. QED  BY <1>4, <2>3, <2>4 DEF ClientTyped
<1>6. CASE \E c \in refresh.rooms \union {NoChat} : SetActive(c)
  <2>1. PICK c \in Chats \union {NoChat} : SetActive(c)
    BY <1>2, <1>6
  <2>2. LoadsTyped' /\ outbox' \in Seq(CommandType) /\ (socket # "open" => outbox' = <<>>)
          /\ ListInv'
    BY <1>1, <1>3, <2>1, SetActiveStep
  <2>3. /\ active' \in Chats \union {NoChat} /\ loading' \in BOOLEAN /\ more' \in BOOLEAN
        /\ view' \subseteq Messages \union Chats
        /\ stray' \in BOOLEAN /\ missed' \in BOOLEAN
    BY <2>1 DEF SetActive, LoadEffect, history, ClientTyped, DataTyped
  <2>4. DataTyped'
    BY <1>1, <1>2, <2>3 DEF ClientTyped, DataTyped
  <2>5. WireTyped'
    BY <1>1, <2>2 DEF ClientTyped, WireTyped
  <2>. QED  BY <1>4, <2>2, <2>4, <2>5 DEF ClientTyped
<1>. QED  BY <1>1, <1>5, <1>6

-----------------------------------------------------------------------------
(* The theorems.                                                           *)

\* The invariant holds when the application starts.
LEMMA ClientInitInv == ClientInit => ClientInv
<1>. SUFFICES ASSUME ClientInit PROVE ClientInv
  OBVIOUS
<1>1. NewLoad(active) \in LoadsOfSteps /\ NewLoad(active).chat = active
      /\ NewLoad(active).step = "asked" /\ NewLoad(active).page = {}
      /\ ~NewLoad(active).cancelled
  BY DEF ClientInit, NewLoad, LoadsOfSteps
<1>2. loads = {NewLoad(active)} /\ Current = {NewLoad(active)}
  BY <1>1 DEF ClientInit, Current
<1>3. IsFiniteSet(loads) /\ Cardinality(loads) = 1
  BY <1>2, FS_Singleton
<1>4. LoadsTyped
  BY <1>1, <1>2, <1>3, BoundAssumption DEF LoadsTyped
<1>5. WireTyped
  BY EmptySeq DEF ClientInit, WireTyped
<1>6. NoRefresh \in [step : {"idle", "asked", "answered"}, rooms : SUBSET Chats]
  BY DEF NoRefresh
<1>7. DataTyped
  <2>1. acts \in 0 .. MaxActs
    BY BoundAssumption DEF ClientInit
  <2>2. sent \in [Messages -> {"none", "sent", "deleted"}]
    BY DEF ClientInit
  <2>. QED  BY <1>6, <2>1, <2>2, NoRequestTyped DEF ClientInit, DataTyped
<1>8. RequestInv
  BY NoRequestTyped DEF ClientInit, RequestInv
<1>9. LoadingInv /\ LoadPageInv /\ FitInv /\ AnsweredInv /\ LoadedInv
  BY <1>1, <1>2
  DEF ClientInit, LoadingInv, LoadPageInv, FitInv, AnsweredInv, LoadedInv, PageShown
<1>10. SeenInv
  <2>1. \A m \in Messages : ~Upserts(m) /\ ~Removes(m)
    BY QueueEmpty DEF ClientInit, Upserts, Removes
  <2>. QED  BY <1>1, <1>2, <2>1 DEF ClientInit, SeenInv
<1>. QED  BY <1>4, <1>5, <1>7, <1>8, <1>9, <1>10 DEF ClientInv, ListInv, ClientTyped

\* Every step keeps the invariant.
LEMMA ClientNextInv == ClientInv /\ [ClientNext]_clientVars => ClientInv'
<1>. SUFFICES ASSUME ClientInv, [ClientNext]_clientVars PROVE ClientInv'
  OBVIOUS
<1>1. CASE ClientNext
  <2>1. CASE \E c \in Chats : Select(c) \/ Lose(c)
    BY <2>1, SelectStep, LoseStep
  <2>2. CASE OpenSocket \/ CloseSocket \/ Command
    BY <2>2, OpenSocketStep, CloseSocketStep, CommandStep
  <2>3. CASE Deliver
    BY <2>3, DeliverUpsertStep, DeliverRemoveStep, DeliverLeftStep DEF Deliver
  <2>4. CASE \E m \in Messages : Post(m) \/ Erase(m)
    BY <2>4, PostEraseStep
  <2>5. CASE LoadStep
    BY <2>5, AnswerStep, ArriveStep, LoadEndStep DEF LoadStep
  <2>6. CASE \E kind \in {"save", "delete", "older"}, m \in Messages \union {NoMessage} :
               Ask(kind, m)
    BY <2>6, AskStep
  <2>7. CASE Save \/ Remove \/ ReadOlder \/ Refuse
    BY <2>7, SaveStep, DeleteStep, ReadOlderStep, RefuseStep
  <2>8. CASE SaveArrives \/ DeleteArrives \/ OlderArrives
    BY <2>8, SaveArrivesStep, DeleteArrivesStep, OlderArrivesStep
  <2>9. CASE RefreshAnswer \/ RefreshArrive
    BY <2>9, RefreshAnswerStep, RefreshArriveStep
  <2>. QED  BY <1>1, <2>1, <2>2, <2>3, <2>4, <2>5, <2>6, <2>7, <2>8, <2>9 DEF ClientNext
<1>2. CASE UNCHANGED clientVars
  <2>1. /\ UNCHANGED <<server, wire, active, loads, list, history>>
        /\ UNCHANGED <<request, refresh, acts>>
    BY <1>2 DEF clientVars
  <2>2. DataTyped'
    BY <2>1 DEF ClientInv, ClientTyped, DataTyped, server, list, history
  <2>3. RequestInv'
    BY <2>1 DEF ClientInv, RequestInv, Of, server
  <2>. QED  BY <2>1, <2>2, <2>3, RequestStep
<1>. QED  BY <1>1, <1>2

\* The invariant above holds in every reachable state of the client.
THEOREM ClientInvariant ==
  ClientSpec => []ClientInv
<1>1. ClientInit => ClientInv
  BY ClientInitInv
<1>. QED  BY <1>1, ClientNextInv, PTL DEF ClientSpec

\* The invariant implies the types of ChatClient.
LEMMA ClientTypesFollow == ClientInv => ClientTypeOK
<1>. SUFFICES ASSUME ClientInv PROVE ClientTypeOK
  OBVIOUS
<1>. USE DEF ClientInv, ClientTyped
<1>1. \A i \in DOMAIN outbox : outbox[i] \in CommandType
  BY ElementOfSeq, LenProperties DEF WireTyped
<1>2. \A i \in DOMAIN inbox : inbox[i] \in EventType
  BY ElementOfSeq, LenProperties DEF WireTyped
<1>3. Cardinality(Current) <= 1
  <2>1. CASE Current = {}
    BY <2>1, FS_EmptySet
  <2>2. CASE Current # {}
    <3>1. PICK load \in Current : Current = {load}
      BY <2>2 DEF LoadsTyped
    <3>2. Cardinality({load}) = 1
      BY FS_Singleton
    <3>. QED  BY <3>1, <3>2
  <2>. QED  BY <2>1, <2>2
<1>. QED  BY <1>1, <1>2, <1>3
           DEF ClientTypeOK, LoadsTyped, WireTyped, DataTyped, CommandType, EventType

\* Every reachable state of the client is well typed: at most one load of the active
\* chat is not superseded, and without a socket nothing is on the wire.
THEOREM ClientTypesCorrect ==
  ClientSpec => []ClientTypeOK
BY ClientInvariant, ClientTypesFollow, PTL

\* The invariant implies what the list promises.
LEMMA ListFollows == ClientInv => ListIsOfActiveChat
<1>. SUFFICES ASSUME ClientInv PROVE ListIsOfActiveChat
  OBVIOUS
<1>. USE DEF ClientInv, ListInv
<1>1. ~loading /\ ~stray => view \subseteq Of(active) \union {active}
  BY DEF LoadingInv, FitInv, PageShown
<1>2. ASSUME Settled, socket = "open", ~stray, ~missed
      PROVE  view \intersect Messages = Present(active)
  <2>1. Current = {} /\ inbox = <<>>
    BY <1>2 DEF Settled
  <2>2. \A m \in Messages : ~Upserts(m) /\ ~Removes(m)
    BY <2>1, QueueEmpty DEF Upserts, Removes
  <2>3. \A m \in Of(active) :
          (sent[m] = "sent" => m \in view) /\ (sent[m] = "deleted" => m \notin view)
    BY <1>2, <2>1, <2>2 DEF LoadedInv, PageShown, Of
  <2>4. view \subseteq Of(active) \union {active} /\ active \notin Messages
    BY <1>2, <2>1, ChatAssumption DEF FitInv, PageShown, ClientTyped, DataTyped
  <2>5. \A m \in view \intersect Messages : sent[m] \in {"sent", "deleted"}
    BY DEF SeenInv, ClientTyped, DataTyped
  <2>. QED  BY <2>3, <2>4, <2>5 DEF Present, Of
<1>. QED  BY <1>1, <1>2 DEF ListIsOfActiveChat

\* However late answers and events are, the list ends up as the active chat: it holds
\* its messages only, and all of them once nothing is under way (App.tsx loadChat and
\* the handlers of the socket).
THEOREM ListShowsActiveChat ==
  ClientSpec => []ListIsOfActiveChat
BY ClientInvariant, ListFollows, PTL
=============================================================================
