------------------------- MODULE AttachmentsProofs -------------------------
(***************************************************************************)
(* Proofs about Attachments for any files and messages, any number of      *)
(* requests in flight, and failures at any stage.                          *)
(***************************************************************************)
EXTENDS Attachments, FiniteSetTheorems, TLAPS

-----------------------------------------------------------------------------
(* The inductive invariant.                                                *)

\* The join tables agree with the binding types.
BindInv ==
  \A k \in Kinds, f \in Files :
    binding[k][f] # NoMessage => row[f] = k /\ message[binding[k][f]] = k

\* The locks of senders and deletions exclude each other, file by file.
LockInv ==
  \A s, t \in Slots :
    /\ s # t
    /\ work[s].stage \in Deleting \union {"posting"}
    /\ work[t].stage \in Deleting \union {"posting"}
    => work[s].files \intersect work[t].files = {}

\* What a request may rely on whatever overlaps it: an upload on its key, a sender
\* on its locks, a deletion on rows that exist, and the deletion of a message on
\* having seen every attachment the message will ever have.
HoldsInv ==
  \A s \in Slots :
    /\ work[s].stage = "uploading" =>
         \A f \in work[s].files :
           /\ row[f] = "none" /\ f \in object
           /\ \A t \in Slots : work[t].stage = "uploading" /\ f \in work[t].files => t = s
    /\ work[s].stage = "posting" => \A f \in work[s].files : row[f] = "unbound"
    /\ work[s].stage \notin {"idle", "uploading"} => \A f \in work[s].files : row[f] # "none"
    /\ work[s].stage \in {"erasing", "purging"} =>
         /\ work[s].msg \in Messages /\ message[work[s].msg] # "none"
         /\ FilesOf(work[s].msg) \subseteq work[s].files
    /\ work[s].stage \in {"erasing", "closing"} => work[s].todo = work[s].files

StoreInv == \A f \in Files : Live(f) /\ ~BeingDeleted(f) => f \in object \union wasted

\* The files of a request whose object it has put, or has removed.
Added(w) == IF w.stage = "uploading" THEN w.files ELSE {}
RemovedAt(stage, files, todo) ==
  IF stage = "deleting" THEN files
  ELSE IF stage \in {"purging", "clearing", "collected"} THEN files \ todo
  ELSE {}
Removed(w) == RemovedAt(w.stage, w.files, w.todo)

\* What a request has read is still so.
Current(w) ==
  /\ w.stage \in {"discarding", "unbound", "deleting"} =>
       \A f \in w.files : row[f] = "unbound"
  /\ w.stage \in {"erasing", "purging"} => \A f \in w.files : w.msg \in BoundTo(f)
  /\ w.stage \in {"closing", "clearing", "collected"} =>
       room /\ w.files = {f \in Files : row[f] = "room"}
  /\ w.stage = "collected" => w.todo = {} /\ RoomMessages \subseteq w.seen

\* Until two requests overlap, or one dies.
SerialInv ==
  ~disturbed =>
    /\ \A s, t \in Slots : work[s].stage # "idle" /\ work[t].stage # "idle" => s = t
    /\ \A s \in Slots : Current(work[s])
    /\ \A f \in Files, k \in Kinds : row[f] = k => binding[k][f] # NoMessage
    /\ ~room => \A f \in Files : row[f] # "room"
    /\ \A f \in Files :
         f \in object <=> \/ Live(f) /\ \A s \in Slots : f \notin Removed(work[s])
                          \/ \E s \in Slots : f \in Added(work[s])

IInv == TypeOK /\ BindInv /\ LockInv /\ HoldsInv /\ StoreInv /\ SerialInv

-----------------------------------------------------------------------------
(* Requests in flight.                                                     *)

Work == [stage : Stages, kind : Kinds, msg : Messages \union {NoMessage},
         files : SUBSET Files, todo : SUBSET Files, seen : SUBSET Messages]

Locking == Deleting \union {"posting"}

LEMMA IdleTyped == Idle \in Work /\ Idle.stage = "idle" /\ Idle.todo \subseteq Idle.files
BY DEF Idle, Work, Stages, Kinds

\* One request goes on as r.
LEMMA WorkChanges ==
  ASSUME TypeOK, NEW s \in Slots, NEW r \in Work, work' = [work EXCEPT ![s] = r]
  PROVE  /\ work' \in [Slots -> Work]
         /\ \A t \in Slots : work'[t] = IF t = s THEN r ELSE work[t]
BY DEF TypeOK, Work

\* Until requests overlap, the one in flight accounts for the store.
LEMMA SerialStore ==
  ASSUME IInv, ~disturbed, NEW s \in Slots,
         \A t \in Slots \ {s} : work[t].stage = "idle"
  PROVE  \A f \in Files :
           f \in object <=> (Live(f) /\ f \notin Removed(work[s])) \/ f \in Added(work[s])
<1>1. \A t \in Slots \ {s} : Removed(work[t]) = {} /\ Added(work[t]) = {}
  BY DEF Removed, RemovedAt, Added
<1>. QED  BY <1>1 DEF IInv, SerialInv

LEMMA SerialAlone ==
  ASSUME IInv, ~disturbed, NEW s \in Slots, work[s].stage # "idle"
  PROVE  Current(work[s]) /\ \A t \in Slots \ {s} : work[t].stage = "idle"
BY DEF IInv, SerialInv

\* A request that begins or goes on, and commits nothing.
StepOf(s, r) ==
  /\ work' = [work EXCEPT ![s] = r] /\ r.todo \subseteq r.files
  /\ UNCHANGED <<room, message, row, binding, wasted>>
  /\ disturbed' \in BOOLEAN /\ object' \subseteq Files
  /\ r.stage \in Locking =>
       \/ work[s].stage \in Locking /\ r.files = work[s].files
       \/ ~Locked(s, r.files)
  /\ work[s].stage \in Deleting => r.stage \in Deleting /\ r.files = work[s].files
  /\ \A f \in object : f \in object' \/ (r.stage \in Deleting /\ f \in r.files)
  /\ r.stage = "uploading" =>
       \A f \in r.files :
         /\ row[f] = "none" /\ f \in object'
         /\ \A t \in Slots \ {s} : work[t].stage = "uploading" => f \notin work[t].files
  /\ r.stage = "posting" => \A f \in r.files : row[f] = "unbound"
  /\ r.stage \notin {"idle", "uploading"} => \A f \in r.files : row[f] # "none"
  /\ r.stage \in {"erasing", "purging"} =>
       /\ r.msg \in Messages /\ message[r.msg] # "none"
       /\ FilesOf(r.msg) \subseteq r.files
  /\ r.stage \in {"erasing", "closing"} => r.todo = r.files

LEMMA StepKeeps ==
  ASSUME IInv, NEW s \in Slots, NEW r \in Work, StepOf(s, r),
         ~disturbed' =>
           /\ ~disturbed /\ \A t \in Slots \ {s} : work[t].stage = "idle"
           /\ Current(r)
           /\ \A f \in Files :
                f \in object' <=> (Live(f) /\ f \notin Removed(r)) \/ f \in Added(r)
  PROVE  IInv'
<1>1. /\ work' \in [Slots -> Work]
      /\ \A t \in Slots : work'[t] = IF t = s THEN r ELSE work[t]
  BY WorkChanges DEF IInv, StepOf
<1>2. UNCHANGED <<room, message, row, binding, wasted>>
  BY DEF StepOf
<1>3. TypeOK'
  BY <1>1, <1>2 DEF IInv, TypeOK, Work, StepOf
<1>4. BindInv'
  BY <1>2 DEF IInv, BindInv
<1>5. LockInv'
  <2>1. SUFFICES ASSUME NEW t \in Slots, NEW q \in Slots, t # q,
                        work'[t].stage \in Locking, work'[q].stage \in Locking
                 PROVE  work'[t].files \intersect work'[q].files = {}
    BY DEF LockInv, Locking
  <2>2. CASE t # s /\ q # s
    BY <1>1, <2>1, <2>2 DEF IInv, LockInv, Locking
  <2>3. CASE t = s \/ q = s
    <3>1. PICK u \in {t, q} : u # s /\ {t, q} = {s, u}
      BY <2>1, <2>3
    <3>2. work[u].stage \in Locking /\ r.stage \in Locking
      BY <1>1, <2>1, <3>1
    <3>3. r.files \intersect work[u].files = {}
      BY <3>1, <3>2 DEF StepOf, IInv, LockInv, Locking, Locked
    <3>. QED  BY <1>1, <3>1, <3>3
  <2>. QED  BY <2>2, <2>3
<1>6. HoldsInv'
  <2>1. ASSUME NEW t \in Slots, work'[t].stage = "uploading", NEW f \in work'[t].files
        PROVE  /\ row'[f] = "none" /\ f \in object'
               /\ \A q \in Slots : work'[q].stage = "uploading" /\ f \in work'[q].files => q = t
    BY <1>1, <1>2, <2>1 DEF StepOf, IInv, HoldsInv, Deleting
  <2>2. ASSUME NEW t \in Slots
        PROVE  /\ work'[t].stage = "posting" => \A f \in work'[t].files : row'[f] = "unbound"
               /\ work'[t].stage \notin {"idle", "uploading"} =>
                    \A f \in work'[t].files : row'[f] # "none"
               /\ work'[t].stage \in {"erasing", "closing"} => work'[t].todo = work'[t].files
    BY <1>1, <1>2 DEF StepOf, IInv, HoldsInv
  <2>3. ASSUME NEW t \in Slots, work'[t].stage \in {"erasing", "purging"}
        PROVE  /\ work'[t].msg \in Messages /\ message'[work'[t].msg] # "none"
               /\ FilesOf(work'[t].msg) \subseteq work'[t].files
    BY <1>1, <1>2, <2>3 DEF StepOf, IInv, HoldsInv
  <2>4. \A m : FilesOf(m)' = FilesOf(m)
    BY <1>2 DEF FilesOf, BoundTo
  <2>. QED  BY <2>1, <2>2, <2>3, <2>4 DEF HoldsInv, FilesOf, BoundTo
<1>7. StoreInv'
  <2>1. ASSUME NEW f \in Files, row[f] \in Kinds \union {"unbound"}, ~BeingDeleted(f)'
        PROVE  f \in object' \union wasted
    <3>1. ~BeingDeleted(f)
      BY <1>1, <2>1 DEF StepOf, BeingDeleted
    <3>2. f \in object \union wasted
      BY <2>1, <3>1 DEF IInv, StoreInv, Live
    <3>3. f \in object => f \in object'
      BY <1>1, <2>1 DEF StepOf, BeingDeleted
    <3>. QED  BY <3>2, <3>3
  <2>. QED  BY <1>2, <2>1 DEF StoreInv, Live
<1>8. SerialInv'
  <2>1. SUFFICES ASSUME ~disturbed' PROVE SerialInv'
    BY DEF SerialInv
  <2>2. \A t \in Slots \ {s} : work'[t].stage = "idle"
    BY <1>1, <2>1
  <2>3. (\A t \in Slots : Current(work[t]))'
    BY <1>1, <1>2, <2>1, <2>2 DEF Current, BoundTo, RoomMessages
  <2>4. \A t \in Slots \ {s} : Removed(work'[t]) = {} /\ Added(work'[t]) = {}
    BY <2>2 DEF Removed, RemovedAt, Added
  <2>5. \A f \in Files :
          f \in object' <=> \/ row[f] \in Kinds \union {"unbound"} /\ \A t \in Slots : f \notin Removed(work'[t])
                            \/ \E t \in Slots : f \in Added(work'[t])
    BY <1>1, <2>1, <2>4 DEF Live
  <2>. QED  BY <1>1, <1>2, <2>1, <2>2, <2>3, <2>5 DEF IInv, SerialInv, Live, Removed, RemovedAt, Added
<1>. QED  BY <1>3, <1>4, <1>5, <1>6, <1>7, <1>8 DEF IInv

\* A request that begins.
LEMMA BeginKeeps ==
  ASSUME IInv, NEW s \in Slots, NEW stage \in Stages \ ({"idle"} \union Deleting),
         NEW kind \in Kinds, NEW m \in Messages \union {NoMessage}, NEW files \in SUBSET Files,
         Begin(s, stage, kind, m, files),
         UNCHANGED database,
         object' = object \union (IF stage = "uploading" THEN files ELSE {}),
         stage = "uploading" => \A f \in files : row[f] = "none" /\ f \notin object,
         stage = "posting" => ~Locked(s, files) /\ \A f \in files : row[f] = "unbound",
         stage # "uploading" => \A f \in files : row[f] # "none",
         stage \in {"erasing", "purging"} =>
           m \in Messages /\ message[m] # "none" /\ FilesOf(m) \subseteq files,
         ~disturbed => Current([stage |-> stage, kind |-> kind, msg |-> m,
                                files |-> files, todo |-> files, seen |-> {}])
  PROVE  IInv'
<1>. DEFINE r == [stage |-> stage, kind |-> kind, msg |-> m,
                  files |-> files, todo |-> files, seen |-> {}]
<1>1. /\ r \in Work /\ r.stage = stage /\ r.msg = m /\ r.files = files /\ r.todo = files
  BY DEF Work
<1>2. /\ work' = [work EXCEPT ![s] = r] /\ work[s].stage = "idle"
      /\ UNCHANGED <<room, message, row, binding, wasted>>
      /\ disturbed' = (disturbed \/ \E t \in Slots : work[t].stage # "idle")
  BY DEF Begin, database
<1>3. ~disturbed => Current(r)
  OBVIOUS
<1>. HIDE DEF r
<1>4. \A t \in Slots \ {s} : work[t].stage = "uploading" =>
        \A f \in work[t].files : row[f] = "none" /\ f \in object
  BY DEF IInv, HoldsInv
<1>5. object' \subseteq Files /\ disturbed' \in BOOLEAN
  BY <1>2 DEF IInv, TypeOK
<1>6. StepOf(s, r)
  BY <1>1, <1>2, <1>4, <1>5 DEF StepOf, Deleting, Locking
<1>7. ASSUME ~disturbed'
      PROVE  /\ ~disturbed /\ \A t \in Slots \ {s} : work[t].stage = "idle"
             /\ Current(r)
             /\ \A f \in Files :
                  f \in object' <=> (Live(f) /\ f \notin Removed(r)) \/ f \in Added(r)
  <2>1. ~disturbed /\ \A t \in Slots : work[t].stage = "idle"
    BY <1>2, <1>7
  <2>2. \A f \in Files : f \in object <=> Live(f)
    BY <1>2, <2>1, SerialStore DEF Removed, RemovedAt, Added
  <2>3. Removed(r) = {} /\ Added(r) = IF stage = "uploading" THEN files ELSE {}
    BY <1>1 DEF Removed, RemovedAt, Added, Deleting
  <2>. QED  BY <1>3, <2>1, <2>2, <2>3
<1>. QED  BY <1>1, <1>6, <1>7, StepKeeps

LEMMA BeginsKeep ==
  ASSUME IInv, NEW s \in Slots,
         \/ \E f \in Files : UploadPut(s, f) \/ DiscardStart(s, f)
         \/ \E kind \in Kinds, files \in SUBSET Files : PostStart(s, kind, files)
         \/ \E m \in Messages : EraseStart(s, m)
         \/ CloseStart(s)
  PROVE  IInv'
<1>1. {"uploading", "posting", "discarding", "erasing", "closing"}
        \subseteq Stages \ ({"idle"} \union Deleting) /\ "room" \in Kinds
  BY DEF Stages, Deleting, Kinds
<1>2. \A m \in Messages, f \in Files : f \in FilesOf(m) => row[f] \in Kinds
  BY DEF IInv, BindInv, FilesOf, BoundTo
<1>3. "none" \notin Kinds
  BY DEF Kinds
<1>4. ASSUME NEW f \in Files, UploadPut(s, f) PROVE IInv'
  BY <1>1, <1>4, BeginKeeps DEF UploadPut, Current
<1>5. ASSUME NEW f \in Files, DiscardStart(s, f) PROVE IInv'
  BY <1>1, <1>5, BeginKeeps DEF DiscardStart, MayDiscard, Current
<1>6. ASSUME NEW kind \in Kinds, NEW files \in SUBSET Files, PostStart(s, kind, files) PROVE IInv'
  BY <1>1, <1>6, BeginKeeps DEF PostStart, Current
<1>7. ASSUME NEW m \in Messages, EraseStart(s, m) PROVE IInv'
  <2>1. FilesOf(m) \in SUBSET Files /\ \A f \in FilesOf(m) : row[f] # "none" /\ m \in BoundTo(f)
    BY <1>2, <1>3 DEF FilesOf
  <2>2. message[m] # "none"
    BY <1>3, <1>7 DEF EraseStart
  <2>. QED  BY <1>1, <1>7, <2>1, <2>2, BeginKeeps DEF EraseStart, Current
<1>8. CASE CloseStart(s)
  <2>. DEFINE files == UNION {FilesOf(m) : m \in RoomMessages}
  <2>1. files \in SUBSET Files /\ \A f \in files : row[f] # "none"
    BY <1>2, <1>3 DEF FilesOf, RoomMessages
  <2>2. ~disturbed => files = {f \in Files : row[f] = "room"}
    <3>1. \A f \in files : row[f] = "room"
      BY DEF IInv, BindInv, FilesOf, BoundTo, RoomMessages
    <3>2. ASSUME ~disturbed, NEW f \in Files, row[f] = "room" PROVE f \in files
      <4>1. binding["room"][f] # NoMessage
        BY <1>1, <3>2 DEF IInv, SerialInv
      <4>2. binding["room"][f] \in RoomMessages
        BY <1>1, <4>1 DEF IInv, TypeOK, BindInv, RoomMessages
      <4>3. f \in FilesOf(binding["room"][f])
        BY <1>1, <4>1 DEF FilesOf, BoundTo
      <4>. QED  BY <4>2, <4>3
    <3>. QED  BY <2>1, <3>1, <3>2
  <2>3. Begin(s, "closing", "room", NoMessage, files) /\ room /\ UNCHANGED <<database, object>>
    BY <1>8 DEF CloseStart
  <2>. HIDE DEF files
  <2>. QED  BY <1>1, <2>1, <2>2, <2>3, BeginKeeps DEF Current
<1>. QED  BY <1>4, <1>5, <1>6, <1>7, <1>8

\* A request that goes on.
LEMMA MoveKeeps ==
  ASSUME IInv, NEW s \in Slots, NEW r \in Work, work' = [work EXCEPT ![s] = r],
         r.stage \notin {"idle", "uploading", "posting", "erasing", "closing"},
         work[s].stage \notin {"idle", "uploading", "posting"},
         r.msg = work[s].msg, r.files = work[s].files, r.todo \subseteq r.files,
         UNCHANGED <<database, history>>,
         object' = object \ (Removed(r) \ Removed(work[s])),
         Removed(work[s]) \subseteq Removed(r),
         r.stage \in Deleting => work[s].stage \in Deleting \/ ~Locked(s, work[s].files),
         work[s].stage \in Deleting => r.stage \in Deleting,
         r.stage = "purging" => work[s].stage \in {"erasing", "purging"},
         r.stage \in {"discarding", "unbound", "deleting"} =>
           work[s].stage \in {"discarding", "unbound", "deleting"},
         r.stage \in {"clearing", "collected"} =>
           work[s].stage \in {"closing", "clearing", "collected"},
         r.stage = "collected" => r.todo = {} /\ RoomMessages \subseteq r.seen
  PROVE  IInv'
<1>. DEFINE w == work[s]
<1>1. UNCHANGED <<room, message, row, binding, wasted, disturbed>>
  BY DEF database, history
<1>2. StepOf(s, r)
  <2>1. Removed(r) = {} \/ (r.stage \in Deleting /\ Removed(r) \subseteq r.files)
    BY DEF Removed, RemovedAt, Deleting
  <2>. QED  BY <1>1, <2>1 DEF StepOf, Locking, IInv, TypeOK, HoldsInv
<1>3. ASSUME ~disturbed'
      PROVE  /\ ~disturbed /\ \A t \in Slots \ {s} : work[t].stage = "idle"
             /\ Current(r)
             /\ \A f \in Files :
                  f \in object' <=> (Live(f) /\ f \notin Removed(r)) \/ f \in Added(r)
  <2>1. /\ ~disturbed /\ Current(w) /\ \A t \in Slots \ {s} : work[t].stage = "idle"
    BY <1>1, <1>3, SerialAlone
  <2>2. Current(r)
    BY <2>1 DEF Current
  <2>3. \A f \in Files : f \in object <=> Live(f) /\ f \notin Removed(w)
    BY <2>1, SerialStore DEF Added
  <2>4. Added(r) = {}
    BY DEF Added
  <2>. QED  BY <2>1, <2>2, <2>3, <2>4
<1>. QED  BY <1>2, <1>3, StepKeeps

LEMMA MovesKeep ==
  ASSUME IInv, NEW s \in Slots,
         \/ DiscardBindings(s) \/ DiscardDelete(s) \/ EraseDelete(s) \/ CloseDelete(s)
         \/ CloseCollect(s) \/ \E f \in Files : Purge(s, f)
  PROVE  IInv'
<1>. DEFINE w == work[s]
<1>1. w \in Work /\ w.todo \subseteq w.files /\ work \in [Slots -> Work]
  BY DEF IInv, TypeOK, Work
<1>2. {"unbound", "deleting", "purging", "clearing", "collected"} \subseteq Stages
  BY DEF Stages
<1>3. CASE DiscardBindings(s)
  <2>. DEFINE seen == UNION {BoundTo(f) : f \in w.files}
              r == [w EXCEPT !.stage = "unbound", !.seen = seen]
  <2>1. seen \in SUBSET Messages
    <3>1. ASSUME NEW f \in Files PROVE BoundTo(f) \subseteq Messages
      BY DEF BoundTo, IInv, TypeOK
    <3>. QED  BY <1>1, <3>1 DEF Work
  <2>2. work' = [work EXCEPT ![s] = r]
    BY <1>1, <1>3 DEF DiscardBindings
  <2>. HIDE DEF seen
  <2>3. r \in Work /\ r.stage = "unbound" /\ r.msg = w.msg /\ r.files = w.files /\ r.todo = w.todo
    BY <1>1, <1>2, <2>1 DEF Work
  <2>. HIDE DEF r
  <2>4. w.stage = "discarding" /\ UNCHANGED <<database, object, history>>
    BY <1>3 DEF DiscardBindings
  <2>5. Removed(r) = {} /\ Removed(w) = {}
    BY <2>3, <2>4 DEF Removed, RemovedAt
  <2>. QED  BY <1>1, <2>2, <2>3, <2>4, <2>5, MoveKeeps DEF Deleting
<1>4. CASE DiscardDelete(s)
  <2>. DEFINE r == [w EXCEPT !.stage = "deleting"]
  <2>1. work' = [work EXCEPT ![s] = r]
    BY <1>1, <1>4 DEF DiscardDelete, Move
  <2>2. r \in Work /\ r.stage = "deleting" /\ r.msg = w.msg /\ r.files = w.files /\ r.todo = w.todo
    BY <1>1, <1>2 DEF Work
  <2>. HIDE DEF r
  <2>3. /\ w.stage = "unbound" /\ UNCHANGED <<database, history>> /\ ~Locked(s, w.files)
        /\ object' = object \ w.files
    BY <1>4 DEF DiscardDelete, Move
  <2>4. Removed(r) = w.files /\ Removed(w) = {}
    BY <2>2, <2>3 DEF Removed, RemovedAt
  <2>. QED  BY <1>1, <2>1, <2>2, <2>3, <2>4, MoveKeeps DEF Deleting
<1>5. CASE EraseDelete(s) \/ CloseDelete(s)
  <2>. DEFINE x == IF w.stage = "erasing" THEN "purging" ELSE "clearing"
              r == [w EXCEPT !.stage = x]
  <2>1. /\ work' = [work EXCEPT ![s] = r] /\ w.stage \in {"erasing", "closing"}
        /\ UNCHANGED <<database, object, history>> /\ ~Locked(s, w.files)
    BY <1>1, <1>5 DEF EraseDelete, CloseDelete, Move
  <2>2. r \in Work /\ r.stage = x /\ r.msg = w.msg /\ r.files = w.files /\ r.todo = w.todo
    BY <1>1, <1>2 DEF Work
  <2>. HIDE DEF r
  <2>3. Removed(w) = {}
    BY <2>1 DEF Removed, RemovedAt
  <2>4. w.todo = w.files
    BY <2>1 DEF IInv, HoldsInv
  <2>5. x \in {"purging", "clearing"} /\ (x = "purging" <=> w.stage = "erasing")
    OBVIOUS
  <2>. HIDE DEF x
  <2>6. Removed(r) = {}
    BY <2>2, <2>4, <2>5 DEF Removed, RemovedAt
  <2>. QED  BY <1>1, <2>1, <2>2, <2>3, <2>5, <2>6, MoveKeeps DEF Deleting
<1>6. CASE CloseCollect(s)
  <2>. DEFINE r == [w EXCEPT !.stage = "collected", !.seen = RoomMessages]
  <2>1. work' = [work EXCEPT ![s] = r]
    BY <1>1, <1>6 DEF CloseCollect
  <2>2. /\ r \in Work /\ r.stage = "collected" /\ r.msg = w.msg /\ r.files = w.files
        /\ r.todo = w.todo /\ r.seen = RoomMessages
    BY <1>1, <1>2 DEF Work, RoomMessages
  <2>. HIDE DEF r
  <2>3. w.stage = "clearing" /\ w.todo = {} /\ UNCHANGED <<database, object, history>>
    BY <1>6 DEF CloseCollect
  <2>4. Removed(r) = Removed(w)
    BY <2>2, <2>3 DEF Removed, RemovedAt
  <2>. QED  BY <1>1, <2>1, <2>2, <2>3, <2>4, MoveKeeps DEF Deleting
<1>7. ASSUME NEW f \in Files, Purge(s, f) PROVE IInv'
  <2>. DEFINE r == [w EXCEPT !.todo = w.todo \ {f}]
  <2>1. work' = [work EXCEPT ![s] = r]
    BY <1>1, <1>7 DEF Purge
  <2>2. /\ r \in Work /\ r.stage = w.stage /\ r.msg = w.msg /\ r.files = w.files
        /\ r.todo = w.todo \ {f}
    BY <1>1 DEF Work
  <2>. HIDE DEF r
  <2>3. /\ w.stage \in {"purging", "clearing"} /\ UNCHANGED <<database, history>>
        /\ f \in w.todo /\ object' = object \ {f}
    BY <1>7 DEF Purge
  <2>4. Removed(r) \ Removed(w) = {f} /\ Removed(w) \subseteq Removed(r)
    BY <1>1, <2>2, <2>3 DEF Removed, RemovedAt
  <2>. QED  BY <1>1, <2>1, <2>2, <2>3, <2>4, MoveKeeps DEF Deleting
<1>. QED  BY <1>3, <1>4, <1>5, <1>6, <1>7

\* A request that commits, or fails before it has locked or removed anything.
LEMMA EndKeeps ==
  ASSUME IInv, NEW s \in Slots, work[s].stage # "idle",
         work' = [work EXCEPT ![s] = Idle], UNCHANGED history,
         /\ room' \in BOOLEAN /\ object' \subseteq Files
         /\ message' \in [Messages -> Kinds \union {"none", "gone"}]
         /\ row' \in [Files -> Kinds \union {"none", "unbound", "gone"}]
         /\ binding' \in [Kinds -> [Files -> Messages \union {NoMessage}]],
         ~room' => \A m \in Messages : message'[m] # "room",
         BindInv',
         \A f \in Files : row[f] # "none" => row'[f] # "none",
         \A t \in Slots \ {s} :
           /\ work[t].stage = "uploading" =>
                \A f \in work[t].files : row'[f] = "none" /\ f \in object'
           /\ work[t].stage = "posting" => \A f \in work[t].files : row'[f] = "unbound"
           /\ work[t].stage \in {"erasing", "purging"} =>
                /\ message'[work[t].msg] # "none"
                /\ \A k \in Kinds, f \in Files :
                     binding'[k][f] = work[t].msg => f \in work[t].files,
         \A f \in Files :
           row'[f] \in Kinds \union {"unbound"} /\ ~BeingDeleted(f)' => f \in object' \union wasted,
         ~disturbed =>
           /\ \A f \in Files, k \in Kinds : row'[f] = k => binding'[k][f] # NoMessage
           /\ ~room' => \A f \in Files : row'[f] # "room"
           /\ \A f \in Files : f \in object' <=> row'[f] \in Kinds \union {"unbound"}
  PROVE  IInv'
<1>1. /\ work' \in [Slots -> Work]
      /\ work'[s] = Idle /\ \A t \in Slots \ {s} : work'[t] = work[t]
  BY WorkChanges, IdleTyped DEF IInv
<1>2. UNCHANGED <<disturbed, wasted>>
  BY DEF history
<1>3. TypeOK'
  BY <1>1, <1>2, IdleTyped DEF IInv, TypeOK, Work
<1>4. LockInv'
  BY <1>1, IdleTyped DEF IInv, LockInv, Deleting
<1>5. HoldsInv'
  <2>1. ASSUME NEW t \in Slots, work'[t].stage = "uploading", NEW f \in work'[t].files
        PROVE  /\ row'[f] = "none" /\ f \in object'
               /\ \A q \in Slots : work'[q].stage = "uploading" /\ f \in work'[q].files => q = t
    BY <1>1, <2>1, IdleTyped DEF IInv, HoldsInv
  <2>2. ASSUME NEW t \in Slots
        PROVE  /\ work'[t].stage = "posting" => \A f \in work'[t].files : row'[f] = "unbound"
               /\ work'[t].stage \notin {"idle", "uploading"} =>
                    \A f \in work'[t].files : row'[f] # "none"
               /\ work'[t].stage \in {"erasing", "closing"} => work'[t].todo = work'[t].files
    <3>1. CASE t = s
      BY <1>1, <3>1, IdleTyped
    <3>2. CASE t # s
      BY <1>1, <3>2 DEF IInv, HoldsInv, TypeOK
    <3>. QED  BY <3>1, <3>2
  <2>3. ASSUME NEW t \in Slots, work'[t].stage \in {"erasing", "purging"}
        PROVE  /\ work'[t].msg \in Messages /\ message'[work'[t].msg] # "none"
               /\ (FilesOf(work[t].msg) \subseteq work[t].files)'
    BY <1>1, <2>3, IdleTyped DEF IInv, HoldsInv, FilesOf, BoundTo
  <2>. QED  BY <2>1, <2>2, <2>3 DEF HoldsInv
<1>6. StoreInv'
  BY <1>2 DEF StoreInv, Live
<1>7. SerialInv'
  <2>1. SUFFICES ASSUME ~disturbed' PROVE SerialInv'
    BY DEF SerialInv
  <2>2. \A t \in Slots : work'[t].stage = "idle"
    BY <1>1, <1>2, <2>1, IdleTyped DEF IInv, SerialInv
  <2>3. (\A t \in Slots : Current(work[t]) /\ Removed(work[t]) = {} /\ Added(work[t]) = {})'
    BY <2>2 DEF Current, Removed, RemovedAt, Added
  <2>. QED  BY <1>2, <2>1, <2>2, <2>3 DEF SerialInv, Live
<1>. QED  BY <1>3, <1>4, <1>5, <1>6, <1>7 DEF IInv

\* What the end of a request leaves of the others.
LEMMA OthersHold ==
  ASSUME IInv, NEW s \in Slots, work' = [work EXCEPT ![s] = Idle]
  PROVE  /\ \A t \in Slots : work[t].stage \in {"erasing", "purging"} =>
               /\ work[t].msg \in Messages /\ message[work[t].msg] # "none"
               /\ \A k \in Kinds, f \in Files :
                    binding[k][f] = work[t].msg => f \in work[t].files
         /\ \A f \in Files : BeingDeleted(f) /\ ~BeingDeleted(f)' =>
              work[s].stage \in Deleting /\ f \in work[s].files
<1>1. ASSUME NEW t \in Slots, work[t].stage \in {"erasing", "purging"}
      PROVE  /\ work[t].msg \in Messages /\ message[work[t].msg] # "none"
             /\ \A k \in Kinds, f \in Files :
                  binding[k][f] = work[t].msg => f \in work[t].files
  BY <1>1, NullAssumption DEF IInv, HoldsInv, FilesOf, BoundTo
<1>2. \A t \in Slots \ {s} : work'[t] = work[t]
  BY WorkChanges, IdleTyped DEF IInv
<1>3. ASSUME NEW f \in Files, BeingDeleted(f), ~BeingDeleted(f)'
      PROVE  work[s].stage \in Deleting /\ f \in work[s].files
  BY <1>2, <1>3 DEF BeingDeleted
<1>. QED  BY <1>1, <1>3

LEMMA UploadsEnd ==
  ASSUME IInv, NEW s \in Slots, UploadInsert(s) \/ UploadFails(s)
  PROVE  IInv'
<1>. DEFINE w == work[s]
<1>1. /\ w.stage = "uploading" /\ work' = [work EXCEPT ![s] = Idle]
      /\ UNCHANGED <<room, message, binding, history>>
      /\ \/ row' = [f \in Files |-> IF f \in w.files THEN "unbound" ELSE row[f]] /\ object' = object
         \/ row' = row /\ object' = object \ w.files
  BY DEF UploadInsert, UploadFails, End, database
<1>2. /\ TypeOK /\ BindInv /\ w.files \in SUBSET Files
      /\ \A f \in w.files :
           /\ row[f] = "none" /\ f \in object
           /\ \A t \in Slots \ {s} : work[t].stage = "uploading" => f \notin work[t].files
  BY <1>1 DEF IInv, HoldsInv, TypeOK
<1>3. /\ row' \in [Files -> Kinds \union {"none", "unbound", "gone"}] /\ object' \subseteq Files
      /\ \A f \in Files : f \notin w.files => row'[f] = row[f] /\ (f \in object' <=> f \in object)
      /\ \A f \in w.files : \/ row'[f] = "unbound" /\ f \in object'
                            \/ row'[f] = "none" /\ f \notin object'
  <2>1. row \in [Files -> Kinds \union {"none", "unbound", "gone"}] /\ object \subseteq Files
    BY <1>2 DEF TypeOK
  <2>2. CASE /\ row' = [f \in Files |-> IF f \in w.files THEN "unbound" ELSE row[f]]
             /\ object' = object
    BY <1>2, <2>1, <2>2
  <2>3. CASE row' = row /\ object' = object \ w.files
    <3>1. \A f \in w.files : f \notin object' /\ row'[f] = "none"
      BY <1>2, <2>3
    <3>2. \A f \in Files : f \notin w.files => row'[f] = row[f] /\ (f \in object' <=> f \in object)
      BY <2>3
    <3>. QED  BY <2>1, <2>3, <3>1, <3>2
  <2>. QED  BY <1>1, <2>2, <2>3
<1>4. BindInv'
  BY <1>1, <1>2, <1>3 DEF BindInv, Kinds
<1>5. \A f \in Files : row[f] # "none" => row'[f] = row[f]
  BY <1>2, <1>3
<1>6. ASSUME NEW t \in Slots \ {s}
      PROVE  /\ work[t].stage = "uploading" =>
                  \A f \in work[t].files : row'[f] = "none" /\ f \in object'
             /\ work[t].stage = "posting" => \A f \in work[t].files : row'[f] = "unbound"
  BY <1>2, <1>3, <1>5 DEF IInv, HoldsInv, TypeOK
<1>7. ASSUME NEW f \in Files, row'[f] \in Kinds \union {"unbound"}, ~BeingDeleted(f)'
      PROVE  f \in object' \union wasted
  <2>1. ~BeingDeleted(f)
    BY <1>1, <1>7, OthersHold DEF Deleting
  <2>2. CASE f \in w.files
    BY <1>3, <1>7, <2>2 DEF Kinds
  <2>3. CASE f \notin w.files
    BY <1>3, <1>7, <2>1, <2>3 DEF IInv, StoreInv, Live
  <2>. QED  BY <2>2, <2>3
<1>8. ASSUME ~disturbed
      PROVE  /\ \A f \in Files, k \in Kinds : row'[f] = k => binding'[k][f] # NoMessage
             /\ ~room' => \A f \in Files : row'[f] # "room"
             /\ \A f \in Files : f \in object' <=> row'[f] \in Kinds \union {"unbound"}
  <2>1. \A f \in Files : f \in object <=> Live(f) \/ f \in w.files
    BY <1>1, <1>8, SerialAlone, SerialStore DEF Removed, RemovedAt, Added
  <2>2. \A f \in Files : row'[f] \in Kinds => row'[f] = row[f]
    BY <1>2, <1>3 DEF Kinds
  <2>3. \A f \in Files : row'[f] \in Kinds \union {"unbound"} <=> f \in object'
    BY <1>2, <1>3, <2>1 DEF Live, Kinds
  <2>. QED  BY <1>1, <1>8, <2>2, <2>3 DEF IInv, SerialInv, Kinds
<1>9. /\ room' \in BOOLEAN
      /\ message' \in [Messages -> Kinds \union {"none", "gone"}]
      /\ binding' \in [Kinds -> [Files -> Messages \union {NoMessage}]]
      /\ ~room' => \A m \in Messages : message'[m] # "room"
  BY <1>1, <1>2 DEF TypeOK
<1>10. ASSUME NEW t \in Slots \ {s}, work[t].stage \in {"erasing", "purging"}
       PROVE  /\ message'[work[t].msg] # "none"
              /\ \A k \in Kinds, f \in Files :
                   binding'[k][f] = work[t].msg => f \in work[t].files
  BY <1>1, <1>10, OthersHold
<1>11. work[s].stage # "idle" /\ work' = [work EXCEPT ![s] = Idle] /\ UNCHANGED history
  BY <1>1
<1>12. \A f \in Files : row[f] # "none" => row'[f] # "none"
  BY <1>5
<1>. HIDE DEF w
<1>. QED  BY <1>3, <1>4, <1>6, <1>7, <1>8, <1>9, <1>10, <1>11, <1>12, EndKeeps

LEMMA PostsEnd ==
  ASSUME IInv, NEW s \in Slots, NEW m \in Messages, PostCommit(s, m)
  PROVE  IInv'
<1>. DEFINE w == work[s]  kind == w.kind  files == w.files
<1>1. /\ w.stage = "posting" /\ work' = [work EXCEPT ![s] = Idle]
      /\ UNCHANGED <<room, object, history>>
  BY DEF PostCommit, End, database
<1>2. /\ TypeOK /\ BindInv /\ files \in SUBSET Files /\ kind \in Kinds
      /\ \A f \in files : row[f] = "unbound"
  BY <1>1 DEF IInv, HoldsInv, TypeOK
<1>3. \A f \in files, k \in Kinds : binding[k][f] = NoMessage
  BY <1>2 DEF BindInv, Kinds
<1>4. /\ message' \in [Messages -> Kinds \union {"none", "gone"}]
      /\ row' \in [Files -> Kinds \union {"none", "unbound", "gone"}]
      /\ binding' \in [Kinds -> [Files -> Messages \union {NoMessage}]]
      /\ ~room' => \A q \in Messages : message'[q] # "room"
      /\ \A f \in Files : f \notin files => row'[f] = row[f] /\ \A k \in Kinds : binding'[k][f] = binding[k][f]
      /\ \A f \in files : row'[f] \in {"unbound", kind}
      /\ kind = "room" /\ ~room => row' = row
      /\ \A f \in files, k \in Kinds :
           \/ row'[f] = "unbound" /\ binding'[k][f] = NoMessage
           \/ row'[f] = kind /\ binding'[k][f] = IF k = kind THEN m ELSE NoMessage
      /\ \A f \in files : row'[f] = kind => message[m] = "none" /\ message'[m] = kind
      /\ \A q \in Messages : message[q] # "none" => message'[q] = message[q]
  <2>1. CASE /\ RoomExists(kind)
             /\ m \in Fresh
             /\ message' = [message EXCEPT ![m] = kind]
             /\ row' = [f \in Files |-> IF f \in files THEN kind ELSE row[f]]
             /\ binding' = [binding EXCEPT ![kind] =
                  [f \in Files |-> IF f \in files THEN m ELSE @[f]]]
    <3>1. message' \in [Messages -> Kinds \union {"none", "gone"}]
      BY <1>2, <2>1 DEF TypeOK
    <3>2. row' \in [Files -> Kinds \union {"none", "unbound", "gone"}]
      BY <1>2, <2>1 DEF TypeOK
    <3>3. /\ binding' \in [Kinds -> [Files -> Messages \union {NoMessage}]]
          /\ \A f \in Files, k \in Kinds :
               binding'[k][f] = IF k = kind /\ f \in files THEN m ELSE binding[k][f]
      BY <1>2, <2>1 DEF TypeOK
    <3>4. ~room' => \A q \in Messages : message'[q] # "room"
      BY <1>1, <1>2, <2>1 DEF TypeOK, RoomExists
    <3>5. /\ message[m] = "none" /\ message'[m] = kind
          /\ \A q \in Messages : message[q] # "none" => message'[q] = message[q]
      BY <1>2, <2>1 DEF TypeOK, Fresh
    <3>. HIDE DEF files, kind
    <3>. QED  BY <1>2, <1>3, <2>1, <3>1, <3>2, <3>3, <3>4, <3>5 DEF RoomExists
  <2>2. CASE UNCHANGED database
    BY <1>1, <1>2, <1>3, <2>2 DEF TypeOK, database, Kinds
  <2>. QED  BY <2>1, <2>2 DEF PostCommit
<1>5. BindInv'
  <2>1. SUFFICES ASSUME NEW k \in Kinds, NEW f \in Files, binding'[k][f] # NoMessage
                 PROVE  row'[f] = k /\ message'[binding'[k][f]] = k
    BY DEF BindInv
  <2>2. CASE f \in files
    BY <1>4, <2>1, <2>2
  <2>3. CASE f \notin files
    <3>1. binding[k][f] # NoMessage /\ row[f] = k /\ message[binding[k][f]] = k
      BY <1>2, <1>4, <2>1, <2>3 DEF BindInv
    <3>2. binding[k][f] \in Messages /\ k # "none"
      BY <1>2, <3>1 DEF TypeOK, Kinds
    <3>. QED  BY <1>4, <2>3, <3>1, <3>2
  <2>. QED  BY <2>2, <2>3
<1>6. /\ \A f \in Files : row[f] = "none" => row'[f] = "none"
      /\ \A f \in Files : row[f] # "none" => row'[f] # "none"
      /\ \A f \in Files : Live(f) <=> row'[f] \in Kinds \union {"unbound"}
  BY <1>2, <1>4 DEF Kinds, Live
<1>7. ASSUME NEW t \in Slots \ {s}
      PROVE  /\ work[t].stage = "uploading" =>
                  \A f \in work[t].files : row'[f] = "none" /\ f \in object'
             /\ work[t].stage = "posting" => \A f \in work[t].files : row'[f] = "unbound"
             /\ work[t].stage \in {"erasing", "purging"} =>
                  /\ message'[work[t].msg] # "none"
                  /\ \A k \in Kinds, f \in Files :
                       binding'[k][f] = work[t].msg => f \in work[t].files
  <2>1. CASE work[t].stage = "uploading"
    BY <1>1, <1>6, <2>1 DEF IInv, HoldsInv, TypeOK
  <2>2. CASE work[t].stage = "posting"
    <3>1. work[t].files \intersect files = {} /\ \A f \in work[t].files : row[f] = "unbound"
      BY <1>1, <2>2 DEF IInv, LockInv, HoldsInv
    <3>. QED  BY <1>2, <1>4, <2>2, <3>1 DEF TypeOK
  <2>3. CASE work[t].stage \in {"erasing", "purging"}
    <3>1. /\ work[t].msg \in Messages /\ message[work[t].msg] # "none"
          /\ \A k \in Kinds, f \in Files :
               binding[k][f] = work[t].msg => f \in work[t].files
      BY <1>1, <2>3, OthersHold
    <3>. QED  BY <1>4, <2>3, <3>1, NullAssumption
  <2>. QED  BY <2>1, <2>2, <2>3
<1>8. ASSUME NEW f \in Files, row'[f] \in Kinds \union {"unbound"}, ~BeingDeleted(f)'
      PROVE  f \in object' \union wasted
  BY <1>1, <1>6, <1>8, OthersHold DEF IInv, StoreInv, Deleting
<1>9. ASSUME ~disturbed
      PROVE  /\ \A f \in Files, k \in Kinds : row'[f] = k => binding'[k][f] # NoMessage
             /\ ~room' => \A f \in Files : row'[f] # "room"
             /\ \A f \in Files : f \in object' <=> row'[f] \in Kinds \union {"unbound"}
  <2>1. \A f \in Files : f \in object <=> Live(f)
    BY <1>1, <1>9, SerialAlone, SerialStore DEF Removed, RemovedAt, Added
  <2>2. ASSUME NEW f \in Files, NEW k \in Kinds, row'[f] = k PROVE binding'[k][f] # NoMessage
    <3>1. CASE f \in files
      BY <1>4, <2>2, <3>1, NullAssumption DEF Kinds
    <3>2. CASE f \notin files
      BY <1>4, <1>9, <2>2, <3>2 DEF IInv, SerialInv
    <3>. QED  BY <3>1, <3>2
  <2>3. ASSUME ~room', NEW f \in Files, row'[f] = "room" PROVE FALSE
    <3>1. CASE f \in files
      BY <1>1, <1>2, <1>4, <2>3, <3>1
    <3>2. CASE f \notin files
      BY <1>1, <1>4, <1>9, <2>3, <3>2 DEF IInv, SerialInv
    <3>. QED  BY <3>1, <3>2
  <2>. QED  BY <1>1, <1>6, <2>1, <2>2, <2>3
<1>. QED  BY <1>1, <1>2, <1>4, <1>5, <1>6, <1>7, <1>8, <1>9, EndKeeps DEF TypeOK

\* What the end of a deletion leaves of the rows and the bindings.
LEMMA GoneRows ==
  ASSUME TypeOK, NEW files \in SUBSET Files, NEW loose \in SUBSET Files, files \subseteq loose,
         row' = RowsGone(files), binding' = Unbind(loose)
  PROVE  /\ row' \in [Files -> Kinds \union {"none", "unbound", "gone"}]
         /\ binding' \in [Kinds -> [Files -> Messages \union {NoMessage}]]
         /\ \A f \in Files : Live(f)' <=> Live(f) /\ f \notin files
         /\ \A f \in Files : row[f] # "none" => row'[f] # "none"
         /\ \A f \in Files : f \notin files \/ row[f] = "none" => row'[f] = row[f]
         /\ \A f \in Files : row'[f] \in Kinds => row'[f] = row[f] /\ f \notin files
         /\ \A f \in Files, k \in Kinds :
              binding'[k][f] = IF f \in loose THEN NoMessage ELSE binding[k][f]
<1>1. row \in [Files -> Kinds \union {"none", "unbound", "gone"}]
  BY DEF TypeOK
<1>2. \A f \in Files : row'[f] = IF f \in files /\ Live(f) THEN "gone" ELSE row[f]
  BY DEF RowsGone
<1>3. row' \in [Files -> Kinds \union {"none", "unbound", "gone"}]
  BY <1>1 DEF RowsGone
<1>4. "gone" \notin Kinds /\ "none" \notin Kinds
  BY DEF Kinds
<1>5. binding' \in [Kinds -> [Files -> Messages \union {NoMessage}]]
  BY DEF TypeOK, Unbind
<1>6. \A f \in Files, k \in Kinds :
        binding'[k][f] = IF f \in loose THEN NoMessage ELSE binding[k][f]
  BY DEF Unbind
<1>. QED  BY <1>1, <1>2, <1>3, <1>4, <1>5, <1>6 DEF Live

\* A deletion that commits: of an attachment, of a message or of the room.
LEMMA DeletionsEnd ==
  ASSUME IInv, NEW s \in Slots, NEW loose \in SUBSET Files,
         work[s].stage \in Deleting, work' = [work EXCEPT ![s] = Idle],
         UNCHANGED <<object, disturbed, wasted>>,
         row' = RowsGone(work[s].files), binding' = Unbind(loose),
         work[s].files \subseteq loose,
         room' \in BOOLEAN, message' \in [Messages -> Kinds \union {"none", "gone"}],
         \A m \in Messages : message[m] # "none" => message'[m] # "none",
         ~room' => \A m \in Messages : message'[m] # "room",
         \A f \in Files \ loose, k \in Kinds :
           binding[k][f] # NoMessage => message'[binding[k][f]] = message[binding[k][f]],
         ~disturbed =>
           /\ Removed(work[s]) = work[s].files
           /\ \A f \in loose : row[f] \in Kinds => f \in work[s].files
           /\ room /\ ~room' => \A f \in Files : row[f] = "room" => f \in work[s].files
  PROVE  IInv'
<1>. DEFINE files == work[s].files
<1>1. TypeOK /\ BindInv /\ files \in SUBSET Files /\ "uploading" \notin Deleting /\ "idle" \notin Deleting
  BY DEF IInv, TypeOK, Deleting
<1>2. /\ row' \in [Files -> Kinds \union {"none", "unbound", "gone"}]
      /\ binding' \in [Kinds -> [Files -> Messages \union {NoMessage}]]
      /\ \A f \in Files : Live(f)' <=> Live(f) /\ f \notin files
      /\ \A f \in Files : row[f] # "none" => row'[f] # "none"
      /\ \A f \in Files : f \notin files \/ row[f] = "none" => row'[f] = row[f]
      /\ \A f \in Files : row'[f] \in Kinds => row'[f] = row[f] /\ f \notin files
      /\ \A f \in Files, k \in Kinds :
           binding'[k][f] = IF f \in loose THEN NoMessage ELSE binding[k][f]
  BY <1>1, GoneRows
<1>. HIDE DEF files
<1>3. BindInv'
  <2>1. SUFFICES ASSUME NEW k \in Kinds, NEW f \in Files, binding'[k][f] # NoMessage
                 PROVE  row'[f] = k /\ message'[binding'[k][f]] = k
    BY DEF BindInv
  <2>2. f \notin loose /\ binding'[k][f] = binding[k][f]
    BY <1>2, <2>1
  <2>3. row[f] = k /\ message[binding[k][f]] = k
    BY <1>1, <2>1, <2>2 DEF BindInv
  <2>4. message'[binding[k][f]] = message[binding[k][f]]
    BY <2>1, <2>2
  <2>5. f \notin files
    BY <2>2 DEF files
  <2>. QED  BY <1>2, <2>2, <2>3, <2>4, <2>5
<1>4. ASSUME NEW t \in Slots \ {s}
      PROVE  /\ work[t].stage = "uploading" =>
                  \A f \in work[t].files : row'[f] = "none" /\ f \in object'
             /\ work[t].stage = "posting" => \A f \in work[t].files : row'[f] = "unbound"
             /\ work[t].stage \in {"erasing", "purging"} =>
                  /\ message'[work[t].msg] # "none"
                  /\ \A k \in Kinds, f \in Files :
                       binding'[k][f] = work[t].msg => f \in work[t].files
  <2>1. work[t].files \subseteq Files
    BY <1>1 DEF TypeOK
  <2>2. CASE work[t].stage = "uploading"
    BY <1>2, <2>1, <2>2 DEF IInv, HoldsInv
  <2>3. CASE work[t].stage = "posting"
    <3>1. work[t].files \intersect files = {} /\ \A f \in work[t].files : row[f] = "unbound"
      BY <2>3 DEF IInv, LockInv, HoldsInv, files
    <3>. QED  BY <1>2, <2>1, <2>3, <3>1
  <2>4. CASE work[t].stage \in {"erasing", "purging"}
    <3>1. /\ work[t].msg \in Messages /\ message[work[t].msg] # "none"
          /\ \A k \in Kinds, f \in Files :
               binding[k][f] = work[t].msg => f \in work[t].files
      BY <2>4, OthersHold
    <3>. QED  BY <1>2, <2>4, <3>1, NullAssumption
  <2>. QED  BY <2>2, <2>3, <2>4
<1>5. ASSUME NEW f \in Files, row'[f] \in Kinds \union {"unbound"}, ~BeingDeleted(f)'
      PROVE  f \in object' \union wasted
  <2>1. Live(f) /\ f \notin files
    BY <1>2, <1>5 DEF Live
  <2>2. ~BeingDeleted(f)
    BY <1>5, <2>1, OthersHold DEF files
  <2>. QED  BY <2>1, <2>2 DEF IInv, StoreInv
<1>6. ASSUME ~disturbed
      PROVE  /\ \A f \in Files, k \in Kinds : row'[f] = k => binding'[k][f] # NoMessage
             /\ ~room' => \A f \in Files : row'[f] # "room"
             /\ \A f \in Files : f \in object' <=> row'[f] \in Kinds \union {"unbound"}
  <2>1. \A f \in Files : f \in object <=> Live(f) /\ f \notin files
    <3>1. /\ Removed(work[s]) = files /\ \A t \in Slots \ {s} : work[t].stage = "idle"
          /\ Added(work[s]) = {}
      BY <1>1, <1>6, SerialAlone DEF files, Added
    <3>. QED  BY <1>6, <3>1, SerialStore
  <2>2. ASSUME NEW f \in Files, NEW k \in Kinds, row'[f] = k
        PROVE  binding'[k][f] # NoMessage
    <3>1. row[f] = k /\ f \notin files
      BY <1>2, <2>2
    <3>2. f \notin loose
      BY <1>6, <3>1 DEF files
    <3>. QED  BY <1>2, <1>6, <3>1, <3>2 DEF IInv, SerialInv
  <2>3. ASSUME ~room', NEW f \in Files, row'[f] = "room" PROVE FALSE
    <3>1. row[f] = "room" /\ f \notin files
      BY <1>2, <2>3 DEF Kinds
    <3>. QED  BY <1>6, <2>3, <3>1 DEF IInv, SerialInv, files
  <2>. QED  BY <1>2, <2>1, <2>2, <2>3 DEF Live
<1>7. object' \subseteq Files /\ UNCHANGED history /\ work[s].stage # "idle"
  BY <1>1 DEF history, TypeOK
<1>. QED  BY <1>2, <1>3, <1>4, <1>5, <1>6, <1>7, EndKeeps

\* A request that rolls back, once the requests have been disturbed.
LEMMA RollBackKeeps ==
  ASSUME IInv, NEW s \in Slots, RollBack(s), disturbed'
  PROVE  IInv'
<1>1. /\ work' = [work EXCEPT ![s] = Idle] /\ UNCHANGED <<room, message, row, binding, object>>
      /\ wasted' = wasted \union {f \in work[s].files \ object : work[s].stage \in Deleting}
  BY DEF RollBack, database
<1>2. /\ work' \in [Slots -> Work]
      /\ work'[s] = Idle /\ \A t \in Slots \ {s} : work'[t] = work[t]
  BY <1>1, WorkChanges, IdleTyped DEF IInv
<1>3. TypeOK'
  <2>1. wasted' \subseteq Files
    BY <1>1 DEF IInv, TypeOK
  <2>2. disturbed' \in BOOLEAN
    OBVIOUS
  <2>. QED  BY <1>1, <1>2, <2>1, <2>2, IdleTyped DEF IInv, TypeOK, Work
<1>4. BindInv' /\ LockInv'
  BY <1>1, <1>2, IdleTyped DEF IInv, BindInv, LockInv, Deleting
<1>5. HoldsInv'
  <2>1. \A t \in Slots : \/ t # s /\ work'[t] = work[t]
                         \/ work'[t].stage = "idle"
    BY <1>2, IdleTyped
  <2>2. \A m : FilesOf(m)' = FilesOf(m)
    BY <1>1 DEF FilesOf, BoundTo
  <2>. QED  BY <1>1, <2>1, <2>2 DEF IInv, HoldsInv
<1>6. StoreInv'
  <2>1. SUFFICES ASSUME NEW f \in Files, Live(f)', ~BeingDeleted(f)'
                 PROVE  f \in object' \union wasted'
    BY DEF StoreInv
  <2>2. CASE BeingDeleted(f)
    BY <1>1, <2>1, <2>2, OthersHold
  <2>3. CASE ~BeingDeleted(f)
    BY <1>1, <2>1, <2>3 DEF IInv, StoreInv, Live
  <2>. QED  BY <2>2, <2>3
<1>. QED  BY <1>3, <1>4, <1>5, <1>6 DEF IInv, SerialInv

LEMMA CommitsKeep ==
  ASSUME IInv, NEW s \in Slots, DiscardCommit(s) \/ EraseCommit(s) \/ CloseCommit(s)
  PROVE  IInv'
<1>. DEFINE w == work[s]
<1>1. /\ TypeOK /\ BindInv /\ w.files \in SUBSET Files
      /\ {"deleting", "purging", "collected"} \subseteq Deleting
  BY DEF IInv, TypeOK, Deleting
<1>2. \A m \in Messages, f \in Files, k \in Kinds : binding[k][f] = m => f \in FilesOf(m)
  BY NullAssumption DEF FilesOf, BoundTo
<1>3. CASE DiscardCommit(s)
  <2>. DEFINE allSeen == \A f \in w.files : BoundTo(f) \subseteq w.seen
  <2>1. w.stage = "deleting"
    BY <1>3 DEF DiscardCommit, End
  <2>2. ASSUME ~allSeen, RollBack(s), UNCHANGED disturbed PROVE IInv'
    <3>1. ASSUME ~disturbed PROVE FALSE
      <4>1. \A f \in w.files : row[f] = "unbound"
        BY <2>1, <3>1, SerialAlone DEF Current
      <4>2. \A f \in w.files : BoundTo(f) = {}
        BY <1>1, <4>1 DEF BindInv, BoundTo, Kinds
      <4>. QED  BY <2>2, <4>2
    <3>. QED  BY <2>2, <3>1, RollBackKeeps
  <2>3. ASSUME End(s, "deleting"), row' = RowsGone(w.files), binding' = Unbind(w.files),
               UNCHANGED <<room, message, object>>
        PROVE  IInv'
    <3>1. work' = [work EXCEPT ![s] = Idle] /\ UNCHANGED <<object, disturbed, wasted>>
      BY <2>3 DEF End, history
    <3>2. /\ room' \in BOOLEAN /\ message' \in [Messages -> Kinds \union {"none", "gone"}]
          /\ message' = message
          /\ ~room' => \A m \in Messages : message'[m] # "room"
      BY <1>1, <2>3 DEF TypeOK
    <3>3. Removed(w) = w.files /\ w.stage \in Deleting
      BY <1>1, <2>1 DEF Removed, RemovedAt
    <3>4. room' = room /\ row' = RowsGone(w.files) /\ binding' = Unbind(w.files)
      BY <2>3
    <3>5. /\ \A m \in Messages : message[m] # "none" => message'[m] # "none"
          /\ \A f \in Files \ w.files, k \in Kinds :
               binding[k][f] # NoMessage => message'[binding[k][f]] = message[binding[k][f]]
      BY <3>2
    <3>. HIDE DEF allSeen
    <3>. QED  BY <1>1, <3>1, <3>2, <3>3, <3>4, <3>5, DeletionsEnd
  <2>. QED  BY <1>3, <2>2, <2>3 DEF DiscardCommit
<1>4. CASE EraseCommit(s)
  <2>1. /\ w.stage = "purging" /\ w.todo = {} /\ work' = [work EXCEPT ![s] = Idle]
        /\ UNCHANGED <<room, object, disturbed, wasted>>
        /\ message' = [message EXCEPT ![w.msg] = "gone"]
        /\ row' = RowsGone(w.files) /\ binding' = Unbind(w.files)
    BY <1>4 DEF EraseCommit, End, history
  <2>2. Removed(w) = w.files
    BY <2>1 DEF Removed, RemovedAt
  <2>3. w.msg \in Messages /\ FilesOf(w.msg) \subseteq w.files
    BY <2>1 DEF IInv, HoldsInv
  <2>4. /\ room' \in BOOLEAN /\ message' \in [Messages -> Kinds \union {"none", "gone"}]
        /\ \A m \in Messages : message[m] # "none" => message'[m] # "none"
        /\ ~room' => \A m \in Messages : message'[m] # "room"
    BY <1>1, <2>1, <2>3 DEF TypeOK
  <2>5. ASSUME NEW f \in Files \ w.files, NEW k \in Kinds, binding[k][f] # NoMessage
        PROVE  message'[binding[k][f]] = message[binding[k][f]]
    <3>1. binding[k][f] \in Messages /\ binding[k][f] # w.msg
      BY <1>1, <1>2, <2>3, <2>5 DEF TypeOK
    <3>. QED  BY <1>1, <2>1, <3>1 DEF TypeOK
  <2>. QED  BY <1>1, <2>1, <2>2, <2>4, <2>5, DeletionsEnd
<1>5. CASE CloseCommit(s)
  <2>1. w.stage = "collected"
    BY <1>5 DEF CloseCommit, End
  <2>2. ~disturbed => Current(w)
    BY <2>1, SerialAlone
  <2>3. ASSUME ~(RoomMessages \subseteq w.seen), RollBack(s), UNCHANGED disturbed PROVE IInv'
    BY <2>1, <2>2, <2>3, RollBackKeeps DEF Current
  <2>. DEFINE loose == w.files \union UNION {FilesOf(m) : m \in RoomMessages}
  <2>4. ASSUME End(s, "collected"), room' = FALSE,
               message' = [m \in Messages |-> IF m \in RoomMessages THEN "gone" ELSE message[m]],
               row' = RowsGone(w.files), binding' = Unbind(loose), UNCHANGED object
        PROVE  IInv'
    <3>1. work' = [work EXCEPT ![s] = Idle] /\ UNCHANGED <<object, disturbed, wasted>>
      BY <2>4 DEF End, history
    <3>2. /\ room' \in BOOLEAN /\ message' \in [Messages -> Kinds \union {"none", "gone"}]
          /\ \A m \in Messages : message[m] # "none" => message'[m] # "none"
          /\ ~room' => \A m \in Messages : message'[m] # "room"
      BY <1>1, <2>4 DEF TypeOK, RoomMessages
    <3>3. loose \in SUBSET Files /\ w.files \subseteq loose
      BY <1>1 DEF FilesOf
    <3>4. ASSUME NEW f \in Files \ loose, NEW k \in Kinds, binding[k][f] # NoMessage
          PROVE  message'[binding[k][f]] = message[binding[k][f]]
      <4>1. binding[k][f] \in Messages /\ binding[k][f] \notin RoomMessages
        BY <1>1, <1>2, <3>4 DEF TypeOK
      <4>. QED  BY <2>4, <4>1
    <3>5. ASSUME ~disturbed
          PROVE  /\ Removed(w) = w.files
                 /\ \A f \in loose : row[f] \in Kinds => f \in w.files
                 /\ \A f \in Files : row[f] = "room" => f \in w.files
      <4>1. /\ w.todo = {} /\ w.files = {f \in Files : row[f] = "room"}
        BY <2>1, <2>2, <3>5 DEF Current
      <4>2. \A m \in RoomMessages : \A f \in FilesOf(m) : row[f] = "room"
        BY <1>1 DEF BindInv, FilesOf, BoundTo, RoomMessages
      <4>3. Removed(w) = w.files
        BY <2>1, <4>1 DEF Removed, RemovedAt
      <4>. QED  BY <4>1, <4>2, <4>3 DEF FilesOf
    <3>. HIDE DEF loose
    <3>. QED  BY <1>1, <2>1, <2>4, <3>1, <3>2, <3>3, <3>4, <3>5, DeletionsEnd
  <2>. QED  BY <1>5, <2>3, <2>4 DEF CloseCommit
<1>. QED  BY <1>3, <1>4, <1>5

-----------------------------------------------------------------------------
(* The theorems.                                                           *)

LEMMA InitKeeps == Init => IInv
<1>. SUFFICES ASSUME Init PROVE IInv
  OBVIOUS
<1>1. TypeOK
  BY IdleTyped DEF Init, TypeOK, Work, Kinds
<1>2. BindInv
  BY DEF Init, BindInv
<1>3. \A s \in Slots : work[s] = Idle
  BY DEF Init
<1>4. LockInv /\ HoldsInv
  BY <1>3, IdleTyped DEF LockInv, HoldsInv, Deleting
<1>5. \A f \in Files : row[f] = "none" /\ f \notin object
  BY DEF Init
<1>6. StoreInv /\ SerialInv
  BY <1>3, <1>5, IdleTyped
     DEF StoreInv, SerialInv, Live, Kinds, Current, Removed, RemovedAt, Added
<1>. QED  BY <1>1, <1>2, <1>4, <1>6 DEF IInv

LEMMA NextKeeps == IInv /\ [Next]_vars => IInv'
<1>. SUFFICES ASSUME IInv, [Next]_vars PROVE IInv'
  OBVIOUS
<1>1. CASE UNCHANGED vars
  BY <1>1 DEF vars, history, IInv, TypeOK, BindInv, LockInv, HoldsInv, StoreInv, SerialInv,
              Current, Live, BeingDeleted, FilesOf, BoundTo, RoomMessages, Removed, RemovedAt, Added
<1>2. ASSUME NEW s \in Slots, Abort(s) PROVE IInv'
  BY <1>2, RollBackKeeps DEF Abort
<1>. QED  BY <1>1, <1>2, BeginsKeep, MovesKeep, UploadsEnd, PostsEnd, CommitsKeep DEF Next

\* The invariant the theorems rest on.
THEOREM AttachmentsInvariant == Spec => []IInv
BY InitKeeps, NextKeeps, PTL DEF Spec

\* Every variable keeps its type, and no room message outlives the room.
THEOREM AttachmentsTypeCorrect == Spec => []TypeOK
<1>1. IInv => TypeOK
  BY DEF IInv
<1>. QED  BY <1>1, AttachmentsInvariant, PTL

\* SCHEMA.md:1014-1015, however posts, discards, erasures and the deletion of
\* the room overlap, fail and roll back: an attachment is bound to at most one
\* message, of the kind its binding type names.
THEOREM SingleBindingHolds == Spec => []SingleBinding
<1>1. ASSUME IInv, NEW f \in Files PROVE Cardinality(BoundTo(f)) <= 1
  <2>1. BoundTo(f) = {} \/ \E m \in Messages : BoundTo(f) = {m}
    BY <1>1 DEF IInv, TypeOK, BindInv, BoundTo, Kinds
  <2>. QED  BY <2>1, FS_EmptySet, FS_Singleton
<1>2. IInv => SingleBinding
  BY <1>1 DEF IInv, BindInv, SingleBinding
<1>. QED  BY <1>2, AttachmentsInvariant, PTL

\* Every committed row has its object unless a rolled-back deletion removed it;
\* and until requests overlap or die the store holds nothing else.
THEOREM StoreMatchesRowsHolds == Spec => []StoreMatchesRows
<1>1. IInv => StoreMatchesRows
  BY DEF IInv, StoreInv, SerialInv, StoreMatchesRows, Removed, RemovedAt, Added
<1>. QED  BY <1>1, AttachmentsInvariant, PTL

\* No single request takes an attachment away from a message that stays.
THEOREM OnlyARaceTakesAttachmentsHolds == Spec => OnlyARaceTakesAttachments
<1>1. ASSUME IInv, Next, TakenFromMessage, ~disturbed PROVE FALSE
  <2>1. PICK f \in Files :
          row[f] \in Kinds /\ row'[f] = "gone" /\ \E m \in BoundTo(f) : message'[m] # "gone"
    BY <1>1 DEF TakenFromMessage
  <2>2. PICK m \in BoundTo(f) : message'[m] # "gone"
    BY <2>1
  <2>3. /\ m \in Messages /\ message[m] = row[f] /\ BoundTo(f) = {m}
        /\ row[f] # "gone" /\ row[f] # "unbound"
    BY <1>1, <2>1, <2>2 DEF IInv, TypeOK, BindInv, BoundTo, Kinds
  <2>4. ASSUME NEW s \in Slots, row' = RowsGone(work[s].files), work[s].stage # "idle"
        PROVE  f \in work[s].files /\ Current(work[s])
    BY <1>1, <2>1, <2>3, <2>4, SerialAlone DEF RowsGone
  <2>5. ASSUME NEW s \in Slots, DiscardCommit(s) PROVE FALSE
    <3>1. row' = RowsGone(work[s].files) /\ work[s].stage = "deleting"
      BY <2>1, <2>3, <2>5 DEF DiscardCommit, End, RollBack, database
    <3>. QED  BY <2>3, <2>4, <3>1 DEF Current
  <2>6. ASSUME NEW s \in Slots, EraseCommit(s) PROVE FALSE
    <3>1. /\ row' = RowsGone(work[s].files) /\ work[s].stage = "purging"
          /\ message' = [message EXCEPT ![work[s].msg] = "gone"]
      BY <2>6 DEF EraseCommit, End
    <3>2. work[s].msg = m
      BY <2>3, <2>4, <3>1 DEF Current
    <3>. QED  BY <1>1, <2>2, <2>3, <3>1, <3>2 DEF IInv, TypeOK
  <2>7. ASSUME NEW s \in Slots, CloseCommit(s) PROVE FALSE
    <3>1. /\ row' = RowsGone(work[s].files) /\ work[s].stage = "collected"
          /\ message' = [q \in Messages |-> IF q \in RoomMessages THEN "gone" ELSE message[q]]
      BY <2>1, <2>3, <2>7 DEF CloseCommit, End, RollBack, database
    <3>2. row[f] = "room"
      BY <2>4, <3>1 DEF Current
    <3>. QED  BY <2>2, <2>3, <3>1, <3>2 DEF RoomMessages
  <2>8. ASSUME NEW s \in Slots, UploadInsert(s) \/ \E q \in Messages : PostCommit(s, q) PROVE FALSE
    <3>1. work[s].kind \in Kinds
      BY <1>1 DEF IInv, TypeOK
    <3>2. row'[f] = row[f] \/ row'[f] \in {"unbound", work[s].kind}
      BY <2>8 DEF UploadInsert, PostCommit, database
    <3>. QED  BY <2>1, <2>3, <3>1, <3>2 DEF Kinds
  <2>9. row' # row
    BY <2>1, <2>3
  <2>. QED
    BY <1>1, <2>5, <2>6, <2>7, <2>8, <2>9
       DEF Next, UploadPut, UploadFails, PostStart, DiscardStart, DiscardBindings, DiscardDelete,
           EraseStart, EraseDelete, Purge, CloseStart, CloseDelete, CloseCollect, Abort, RollBack,
           database
<1>2. IInv /\ [Next]_vars => [TakenFromMessage => disturbed]_vars
  BY <1>1
<1>. QED  BY <1>2, AttachmentsInvariant, PTL DEF Spec, OnlyARaceTakesAttachments
=============================================================================
