----------------------- MODULE AttachmentStorageProofs -----------------------
(***************************************************************************)
(* Proofs about AttachmentStorage for any files, sizes, chunks and number  *)
(* of kills, truncated uploads and errors of the store.                    *)
(***************************************************************************)
EXTENDS AttachmentStorage, TLAPS

-----------------------------------------------------------------------------
(* The inductive invariant.                                                *)

RunRecords == [todo : SUBSET Files, file : Files \union {NoFile},
               step : {"idle", "next", "look", "open", "put", "size", "drop"},
               source : BOOLEAN]

Downloads == [step : {"idle", "object", "legacy", "stream", "done"},
              file : Files \union {NoFile}, asked : SUBSET Bytes, at : 0 .. Size,
              due : 0 .. Size, length : 0 .. Size, got : SUBSET Bytes]

\* A run that copies a file has found it whole, with its source in place.
RunOK(r) ==
  /\ r.step \in {"look", "open", "put", "size", "drop"} => r.file \in Files
  /\ r.step \in {"idle", "next"} => r.file = NoFile
  /\ r.step \in {"open", "put", "size", "drop"} => r.source
  /\ r.step \in {"put", "size", "drop"} => arrived[r.file] = "whole"

RunInv == \A b \in Runs : RunOK(backfill[b])

\* The run r has made the object of f and not yet found it whole.
Checking(r, f) == r.file = f /\ r.step \in {"size", "drop"}

\* Only whole files are copied, and a truncated copy that no run checks any more
\* is one that could not be removed.
CopyInv ==
  \A f \in Files :
    /\ legacy[f] \in {arrived[f], "none"}
    /\ object[f] # "none" => arrived[f] = "whole"
    /\ f \in row /\ object[f] = "short" /\ (\A b \in Runs : ~Checking(backfill[b], f)) =>
         fate[f] \in {"left", "undone"}

\* A local file that was lost, though its deletion was not undone: the container
\* was stopped in the deletion while a truncated object waited for its removal.
LostInv ==
  \A f \in row :
    legacy[f] # arrived[f] /\ deleting[f] # "both" /\ fate[f] # "undone" =>
      fate[f] = "left" /\ \A b \in Runs : backfill[b].file = f => ~backfill[b].source

\* What was asked for is what was sent and what remains.
RangeOK(d) ==
  /\ d.at + d.due <= Size
  /\ d.asked = d.got \union (d.at .. d.at + d.due - 1)
  /\ d.step = "done" => d.due = 0 \/ d.length <= d.at

IInv == TypeOK /\ RunInv /\ CopyInv /\ LostInv /\ RangeOK(download)

-----------------------------------------------------------------------------
(* Records.                                                                *)

LEMMA PendingIs ==
  ASSUME NEW f \in Files
  PROVE  f \in Pending <=> object[f] = "short" /\ \E b \in Runs : Checking(backfill[b], f)
BY DEF Pending, Checking

LEMMA RestingIs ==
  /\ Resting \in RunRecords /\ RunOK(Resting) /\ Resting.file = NoFile /\ ~Resting.source
  /\ Resting.step = "idle" /\ Resting.todo = {}
BY DEF Resting, RunRecords, RunOK

LEMMA NotDownloadingIs ==
  /\ NotDownloading \in Downloads /\ RangeOK(NotDownloading) /\ NotDownloading.step = "idle"
<1>1. /\ NotDownloading.step = "idle" /\ NotDownloading.file = NoFile
      /\ NotDownloading.asked = {} /\ NotDownloading.at = 0 /\ NotDownloading.due = 0
      /\ NotDownloading.length = 0 /\ NotDownloading.got = {}
  BY DEF NotDownloading
<1>2. 0 \in 0 .. Size /\ 0 .. 0 + 0 - 1 = {}
  BY SizeAssumption
<1>3. NotDownloading \in Downloads
  BY <1>2 DEF NotDownloading, Downloads
<1>4. RangeOK(NotDownloading)
  BY <1>1, <1>2 DEF RangeOK
<1>. QED  BY <1>1, <1>3, <1>4

LEMMA RunTyped ==
  ASSUME IInv, NEW b \in Runs
  PROVE  /\ backfill \in [Runs -> RunRecords] /\ backfill[b] \in RunRecords
         /\ RunOK(backfill[b])
BY DEF IInv, TypeOK, RunInv, RunRecords

LEMMA ContinueIs ==
  ASSUME IInv, NEW b \in Runs,
         NEW x \in {"idle", "next", "look", "open", "put", "size", "drop"}, Continue(b, x)
  PROVE  \E r \in RunRecords : /\ backfill' = [backfill EXCEPT ![b] = r]
                               /\ r.step = x /\ r.file = backfill[b].file
                               /\ r.source = backfill[b].source
<1>. DEFINE r == [backfill[b] EXCEPT !.step = x]
<1>1. backfill[b] \in RunRecords /\ backfill \in [Runs -> RunRecords]
  BY RunTyped
<1>2. r \in RunRecords /\ r.step = x /\ r.file = backfill[b].file /\ r.source = backfill[b].source
  BY <1>1 DEF RunRecords
<1>3. backfill' = [backfill EXCEPT ![b] = r]
  BY <1>1 DEF Continue
<1>. QED  BY <1>2, <1>3

LEMMA SkipIs ==
  ASSUME IInv, NEW b \in Runs, Skip(b) \/ Quit(b)
  PROVE  \E r \in RunRecords : /\ backfill' = [backfill EXCEPT ![b] = r]
                               /\ r.step \in {"idle", "next"} /\ r.file = NoFile /\ ~r.source
<1>1. backfill[b] \in RunRecords /\ backfill \in [Runs -> RunRecords]
  BY RunTyped
<1>2. CASE Quit(b)
  BY <1>2, RestingIs DEF Quit
<1>3. CASE Skip(b)
  <2>. DEFINE r == [backfill[b] EXCEPT !.step = "next", !.file = NoFile, !.source = FALSE]
  <2>1. r \in RunRecords /\ r.step = "next" /\ r.file = NoFile /\ ~r.source
    BY <1>1 DEF RunRecords
  <2>2. backfill' = [backfill EXCEPT ![b] = r]
    BY <1>1, <1>3 DEF Skip, RunRecords
  <2>. QED  BY <2>1, <2>2
<1>. QED  BY <1>2, <1>3

-----------------------------------------------------------------------------
(* The backfill.                                                           *)

\* A run goes on and changes nothing but itself.
LEMMA QuietRunKeeps ==
  ASSUME IInv, UNCHANGED <<files, download, history>>,
         faults' \in 0 .. MaxFaults, phase' \in {"starting", "serving"},
         phase' = "starting" => phase = "starting",
         NEW b \in Runs, NEW r \in RunRecords, backfill' = [backfill EXCEPT ![b] = r],
         RunOK(r), backfill[b].step \notin {"size", "drop"}, r.step \notin {"size", "drop"},
         r.source /\ r.file \in Files =>
           \/ r.file = backfill[b].file /\ backfill[b].source
           \/ legacy[r.file] # "none"
  PROVE  IInv'
<1>1. /\ backfill' \in [Runs -> RunRecords]
      /\ \A c \in Runs : backfill'[c] = IF c = b THEN r ELSE backfill[c]
  BY RunTyped
<1>2. UNCHANGED <<row, object, legacy, deleting, download, onStartup, arrived, fate>>
  BY DEF files, history, given
<1>3. TypeOK'
  BY <1>1, <1>2 DEF IInv, TypeOK, RunRecords
<1>4. RunInv'
  <2>1. \A q : RunOK(q)' <=> RunOK(q)
    BY <1>2 DEF RunOK
  <2>. QED  BY <1>1, <1>2 DEF IInv, RunInv, RunOK
<1>5. CopyInv'
  <2>1. \A f \in Files, c \in Runs : Checking(backfill[c], f)' <=> Checking(backfill[c], f)
    BY <1>1 DEF Checking
  <2>. QED  BY <1>2, <2>1 DEF IInv, CopyInv
<1>6. LostInv'
  <2>1. row \subseteq Files
    BY DEF IInv, TypeOK
  <2>2. \A f \in Files : legacy[f] # "none" => legacy[f] = arrived[f]
    BY DEF IInv, CopyInv
  <2>. QED  BY <1>1, <1>2, <2>1, <2>2 DEF IInv, LostInv
<1>. QED  BY <1>2, <1>3, <1>4, <1>5, <1>6 DEF IInv, RangeOK

LEMMA BeginKeeps == ASSUME IInv, NEW b \in Runs, Begin(b) PROVE IInv'
<1>. DEFINE r == [Resting EXCEPT !.todo = row, !.step = "next"]
<1>1. r.step = "next" /\ r.file = NoFile /\ ~r.source /\ backfill' = [backfill EXCEPT ![b] = r]
  BY DEF Begin, Resting
<1>2. r \in RunRecords
  BY RestingIs DEF RunRecords, IInv, TypeOK
<1>. HIDE DEF r
<1>3. RunOK(r)
  BY <1>1 DEF RunOK
<1>4. /\ UNCHANGED <<files, download, history, phase, faults>> /\ backfill[b].step = "idle"
      /\ faults \in 0 .. MaxFaults /\ phase \in {"starting", "serving"}
  BY DEF Begin, IInv, TypeOK
<1>. QED  BY <1>1, <1>2, <1>3, <1>4, QuietRunKeeps

LEMMA ServeKeeps == ASSUME IInv, ServeUnmoved PROVE IInv'
<1>1. /\ UNCHANGED <<row, object, legacy, deleting, backfill, faults, download, onStartup, arrived, fate>>
      /\ phase' = "serving"
  BY DEF ServeUnmoved, files, history, given
<1>2. TypeOK'
  BY <1>1 DEF IInv, TypeOK
<1>3. RunInv' /\ CopyInv' /\ LostInv'
  BY <1>1 DEF IInv, RunInv, RunOK, CopyInv, Checking, LostInv
<1>. QED  BY <1>1, <1>2, <1>3 DEF IInv, RangeOK

LEMMA TakeKeeps == ASSUME IInv, NEW b \in Runs, Take(b) PROVE IInv'
<1>1. PICK f \in backfill[b].todo :
        backfill' = [backfill EXCEPT ![b] = [todo |-> backfill[b].todo \ {f}, file |-> f,
                                             step |-> "look", source |-> legacy[f] # "none"]]
  BY RunTyped DEF Take
<1>. DEFINE r == [todo |-> backfill[b].todo \ {f}, file |-> f, step |-> "look",
                  source |-> legacy[f] # "none"]
<1>2. f \in Files /\ backfill[b].todo \in SUBSET Files
  BY RunTyped DEF RunRecords
<1>3. r \in RunRecords /\ r.step = "look" /\ r.file = f /\ r.source = (legacy[f] # "none")
  BY <1>2 DEF RunRecords
<1>. HIDE DEF r
<1>4. RunOK(r)
  BY <1>2, <1>3 DEF RunOK
<1>5. /\ UNCHANGED <<files, download, history, phase, faults>> /\ backfill[b].step = "next"
      /\ faults \in 0 .. MaxFaults /\ phase \in {"starting", "serving"}
  BY DEF Take, IInv, TypeOK
<1>. QED  BY <1>1, <1>3, <1>4, <1>5, QuietRunKeeps DEF r

\* A run that goes on with its file, or leaves it.
LEMMA LookOpenEndKeep ==
  ASSUME IInv, NEW b \in Runs, Look(b) \/ Open(b) \/ End(b) PROVE IInv'
<1>1. /\ UNCHANGED <<files, download, history>> /\ faults' \in 0 .. MaxFaults
      /\ phase' \in {"starting", "serving"} /\ (phase' = "starting" => phase = "starting")
      /\ backfill[b].step \in {"look", "open", "next"}
  BY FaultAssumption DEF Look, Open, End, Fault, IInv, TypeOK
<1>2. CASE Skip(b) \/ Quit(b)
  <2>1. PICK r \in RunRecords : /\ backfill' = [backfill EXCEPT ![b] = r]
                                /\ r.step \in {"idle", "next"} /\ r.file = NoFile /\ ~r.source
    BY <1>2, SkipIs
  <2>2. RunOK(r)
    BY <2>1 DEF RunOK
  <2>. QED  BY <1>1, <2>1, <2>2, QuietRunKeeps
<1>3. CASE Look(b) /\ Continue(b, "open") /\ backfill[b].source
  <2>1. PICK r \in RunRecords : /\ backfill' = [backfill EXCEPT ![b] = r] /\ r.step = "open"
                                /\ r.file = backfill[b].file /\ r.source = backfill[b].source
    BY <1>3, ContinueIs
  <2>2. r.file \in Files
    BY <1>3, <2>1, RunTyped DEF Look, RunOK
  <2>3. RunOK(r)
    BY <1>3, <2>1, <2>2 DEF RunOK
  <2>. QED  BY <1>1, <1>3, <2>1, <2>3, QuietRunKeeps
<1>4. CASE Open(b) /\ Continue(b, "put") /\ legacy[backfill[b].file] = "whole"
  <2>1. PICK r \in RunRecords : /\ backfill' = [backfill EXCEPT ![b] = r] /\ r.step = "put"
                                /\ r.file = backfill[b].file /\ r.source = backfill[b].source
    BY <1>4, ContinueIs
  <2>2. r.file \in Files /\ r.source
    BY <1>4, <2>1, RunTyped DEF Open, RunOK
  <2>3. arrived[r.file] = "whole"
    BY <1>4, <2>1, <2>2 DEF IInv, CopyInv
  <2>4. RunOK(r)
    BY <2>1, <2>2, <2>3 DEF RunOK
  <2>. QED  BY <1>1, <2>1, <2>2, <2>4, QuietRunKeeps
<1>5. Look(b) => Skip(b) \/ Quit(b) \/ (Continue(b, "open") /\ backfill[b].source)
  BY DEF Look
<1>6. Open(b) => Skip(b) \/ Quit(b) \/ (Continue(b, "put") /\ legacy[backfill[b].file] = "whole")
  BY DEF Open
<1>7. End(b) => Quit(b)
  BY DEF End
<1>. QED  BY <1>2, <1>3, <1>4, <1>5, <1>6, <1>7

\* A run makes, checks or removes the object of its file.  If it leaves a
\* truncated object, either another run still checks it or that it was left is
\* on record.
LEMMA CopyKeeps ==
  ASSUME IInv, UNCHANGED <<row, legacy, deleting, phase, download, onStartup, arrived>>,
         faults' \in 0 .. MaxFaults,
         NEW b \in Runs, backfill[b].step \in {"put", "size", "drop"},
         NEW f, f = backfill[b].file,
         NEW r \in RunRecords, backfill' = [backfill EXCEPT ![b] = r],
         \/ r.step \in {"size", "drop"} /\ r.file = f /\ r.source
         \/ r.step \in {"idle", "next"} /\ r.file = NoFile /\ ~r.source,
         NEW v \in Copies, object' = [object EXCEPT ![f] = v],
         NEW w \in Fates, fate' = [fate EXCEPT ![f] = w],
         fate[f] = "undone" => w = "undone",
         f \in row /\ v = "short" => \/ r.step \in {"size", "drop"}
                                    \/ w \in {"left", "undone"}
                                    \/ \E c \in Runs \ {b} : Checking(backfill[c], f)
  PROVE  IInv'
<1>1. /\ f \in Files /\ arrived[f] = "whole" /\ backfill[b].source /\ f # NoFile
      /\ backfill' \in [Runs -> RunRecords]
      /\ \A c \in Runs : backfill'[c] = IF c = b THEN r ELSE backfill[c]
  BY RunTyped, FileAssumption DEF RunOK
<1>2. /\ object' \in [Files -> Copies] /\ fate' \in [Files -> Fates] /\ row \subseteq Files
      /\ \A g \in Files : /\ object'[g] = IF g = f THEN v ELSE object[g]
                          /\ fate'[g] = IF g = f THEN w ELSE fate[g]
  BY <1>1 DEF IInv, TypeOK
<1>3. TypeOK'
  BY <1>1, <1>2 DEF IInv, TypeOK, RunRecords
<1>4. RunInv'
  <2>1. RunOK(r)
    BY <1>1 DEF RunOK
  <2>. QED  BY <1>1, <2>1 DEF IInv, RunInv, RunOK
<1>5. CopyInv'
  <2>1. SUFFICES ASSUME NEW g \in Files
                 PROVE  /\ legacy[g] \in {arrived[g], "none"}
                        /\ object'[g] # "none" => arrived[g] = "whole"
                        /\ g \in row /\ object'[g] = "short" /\
                             (\A c \in Runs : ~Checking(backfill'[c], g)) =>
                             fate'[g] \in {"left", "undone"}
    BY DEF CopyInv, Checking
  <2>2. CASE g = f
    <3>1. \A c \in Runs \ {b} : Checking(backfill'[c], f) <=> Checking(backfill[c], f)
      BY <1>1
    <3>2. r.step \in {"size", "drop"} => Checking(backfill'[b], f)
      BY <1>1 DEF Checking
    <3>. QED  BY <1>1, <1>2, <2>2, <3>1, <3>2 DEF IInv, CopyInv
  <2>3. CASE g # f
    <3>1. \A c \in Runs : Checking(backfill'[c], g) <=> Checking(backfill[c], g)
      BY <1>1, <2>3, FileAssumption DEF Checking
    <3>. QED  BY <1>2, <2>3, <3>1 DEF IInv, CopyInv
  <2>. QED  BY <2>2, <2>3
<1>6. LostInv'
  <2>1. SUFFICES ASSUME NEW g \in row, legacy[g] # arrived[g], deleting[g] # "both",
                        fate'[g] # "undone"
                 PROVE  fate'[g] = "left" /\ \A c \in Runs : backfill'[c].file = g => ~backfill'[c].source
    BY DEF LostInv
  <2>2. fate[g] # "undone"
    BY <1>2, <2>1
  <2>3. fate[g] = "left" /\ \A c \in Runs : backfill[c].file = g => ~backfill[c].source
    BY <2>1, <2>2 DEF IInv, LostInv
  <2>4. g # f
    BY <1>1, <2>3
  <2>. QED  BY <1>1, <1>2, <2>3, <2>4, FileAssumption
<1>. QED  BY <1>3, <1>4, <1>5, <1>6 DEF IInv, RangeOK

\* What Befalls records.
Worse(f, what) == IF fate[f] = "undone" THEN "undone" ELSE what

LEMMA CopyingIs ==
  ASSUME IInv, NEW b \in Runs, backfill[b].step \in {"put", "size", "drop"}
  PROVE  /\ backfill[b].file \in Files /\ backfill[b].source
         /\ object[backfill[b].file] \in Copies /\ fate[backfill[b].file] \in Fates
         /\ object' = object => object' = [object EXCEPT ![backfill[b].file] = object[backfill[b].file]]
         /\ fate' = fate => fate' = [fate EXCEPT ![backfill[b].file] = fate[backfill[b].file]]
<1>1. backfill[b].file \in Files /\ backfill[b].source
  BY RunTyped DEF RunOK
<1>. QED  BY <1>1 DEF IInv, TypeOK

LEMMA PutKeeps == ASSUME IInv, NEW b \in Runs, Put(b) PROVE IInv'
<1>. DEFINE f == backfill[b].file
<1>1. /\ UNCHANGED <<row, legacy, deleting, phase, download, onStartup, arrived>>
      /\ faults' \in 0 .. MaxFaults /\ backfill[b].step = "put"
  BY FaultAssumption DEF Put, Fault, history, given, IInv, TypeOK
<1>2. f \in Files /\ backfill[b].source /\ object[f] \in Copies /\ fate[f] \in Fates
  BY <1>1, CopyingIs
<1>3. CASE \E v \in {"whole", "short"} : object' = [object EXCEPT ![f] = v] /\
             Continue(b, "size") /\ fate' = fate
  <2>1. PICK v \in Copies : object' = [object EXCEPT ![f] = v]
    BY <1>3 DEF Copies
  <2>2. PICK r \in RunRecords : /\ backfill' = [backfill EXCEPT ![b] = r] /\ r.step = "size"
                                /\ r.file = f /\ r.source = backfill[b].source
    BY <1>3, ContinueIs
  <2>3. fate' = [fate EXCEPT ![f] = fate[f]]
    BY <1>1, <1>3, CopyingIs
  <2>. HIDE DEF f
  <2>. QED  BY <1>1, <1>2, <2>1, <2>2, <2>3, CopyKeeps DEF f
<1>4. CASE /\ Skip(b) /\ object' = object
           /\ Befalls(f, IF fate[f] = "left" /\ object[f] = "short" THEN "left" ELSE "failed")
  <2>. DEFINE what == IF fate[f] = "left" /\ object[f] = "short" THEN "left" ELSE "failed"
  <2>1. PICK r \in RunRecords : /\ backfill' = [backfill EXCEPT ![b] = r]
                                /\ r.step \in {"idle", "next"} /\ r.file = NoFile /\ ~r.source
    BY <1>4, SkipIs
  <2>2. what \in Fates
    BY DEF Fates
  <2>3. Befalls(f, what)
    BY <1>4
  <2>. DEFINE w == Worse(f, what)
  <2>4. /\ w \in Fates /\ fate' = [fate EXCEPT ![f] = w] /\ (fate[f] = "undone" => w = "undone")
        /\ w \in {what, "undone"}
    <3>. HIDE DEF f, what
    <3>. QED  BY <1>2, <2>2, <2>3 DEF Befalls, Worse, Fates, IInv, TypeOK
  <2>5. object' = [object EXCEPT ![f] = object[f]]
    BY <1>1, <1>4, CopyingIs
  <2>6. ASSUME f \in row, object[f] = "short"
        PROVE  w \in {"left", "undone"} \/ \E c \in Runs \ {b} : Checking(backfill[c], f)
    <3>1. CASE f \in row /\ \A c \in Runs : ~Checking(backfill[c], f)
      <4>1. fate[f] \in {"left", "undone"}
        BY <1>2, <2>6, <3>1 DEF IInv, CopyInv
      <4>. QED  BY <2>4, <2>6, <4>1
    <3>2. CASE \E c \in Runs : Checking(backfill[c], f)
      BY <1>1, <3>2 DEF Checking
    <3>. QED  BY <2>6, <3>1, <3>2
  <2>. HIDE DEF f, what, w
  <2>. QED  BY <1>1, <1>2, <2>1, <2>4, <2>5, <2>6, CopyKeeps DEF f
<1>. QED  BY <1>3, <1>4 DEF Put, history, given

LEMMA MeasureKeeps == ASSUME IInv, NEW b \in Runs, Measure(b) PROVE IInv'
<1>. DEFINE f == backfill[b].file
<1>1. /\ UNCHANGED <<row, legacy, deleting, phase, download, onStartup, arrived>>
      /\ faults' \in 0 .. MaxFaults /\ backfill[b].step = "size"
  BY FaultAssumption DEF Measure, Fault, files, history, given, IInv, TypeOK
<1>2. /\ f \in Files /\ backfill[b].source /\ fate[f] \in Fates
      /\ fate' = fate => fate' = [fate EXCEPT ![f] = fate[f]]
  BY <1>1, CopyingIs
<1>3. PICK v \in Copies : v = object[f] /\ object' = [object EXCEPT ![f] = v]
  BY <1>1, CopyingIs DEF Measure, files
<1>4. CASE v = "short" /\ Continue(b, "drop") /\ fate' = fate
  <2>1. PICK r \in RunRecords : /\ backfill' = [backfill EXCEPT ![b] = r] /\ r.step = "drop"
                                /\ r.file = f /\ r.source = backfill[b].source
    BY <1>4, ContinueIs
  <2>2. PICK w \in Fates : w = fate[f] /\ fate' = [fate EXCEPT ![f] = w]
    BY <1>2, <1>4
  <2>. HIDE DEF f
  <2>3. /\ f = backfill[b].file /\ backfill[b].step \in {"put", "size", "drop"}
        /\ \/ r.step \in {"size", "drop"} /\ r.file = f /\ r.source
           \/ r.step \in {"idle", "next"} /\ r.file = NoFile /\ ~r.source
    BY <1>1, <1>2, <2>1 DEF f
  <2>4. f \in row /\ v = "short" => \/ r.step \in {"size", "drop"}
                                     \/ w \in {"left", "undone"}
                                     \/ \E c \in Runs \ {b} : Checking(backfill[c], f)
    BY <2>1
  <2>. QED  BY <1>1, <1>2, <1>3, <2>1, <2>2, <2>3, <2>4, CopyKeeps
<1>5. CASE v # "short" /\ Skip(b) /\ fate' = fate
  <2>1. PICK r \in RunRecords : /\ backfill' = [backfill EXCEPT ![b] = r]
                                /\ r.step \in {"idle", "next"} /\ r.file = NoFile /\ ~r.source
    BY <1>5, SkipIs
  <2>2. PICK w \in Fates : w = fate[f] /\ fate' = [fate EXCEPT ![f] = w]
    BY <1>2, <1>5
  <2>. HIDE DEF f
  <2>3. /\ f = backfill[b].file /\ backfill[b].step \in {"put", "size", "drop"}
        /\ \/ r.step \in {"size", "drop"} /\ r.file = f /\ r.source
           \/ r.step \in {"idle", "next"} /\ r.file = NoFile /\ ~r.source
    BY <1>1, <2>1 DEF f
  <2>4. f \in row /\ v = "short" => \/ r.step \in {"size", "drop"}
                                     \/ w \in {"left", "undone"}
                                     \/ \E c \in Runs \ {b} : Checking(backfill[c], f)
    BY <1>5
  <2>. QED  BY <1>1, <1>2, <1>3, <2>1, <2>2, <2>3, <2>4, CopyKeeps
<1>6. CASE Skip(b) /\ Befalls(f, IF v = "short" THEN "left" ELSE "failed")
  <2>. DEFINE what == IF v = "short" THEN "left" ELSE "failed"
  <2>1. PICK r \in RunRecords : /\ backfill' = [backfill EXCEPT ![b] = r]
                                /\ r.step \in {"idle", "next"} /\ r.file = NoFile /\ ~r.source
    BY <1>6, SkipIs
  <2>2. what \in Fates /\ (v = "short" => what = "left") /\ Befalls(f, what)
    BY <1>6 DEF Fates
  <2>. DEFINE w == Worse(f, what)
  <2>3. /\ w \in Fates /\ fate' = [fate EXCEPT ![f] = w] /\ (fate[f] = "undone" => w = "undone")
        /\ w \in {what, "undone"}
    <3>. HIDE DEF f, what
    <3>. QED  BY <1>2, <2>2 DEF Befalls, Worse, Fates, IInv, TypeOK
  <2>. HIDE DEF f, what, w
  <2>4. /\ f = backfill[b].file /\ backfill[b].step \in {"put", "size", "drop"}
        /\ \/ r.step \in {"size", "drop"} /\ r.file = f /\ r.source
           \/ r.step \in {"idle", "next"} /\ r.file = NoFile /\ ~r.source
    BY <1>1, <2>1 DEF f
  <2>5. f \in row /\ v = "short" => \/ r.step \in {"size", "drop"}
                                     \/ w \in {"left", "undone"}
                                     \/ \E c \in Runs \ {b} : Checking(backfill[c], f)
    BY <2>2, <2>3
  <2>. QED  BY <1>1, <1>2, <1>3, <2>1, <2>3, <2>4, <2>5, CopyKeeps
<1>. QED  BY <1>3, <1>4, <1>5, <1>6 DEF Measure, history, given

LEMMA DropKeeps == ASSUME IInv, NEW b \in Runs, Drop(b) PROVE IInv'
<1>. DEFINE f == backfill[b].file
<1>1. /\ UNCHANGED <<row, legacy, deleting, phase, download, onStartup, arrived>>
      /\ faults' \in 0 .. MaxFaults /\ backfill[b].step = "drop"
  BY FaultAssumption DEF Drop, Fault, given, IInv, TypeOK
<1>2. f \in Files /\ object[f] \in Copies
  BY <1>1, CopyingIs
<1>3. PICK r \in RunRecords : /\ backfill' = [backfill EXCEPT ![b] = r]
                              /\ r.step \in {"idle", "next"} /\ r.file = NoFile /\ ~r.source
  BY SkipIs DEF Drop
<1>4. PICK what \in {"failed", "left"}, v \in Copies :
        /\ object' = [object EXCEPT ![f] = v] /\ Befalls(f, what)
        /\ v = "short" => what = "left"
  <2>1. CASE object' = [object EXCEPT ![f] = "none"] /\ Befalls(f, "failed")
    BY <2>1 DEF Copies
  <2>2. CASE object' = object /\ Befalls(f, "left")
    <3>1. object' = [object EXCEPT ![f] = object[f]]
      BY <1>1, <2>2, CopyingIs
    <3>. QED  BY <1>2, <2>2, <3>1
  <2>. QED  BY <2>1, <2>2 DEF Drop
<1>. DEFINE w == Worse(f, what)
<1>5. /\ w \in Fates /\ fate' = [fate EXCEPT ![f] = w] /\ (fate[f] = "undone" => w = "undone")
      /\ w \in {what, "undone"}
  <2>. HIDE DEF f
  <2>. QED  BY <1>2, <1>4 DEF Befalls, Worse, Fates, IInv, TypeOK
<1>. HIDE DEF f, w
<1>6. /\ f = backfill[b].file /\ backfill[b].step \in {"put", "size", "drop"}
      /\ \/ r.step \in {"size", "drop"} /\ r.file = f /\ r.source
         \/ r.step \in {"idle", "next"} /\ r.file = NoFile /\ ~r.source
  BY <1>1, <1>3 DEF f
<1>7. f \in row /\ v = "short" => \/ r.step \in {"size", "drop"}
                                  \/ w \in {"left", "undone"}
                                  \/ \E c \in Runs \ {b} : Checking(backfill[c], f)
  BY <1>4, <1>5
<1>. QED  BY <1>1, <1>3, <1>4, <1>5, <1>6, <1>7, CopyKeeps

\* The container is stopped: what a run was checking is left as it is.
LEMMA RestartKeeps == IInv /\ Restart => IInv'
<1>. SUFFICES ASSUME IInv, Restart PROVE IInv'
  OBVIOUS
<1>1. /\ UNCHANGED <<row, object, legacy, onStartup, arrived>>
      /\ faults' \in 0 .. MaxFaults /\ phase' = "starting" /\ download' = NotDownloading
      /\ \A b \in Runs : backfill'[b] = Resting
      /\ \A f \in Files : deleting'[f] = "no"
      /\ \A f \in Files : fate'[f] = IF f \in Pending THEN "left"
                                      ELSE IF deleting[f] = "both" THEN "undone" ELSE fate[f]
  BY FaultAssumption DEF Restart, Fault, given, IInv, TypeOK
<1>2. TypeOK'
  <2>1. backfill' \in [Runs -> RunRecords]
    BY RestingIs DEF Restart
  <2>2. fate' \in [Files -> Fates] /\ deleting' \in [Files -> {"no", "object", "both"}]
    BY DEF Restart, Fates, IInv, TypeOK
  <2>3. download' \in Downloads
    BY <1>1, NotDownloadingIs
  <2>. QED  BY <1>1, <2>1, <2>2, <2>3 DEF IInv, TypeOK, RunRecords, Downloads
<1>3. RunInv'
  BY <1>1, RestingIs DEF RunInv, RunOK
<1>4. row \subseteq Files
  BY DEF IInv, TypeOK
<1>5. CopyInv'
  BY <1>1, <1>4, PendingIs DEF IInv, CopyInv
<1>6. LostInv'
  <2>1. ASSUME NEW f \in row, legacy[f] # arrived[f], fate'[f] # "undone" PROVE fate'[f] = "left"
    BY <1>1, <1>4, <2>1 DEF IInv, LostInv
  <2>2. \A b \in Runs : ~backfill'[b].source
    BY <1>1, RestingIs
  <2>. QED  BY <1>1, <2>1, <2>2 DEF LostInv
<1>7. RangeOK(download)'
  BY <1>1, NotDownloadingIs DEF RangeOK
<1>. QED  BY <1>2, <1>3, <1>5, <1>6, <1>7 DEF IInv

-----------------------------------------------------------------------------
(* Deletions.                                                              *)

LEMMA DeletionKeeps ==
  ASSUME IInv, NEW f \in Files, DeleteObject(f) \/ DeletionStep(f) PROVE IInv'
<1>1. /\ UNCHANGED <<backfill, phase, faults, download, onStartup, arrived>>
      /\ phase # "starting"
  <2>1. deleting[f] # "no" => phase # "starting"
    BY DEF IInv, TypeOK
  <2>. QED  BY <2>1 DEF DeleteObject, DeletionStep, DeleteLegacy, DeleteCommit, DeleteRollback, history, given
<1>2. /\ RunInv' /\ RangeOK(download)'
      /\ \A b \in Runs, g \in Files : Checking(backfill[b], g)' <=> Checking(backfill[b], g)
  BY <1>1 DEF IInv, RunInv, RunOK, RangeOK, Checking
<1>3. row \subseteq Files /\ object \in [Files -> Copies] /\ legacy \in [Files -> Copies]
  BY DEF IInv, TypeOK
<1>4. CASE DeleteObject(f)
  <2>1. /\ UNCHANGED <<row, legacy, fate>> /\ object' = [object EXCEPT ![f] = "none"]
        /\ deleting' = [deleting EXCEPT ![f] = "object"] /\ deleting[f] = "no"
    BY <1>4 DEF DeleteObject, history, given
  <2>2. TypeOK'
    BY <1>1, <2>1 DEF IInv, TypeOK, Copies
  <2>3. CopyInv'
    BY <1>1, <1>2, <1>3, <2>1 DEF IInv, CopyInv
  <2>4. LostInv'
    BY <1>1, <1>3, <2>1 DEF IInv, TypeOK, LostInv
  <2>. QED  BY <1>2, <2>2, <2>3, <2>4 DEF IInv
<1>5. CASE DeleteLegacy(f)
  <2>1. /\ UNCHANGED <<row, object, fate>> /\ legacy' = [legacy EXCEPT ![f] = "none"]
        /\ deleting' = [deleting EXCEPT ![f] = "both"]
    BY <1>5 DEF DeleteLegacy, history, given
  <2>2. TypeOK'
    BY <1>1, <2>1 DEF IInv, TypeOK, Copies
  <2>3. CopyInv'
    BY <1>1, <1>2, <1>3, <2>1 DEF IInv, CopyInv
  <2>4. LostInv'
    BY <1>1, <1>3, <2>1 DEF IInv, TypeOK, LostInv
  <2>. QED  BY <1>2, <2>2, <2>3, <2>4 DEF IInv
<1>6. CASE DeleteCommit(f)
  <2>1. /\ UNCHANGED <<object, legacy, fate>> /\ row' = row \ {f}
        /\ deleting' = [deleting EXCEPT ![f] = "no"]
    BY <1>6 DEF DeleteCommit, history, given
  <2>2. TypeOK'
    BY <1>1, <2>1 DEF IInv, TypeOK
  <2>3. CopyInv'
    BY <1>1, <1>2, <2>1 DEF IInv, CopyInv
  <2>4. LostInv'
    BY <1>1, <1>3, <2>1 DEF IInv, TypeOK, LostInv
  <2>. QED  BY <1>2, <2>2, <2>3, <2>4 DEF IInv
<1>7. CASE DeleteRollback(f)
  <2>1. /\ UNCHANGED <<row, object, legacy>>
        /\ deleting' = [deleting EXCEPT ![f] = "no"] /\ Befalls(f, "undone")
    BY <1>7 DEF DeleteRollback
  <2>2. fate' = [fate EXCEPT ![f] = "undone"] /\ fate \in [Files -> Fates]
    BY <2>1 DEF Befalls, IInv, TypeOK
  <2>3. TypeOK'
    BY <1>1, <2>1, <2>2 DEF IInv, TypeOK, Fates
  <2>4. CopyInv'
    BY <1>1, <1>2, <2>1, <2>2 DEF IInv, CopyInv
  <2>5. LostInv'
    BY <1>1, <1>3, <2>1, <2>2 DEF IInv, TypeOK, LostInv
  <2>. QED  BY <1>2, <2>3, <2>4, <2>5 DEF IInv
<1>. QED  BY <1>4, <1>5, <1>6, <1>7 DEF DeletionStep

-----------------------------------------------------------------------------
(* Downloads.                                                              *)

LEMMA DownloadKeeps ==
  ASSUME IInv, UNCHANGED <<files, backfill, phase, faults, history>>, phase # "starting",
         download' \in Downloads, RangeOK(download')
  PROVE  IInv'
<1>1. UNCHANGED <<row, object, legacy, deleting, backfill, phase, faults, onStartup, arrived, fate>>
  BY DEF files, history, given
<1>2. TypeOK'
  BY <1>1 DEF IInv, TypeOK, Downloads
<1>3. RunInv' /\ CopyInv' /\ LostInv'
  BY <1>1 DEF IInv, RunInv, RunOK, CopyInv, Checking, LostInv
<1>. QED  BY <1>2, <1>3 DEF IInv, RangeOK

LEMMA Serving ==
  ASSUME IInv, download.step # "idle" PROVE phase # "starting"
BY NotDownloadingIs DEF IInv, TypeOK

\* _parse_single_range_header finds the bytes that the header asks for.
LEMMA ParsedIsWanted ==
  ASSUME NEW h \in Headers, ~Unsatisfiable(h)
  PROVE  /\ Parsed(h)[1] \in 0 .. Size /\ Parsed(h)[2] - Parsed(h)[1] + 1 \in 0 .. Size
         /\ Parsed(h)[2] - Parsed(h)[1] + 1 + Parsed(h)[1] <= Size
         /\ Wanted(h) = Parsed(h)[1] .. Parsed(h)[2]
         /\ Parsed(h)[2] = Parsed(h)[1] + (Parsed(h)[2] - Parsed(h)[1] + 1) - 1
         /\ Wanted(h) \in SUBSET Bytes
<1>1. Size \in Nat /\ Size > 0
  BY SizeAssumption
<1>2. h.first \in Nat /\ h.last \in Nat /\ h.form \in {"none", "closed", "open", "suffix"}
  BY <1>1 DEF Headers, NoHeader
<1>3. CASE h.form = "suffix" /\ h.last > 0
  <2>1. Parsed(h) = <<IF h.last >= Size THEN 0 ELSE Size - h.last, Size - 1>>
    BY <1>3 DEF Parsed
  <2>2. Wanted(h) = {i \in Bytes : i + h.last >= Size}
    BY <1>3 DEF Wanted
  <2>. QED  BY <1>1, <1>2, <1>3, <2>1, <2>2 DEF Bytes
<1>4. CASE h.form = "open"
  <2>1. Parsed(h) = <<h.first, Size - 1>> /\ h.first < Size
    BY <1>1, <1>2, <1>4 DEF Parsed, Unsatisfiable
  <2>2. Wanted(h) = {i \in Bytes : h.first <= i}
    BY <1>4 DEF Wanted
  <2>. QED  BY <1>1, <1>2, <2>1, <2>2 DEF Bytes
<1>5. CASE h.form = "closed" /\ h.first <= h.last
  <2>1. Parsed(h) = <<h.first, Least(h.last, Size - 1)>> /\ h.first < Size
    BY <1>1, <1>2, <1>5 DEF Parsed, Unsatisfiable
  <2>2. Wanted(h) = {i \in Bytes : h.first <= i /\ i <= h.last}
    BY <1>5 DEF Wanted
  <2>. QED  BY <1>1, <1>2, <1>5, <2>1, <2>2 DEF Bytes, Least
<1>6. CASE /\ ~(h.form = "suffix" /\ h.last > 0) /\ h.form # "open"
           /\ ~(h.form = "closed" /\ h.first <= h.last)
  <2>1. Parsed(h) = <<0, Size - 1>> /\ Wanted(h) = Bytes
    BY <1>6 DEF Parsed, Wanted
  <2>. QED  BY <1>1, <2>1 DEF Bytes
<1>. QED  BY <1>3, <1>4, <1>5, <1>6

LEMMA RequestKeeps ==
  ASSUME IInv, NEW f \in Files, NEW h \in Headers, Request(f, h) PROVE IInv'
<1>. DEFINE from == Parsed(h)[1]
            due == Parsed(h)[2] - Parsed(h)[1] + 1
            d == [NotDownloading EXCEPT !.step = "object", !.file = f, !.asked = Wanted(h),
                     !.at = from, !.due = due]
<1>1. /\ d.step = "object" /\ d.asked = Wanted(h) /\ d.at = from /\ d.due = due /\ d.got = {}
      /\ download' = d
  BY DEF NotDownloading, Request
<1>2. /\ from \in 0 .. Size /\ due \in 0 .. Size /\ due + from <= Size
      /\ Wanted(h) = from .. Parsed(h)[2] /\ Wanted(h) \in SUBSET Bytes
  BY ParsedIsWanted DEF Request
<1>3. d \in Downloads
  BY <1>2, NotDownloadingIs DEF Downloads
<1>4. Parsed(h)[2] = from + due - 1
  BY ParsedIsWanted DEF Request
<1>. HIDE DEF d, from, due
<1>5. RangeOK(d)
  BY <1>1, <1>2, <1>4, SizeAssumption DEF RangeOK
<1>. QED  BY <1>1, <1>3, <1>5, DownloadKeeps DEF Request

LEMMA LengthIs == \A copy : LengthOf(copy) \in 0 .. Size
BY SizeAssumption DEF LengthOf

\* The store is opened, or was not found.
LEMMA OpenKeeps == IInv /\ (OpenObject \/ OpenLegacy) => IInv'
<1>. SUFFICES ASSUME IInv, OpenObject \/ OpenLegacy PROVE IInv'
  OBVIOUS
<1>1. /\ UNCHANGED <<files, backfill, phase, faults, history>> /\ phase # "starting"
      /\ download \in Downloads /\ RangeOK(download)
  BY Serving DEF OpenObject, OpenLegacy, IInv, TypeOK, Downloads
<1>2. CASE download' = NotDownloading
  BY <1>1, <1>2, NotDownloadingIs, DownloadKeeps
<1>3. CASE download' = [download EXCEPT !.step = "legacy"]
  <2>1. download' \in Downloads /\ RangeOK(download')
    BY <1>1, <1>3 DEF Downloads, RangeOK
  <2>. QED  BY <1>1, <2>1, DownloadKeeps
<1>4. ASSUME NEW n \in 0 .. Size,
             download' = [download EXCEPT !.step = "stream", !.file = NoFile, !.length = n]
      PROVE  IInv'
  <2>1. download' \in Downloads /\ RangeOK(download')
    BY <1>1, <1>4 DEF Downloads, RangeOK
  <2>. QED  BY <1>1, <2>1, DownloadKeeps
<1>. QED  BY <1>2, <1>3, <1>4, LengthIs DEF OpenObject, OpenLegacy, Opened

LEMMA StreamKeeps == IInv /\ Stream => IInv'
<1>. SUFFICES ASSUME IInv, Stream PROVE IInv'
  OBVIOUS
<1>1. /\ UNCHANGED <<files, backfill, phase, faults, history>> /\ phase # "starting"
      /\ download \in Downloads /\ RangeOK(download)
  BY Serving DEF Stream, IInv, TypeOK, Downloads
<1>. DEFINE at == download.at
            due == download.due
            length == download.length
<1>2. /\ at \in 0 .. Size /\ due \in 0 .. Size /\ length \in 0 .. Size /\ Size \in Nat
      /\ download.got \in SUBSET Bytes /\ download.asked \in SUBSET Bytes
  BY <1>1, SizeAssumption DEF Downloads
<1>3. CASE (due = 0 \/ length - at <= 0) /\ download' = [download EXCEPT !.step = "done"]
  <2>1. download' \in Downloads
    BY <1>1, <1>3 DEF Downloads
  <2>2. /\ download'.step = "done" /\ download'.at = at /\ download'.due = due
        /\ download'.asked = download.asked /\ download'.got = download.got
        /\ download'.length = length
    BY <1>1, <1>3 DEF Downloads
  <2>3. due = 0 \/ length <= at
    BY <1>2, <1>3
  <2>4. RangeOK(download')
    BY <1>1, <2>2, <2>3 DEF RangeOK
  <2>. QED  BY <1>1, <2>1, <2>4, DownloadKeeps
<1>4. ASSUME NEW n \in 1 .. Least(ReadSize, length - at), due > 0, length - at > 0,
             download' = [download EXCEPT !.at = at + n, !.got = download.got \union (at .. at + n - 1),
                            !.due = IF n < due THEN due - n ELSE 0]
      PROVE  IInv'
  <2>1. n \in Nat \ {0} /\ n <= due /\ n <= length - at
    BY <1>2, <1>4, SizeAssumption DEF Least, ReadSize
  <2>2. (IF n < due THEN due - n ELSE 0) = due - n
    BY <1>2, <2>1
  <2>3. /\ at + n \in 0 .. Size /\ due - n \in 0 .. Size
        /\ at .. at + n - 1 \in SUBSET Bytes
        /\ (at .. at + n - 1) \union (at + n .. at + n + (due - n) - 1) = at .. at + due - 1
    BY <1>2, <2>1 DEF Bytes
  <2>4. /\ download'.at = at + n /\ download'.due = due - n
        /\ download'.got = download.got \union (at .. at + n - 1)
        /\ download'.asked = download.asked /\ download'.step = download.step
        /\ download'.length = length
    BY <1>1, <1>4, <2>2 DEF Downloads
  <2>5. download' \in Downloads
    BY <1>1, <1>2, <1>4, <2>2, <2>3 DEF Downloads
  <2>6. download.step = "stream"
    BY DEF Stream
  <2>7. RangeOK(download')
    <3>1. at + due <= Size /\ download.asked = download.got \union (at .. at + due - 1)
      BY <1>1 DEF RangeOK
    <3>2. at + n + (due - n) <= Size
      BY <1>2, <2>1, <3>1
    <3>. HIDE DEF at, due, length
    <3>. QED  BY <2>3, <2>4, <2>6, <3>1, <3>2 DEF RangeOK
  <2>. QED  BY <1>1, <2>5, <2>7, DownloadKeeps
<1>. QED  BY <1>3, <1>4 DEF Stream

LEMMA CloseKeeps == IInv /\ Close => IInv'
<1>. SUFFICES ASSUME IInv, Close PROVE IInv'
  OBVIOUS
<1>1. phase # "starting"
  BY Serving DEF Close
<1>. QED  BY <1>1, NotDownloadingIs, DownloadKeeps DEF Close

-----------------------------------------------------------------------------
(* The theorems.                                                           *)

LEMMA InitIInv == Init => IInv
<1>. SUFFICES ASSUME Init PROVE IInv
  OBVIOUS
<1>1. \A b \in Runs : backfill[b] = Resting
  BY DEF Init
<1>2. TypeOK
  <2>1. backfill \in [Runs -> RunRecords]
    BY RestingIs DEF Init
  <2>2. download \in Downloads
    BY NotDownloadingIs DEF Init
  <2>3. object \in [Files -> Copies] /\ fate \in [Files -> Fates]
    BY DEF Init, Copies, Fates
  <2>4. faults \in 0 .. MaxFaults
    BY FaultAssumption DEF Init
  <2>. QED  BY <2>1, <2>2, <2>3, <2>4 DEF Init, TypeOK, RunRecords, Downloads
<1>3. RunInv
  BY <1>1, RestingIs DEF RunInv
<1>4. CopyInv /\ LostInv
  BY DEF Init, CopyInv, LostInv
<1>5. RangeOK(download)
  BY NotDownloadingIs DEF Init
<1>. QED  BY <1>2, <1>3, <1>4, <1>5 DEF IInv

LEMMA NextKeeps == IInv /\ [Next]_vars => IInv'
<1>. SUFFICES ASSUME IInv, [Next]_vars PROVE IInv'
  OBVIOUS
<1>1. ASSUME NEW b \in Runs, Begin(b) \/ BackfillStep(b) PROVE IInv'
  BY <1>1, BeginKeeps, TakeKeeps, LookOpenEndKeep, PutKeeps, MeasureKeeps, DropKeeps
     DEF BackfillStep
<1>2. CASE Restart
  BY <1>2, RestartKeeps
<1>3. ASSUME NEW f \in Files, DeleteObject(f) \/ DeletionStep(f) PROVE IInv'
  BY <1>3, DeletionKeeps
<1>4. ASSUME NEW f \in Files, NEW h \in Headers, Request(f, h) PROVE IInv'
  BY <1>4, RequestKeeps
<1>5. CASE OpenObject \/ OpenLegacy \/ Stream \/ Close
  BY <1>5, OpenKeeps, StreamKeeps, CloseKeeps
<1>6. CASE ServeUnmoved
  BY <1>6, ServeKeeps
<1>7. CASE UNCHANGED vars
  <2>1. UNCHANGED <<row, object, legacy, deleting, backfill, phase, faults, download, onStartup, arrived, fate>>
    BY <1>7 DEF vars
  <2>2. TypeOK'
    BY <2>1 DEF IInv, TypeOK
  <2>3. RunInv' /\ CopyInv' /\ LostInv'
    BY <2>1 DEF IInv, RunInv, RunOK, CopyInv, Checking, LostInv
  <2>. QED  BY <2>1, <2>2, <2>3 DEF IInv, RangeOK
<1>. QED  BY <1>1, <1>2, <1>3, <1>4, <1>5, <1>6, <1>7 DEF Next

\* The inductive invariant holds in every state of Spec.
THEOREM StorageInvariant == Spec => []IInv
BY InitIInv, NextKeeps, PTL DEF Spec

(* The stores, the runs of the command and the download stay in the sets   *)
(* the module names; while the container starts, nothing is deleted and    *)
(* nothing is downloaded.                                                  *)
THEOREM StorageTypeCorrect == Spec => []TypeOK
<1>1. IInv => TypeOK
  BY DEF IInv
<1>. QED  BY <1>1, StorageInvariant, PTL

(* Through two runs of the backfill at once, deletions and any number of   *)
(* kills and errors of the store, a download finds the file as it was, but *)
(* while a truncated object waits for its removal, after one could not be  *)
(* removed, and after a deletion was undone too late.                      *)
THEOREM ContentSurvivesHolds == Spec => []ContentSurvives
<1>1. IInv => ContentSurvives
  <2>. SUFFICES ASSUME IInv, NEW f \in row \ Pending, deleting[f] = "no",
                       fate[f] \in {"plain", "failed"}
                PROVE  Content(f) = arrived[f]
    BY DEF ContentSurvives
  <2>1. f \in Files /\ object[f] \in Copies
    BY DEF IInv, TypeOK
  <2>2. legacy[f] = arrived[f]
    BY DEF IInv, LostInv
  <2>3. object[f] # "short"
    BY <2>1, PendingIs DEF IInv, CopyInv
  <2>4. object[f] = "whole" => arrived[f] = "whole"
    BY <2>1 DEF IInv, CopyInv
  <2>. QED  BY <2>1, <2>2, <2>3, <2>4 DEF Content, Copies
<1>. QED  BY <1>1, StorageInvariant, PTL

(* For any size, any chunk and any range, from whichever store and however *)
(* little each read returns, a download sends no byte it was not asked     *)
(* for, and all of them when it ends, unless the copy was truncated.       *)
THEOREM DownloadIsExactHolds == Spec => []DownloadIsExact
<1>1. IInv => DownloadIsExact
  <2>. SUFFICES ASSUME IInv PROVE DownloadIsExact
    OBVIOUS
  <2>1. /\ download.at \in 0 .. Size /\ download.due \in 0 .. Size /\ Size \in Nat
        /\ RangeOK(download)
    BY SizeAssumption DEF IInv, TypeOK
  <2>2. ASSUME download.step = "done", download.length = Size PROVE download.got = download.asked
    <3>1. download.due = 0
      BY <2>1, <2>2 DEF RangeOK
    <3>2. download.at .. download.at + download.due - 1 = {}
      BY <2>1, <3>1
    <3>. QED  BY <2>1, <3>2 DEF RangeOK
  <2>. QED  BY <2>1, <2>2 DEF RangeOK, DownloadIsExact
<1>. QED  BY <1>1, StorageInvariant, PTL
=============================================================================
