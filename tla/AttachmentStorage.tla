-------------------------- MODULE AttachmentStorage -------------------------
(***************************************************************************)
(* The move of attachment files from the local disk to the object store,   *)
(* and their download while it goes on: backend/apps/attachments/          *)
(* storage.py, views.py and management/commands/backfill_attachments_to_   *)
(* object_storage.py, run by backend/config/startup.py and entrypoint.py.  *)
(*                                                                         *)
(* Every file is an attachment of the time before the move, and the s3     *)
(* backend is selected.  The backfill runs before the server accepts       *)
(* requests if ATTACHMENTS_RUN_BACKFILL_ON_STARTUP is set, which it is not *)
(* by default, or by hand at any time; it may be killed between any two of *)
(* its steps, and so may a deletion, which empties both stores before its  *)
(* transaction commits.  Without the setting the container serves with     *)
(* nothing moved: a download takes the object or, when there is none yet,  *)
(* the local file.                                                         *)
(***************************************************************************)
EXTENDS Naturals, FiniteSets

CONSTANTS
  Files,       \* storage keys of the attachments
  NoFile,
  Size,        \* size_bytes of every attachment; a truncated copy lacks the last byte
  Chunk,       \* STREAM_CHUNK_SIZE
  MaxFaults    \* bound: kills, truncated uploads and errors of the object store

ASSUME FileAssumption == NoFile \notin Files
ASSUME SizeAssumption == Size \in Nat \ {0} /\ Chunk \in Nat \ {0}
ASSUME FaultAssumption == MaxFaults \in Nat

Runs == {"startup", "manual"}
Copies == {"none", "short", "whole"}
Bytes == 0 .. Size - 1

VARIABLES
  row,        \* the files whose Attachment row exists
  object,     \* the object of each file
  legacy,     \* the local file of each
  deleting,   \* how far the deletion of each file is: "no", "object" or "both"
  backfill,   \* the two runs of the command
  phase,      \* of the container: "starting" or "serving"
  faults,
  download,   \* one download
  onStartup,  \* ATTACHMENTS_RUN_BACKFILL_ON_STARTUP
  arrived,    \* history: the local files before the move
  fate        \* history: what went wrong with each file, see Fates

vars == <<row, object, legacy, deleting, backfill, phase, faults, download, onStartup, arrived,
          fate>>
files == <<row, object, legacy, deleting>>
given == <<onStartup, arrived>>
history == <<given, fate>>

\* "failed": a run reported FAILED and left the file to its local copy; "left":
\* it could not remove a truncated object; "undone": its deletion was rolled
\* back after both stores had been emptied.
Fates == {"plain", "failed", "left", "undone"}

Resting == [todo |-> {}, file |-> NoFile, step |-> "idle", source |-> FALSE]

\* asked: history, the bytes asked for; at and due: where the handle stands
\* and what remains of the range; got: history, the bytes sent.
NotDownloading == [step |-> "idle", file |-> NoFile, asked |-> {}, at |-> 0, due |-> 0,
                   length |-> 0, got |-> {}]

\* Range headers: none (or one that is not understood), a-b, a- and -n.
NoHeader == [first |-> 0, last |-> 0, form |-> "none"]
Headers == [first : 0 .. Size, last : 0 .. Size, form : {"closed"}]
             \union [first : 0 .. Size, last : {0}, form : {"open"}]
             \union [first : {0}, last : 0 .. Size + 1, form : {"suffix"}]
             \union {NoHeader}

TypeOK ==
  /\ row \subseteq Files
  /\ object \in [Files -> Copies] /\ legacy \in [Files -> Copies]
  /\ deleting \in [Files -> {"no", "object", "both"}]
  /\ backfill \in [Runs -> [todo : SUBSET Files, file : Files \union {NoFile},
                            step : {"idle", "next", "look", "open", "put", "size", "drop"},
                            source : BOOLEAN]]
  /\ phase \in {"starting", "serving"}
  /\ phase = "starting" => download = NotDownloading /\ \A f \in Files : deleting[f] = "no"
  /\ faults \in 0 .. MaxFaults
  /\ download \in [step : {"idle", "object", "legacy", "stream", "done"},
                   file : Files \union {NoFile}, asked : SUBSET Bytes, at : 0 .. Size,
                   due : 0 .. Size, length : 0 .. Size, got : SUBSET Bytes]
  /\ onStartup \in BOOLEAN
  /\ arrived \in [Files -> Copies] /\ fate \in [Files -> Fates]

Init ==
  /\ row = Files
  /\ object = [f \in Files |-> "none"]
  /\ onStartup \in BOOLEAN
  /\ arrived \in [Files -> Copies] /\ legacy = arrived
  /\ deleting = [f \in Files |-> "no"]
  /\ backfill = [b \in Runs |-> Resting]
  /\ phase = "starting" /\ faults = 0
  /\ download = NotDownloading
  /\ fate = [f \in Files |-> "plain"]

-----------------------------------------------------------------------------
(* The backfill command.                                                   *)

Continue(b, step) == backfill' = [backfill EXCEPT ![b].step = step]
Skip(b) == backfill' = [backfill EXCEPT ![b].step = "next", ![b].file = NoFile,
                                        ![b].source = FALSE]
Quit(b) == backfill' = [backfill EXCEPT ![b] = Resting]
Fault == faults < MaxFaults /\ faults' = faults + 1
Befalls(f, what) == fate' = [fate EXCEPT ![f] = IF @ = "undone" THEN @ ELSE what]

\* Variant: a store that holds an object needs no second run.
BeginOnce(b) ==
  /\ backfill[b].step = "idle"
  /\ b = "startup" => onStartup /\ phase = "starting"
  /\ backfill' = [backfill EXCEPT ![b] = [Resting EXCEPT !.step = "next",
                     !.todo = IF \E f \in Files : object[f] # "none" THEN {} ELSE row]]
  /\ UNCHANGED <<files, phase, faults, download, history>>

\* A run of the command works on the rows of one query.  At startup it runs only
\* if it is set to, and again, by the restart of the container, when it has failed.
Begin(b) ==
  /\ backfill[b].step = "idle"
  /\ b = "startup" => onStartup /\ phase = "starting"
  /\ backfill' = [backfill EXCEPT ![b] = [Resting EXCEPT !.todo = row, !.step = "next"]]
  /\ UNCHANGED <<files, phase, faults, download, history>>

Take(b) ==
  /\ backfill[b].step = "next"
  /\ \E f \in backfill[b].todo :
       backfill' = [backfill EXCEPT ![b] = [todo |-> @.todo \ {f}, file |-> f, step |-> "look",
                                            source |-> legacy[f] # "none"]]
  /\ UNCHANGED <<files, phase, faults, download, history>>

\* An existing object is skipped, and so is a missing source; an error of the
\* store ends the command.
Look(b) ==
  /\ backfill[b].step = "look"
  /\ \/ /\ IF object[backfill[b].file] = "none" /\ backfill[b].source
          THEN Continue(b, "open") ELSE Skip(b)
        /\ UNCHANGED faults
     \/ Quit(b) /\ Fault
  /\ UNCHANGED <<files, phase, download, history>>

\* A local file of the wrong size is reported.  One that has gone makes the
\* command fail when its size is taken, and only this file when it is opened.
Open(b) ==
  LET copy == legacy[backfill[b].file]
  IN  /\ backfill[b].step = "open"
      /\ \/ copy = "whole" /\ Continue(b, "put")
         \/ copy \in {"short", "none"} /\ Skip(b)
         \/ copy = "none" /\ Quit(b)
      /\ UNCHANGED <<files, phase, faults, download, history>>

Put(b) ==
  LET f == backfill[b].file
  IN  /\ backfill[b].step = "put"
      /\ \/ /\ object' = [object EXCEPT ![f] = "whole"] /\ Continue(b, "size")
            /\ UNCHANGED <<faults, history>>
         \/ /\ object' = [object EXCEPT ![f] = "short"] /\ Continue(b, "size")
            /\ Fault /\ UNCHANGED history
         \/ /\ Skip(b) /\ Fault /\ UNCHANGED <<object, given>>
            /\ Befalls(f, IF fate[f] = "left" /\ object[f] = "short" THEN "left" ELSE "failed")
      /\ UNCHANGED <<row, legacy, deleting, phase, download>>

\* Variant: the size of the copy is not compared.
MeasureNothing(b) ==
  /\ backfill[b].step = "size"
  /\ Skip(b)
  /\ UNCHANGED <<files, phase, faults, download, history>>

\* The size of the copy decides whether it stays; an error leaves it.
Measure(b) ==
  LET f == backfill[b].file
  IN  /\ backfill[b].step = "size"
      /\ \/ /\ IF object[f] = "short" THEN Continue(b, "drop") ELSE Skip(b)
            /\ UNCHANGED <<faults, history>>
         \/ /\ Skip(b) /\ Fault /\ UNCHANGED given
            /\ Befalls(f, IF object[f] = "short" THEN "left" ELSE "failed")
      /\ UNCHANGED <<files, phase, download>>

\* The removal of a copy of the wrong size; an error here ends the command.
Drop(b) ==
  LET f == backfill[b].file
  IN  /\ backfill[b].step = "drop"
      /\ \/ /\ object' = [object EXCEPT ![f] = "none"]
            /\ Skip(b) /\ Befalls(f, "failed") /\ UNCHANGED faults
         \/ Quit(b) /\ Fault /\ Befalls(f, "left") /\ UNCHANGED object
      /\ UNCHANGED <<row, legacy, deleting, phase, download, given>>

\* The command ends; at startup the entrypoint then runs the server.
End(b) ==
  /\ backfill[b].step = "next" /\ backfill[b].todo = {}
  /\ Quit(b)
  /\ phase' = IF b = "startup" THEN "serving" ELSE phase
  /\ UNCHANGED <<files, faults, download, history>>

\* run_attachment_storage_backfill_on_startup returns at once.
ServeUnmoved ==
  /\ ~onStartup /\ phase = "starting"
  /\ phase' = "serving"
  /\ UNCHANGED <<files, backfill, faults, download, history>>

BackfillStep(b) ==
  Take(b) \/ Look(b) \/ Open(b) \/ Put(b) \/ Measure(b) \/ Drop(b) \/ End(b)

\* The truncated objects that a run has not removed yet.
Pending == {f \in Files : object[f] = "short" /\
              \E b \in Runs : backfill[b].file = f /\ backfill[b].step \in {"size", "drop"}}

\* The container is stopped, or dies, and is started again: the entrypoint
\* passes the signal to startup and server alike, and both run in it.
Restart ==
  /\ Fault
  /\ backfill' = [b \in Runs |-> Resting]
  /\ phase' = "starting"
  /\ deleting' = [f \in Files |-> "no"]
  /\ download' = NotDownloading
  /\ fate' = [f \in Files |-> IF f \in Pending THEN "left"
                              ELSE IF deleting[f] = "both" THEN "undone" ELSE fate[f]]
  /\ UNCHANGED <<row, object, legacy, given>>

-----------------------------------------------------------------------------
(* Deletion: delete_attachment_from_storage, called before the commit.     *)

\* Variant: the server answers before startup has ended.
DeleteObjectEarly(f) ==
  /\ f \in row /\ deleting[f] = "no"
  /\ object' = [object EXCEPT ![f] = "none"]
  /\ deleting' = [deleting EXCEPT ![f] = "object"]
  /\ UNCHANGED <<row, legacy, backfill, phase, faults, download, history>>

DeleteObject(f) ==
  /\ phase = "serving" /\ f \in row /\ deleting[f] = "no"
  /\ object' = [object EXCEPT ![f] = "none"]
  /\ deleting' = [deleting EXCEPT ![f] = "object"]
  /\ UNCHANGED <<row, legacy, backfill, phase, faults, download, history>>

DeleteLegacy(f) ==
  /\ deleting[f] = "object"
  /\ legacy' = [legacy EXCEPT ![f] = "none"]
  /\ deleting' = [deleting EXCEPT ![f] = "both"]
  /\ UNCHANGED <<row, object, backfill, phase, faults, download, history>>

DeleteCommit(f) ==
  /\ deleting[f] = "both"
  /\ row' = row \ {f}
  /\ deleting' = [deleting EXCEPT ![f] = "no"]
  /\ UNCHANGED <<object, legacy, backfill, phase, faults, download, history>>

\* A statement after the deletion fails.
DeleteRollback(f) ==
  /\ deleting[f] = "both"
  /\ Befalls(f, "undone")
  /\ deleting' = [deleting EXCEPT ![f] = "no"]
  /\ UNCHANGED <<row, object, legacy, backfill, phase, faults, download, given>>

-----------------------------------------------------------------------------
(* Download: AttachmentDownloadView.                                       *)

LengthOf(copy) == CASE copy = "whole" -> Size [] copy = "short" -> Size - 1 [] OTHER -> 0
Least(a, b) == IF a < b THEN a ELSE b

\* Variant: -n means the first n bytes.
ParsedPrefix(h) ==
  CASE h.form = "suffix" /\ h.last > 0 -> <<0, Least(h.last, Size) - 1>>
    [] h.form = "open" -> <<h.first, Size - 1>>
    [] h.form = "closed" /\ h.first <= h.last -> <<h.first, Least(h.last, Size - 1)>>
    [] OTHER -> <<0, Size - 1>>

\* _parse_single_range_header; a range it does not accept is ignored.
Parsed(h) ==
  CASE h.form = "suffix" /\ h.last > 0 -> <<IF h.last >= Size THEN 0 ELSE Size - h.last, Size - 1>>
    [] h.form = "open" -> <<h.first, Size - 1>>
    [] h.form = "closed" /\ h.first <= h.last -> <<h.first, Least(h.last, Size - 1)>>
    [] OTHER -> <<0, Size - 1>>

\* 416
Unsatisfiable(h) == h.form \in {"open", "closed"} /\ h.first >= Size

\* The bytes a header asks for, from the definition of byte ranges.
Wanted(h) ==
  CASE h.form = "suffix" /\ h.last > 0 -> {i \in Bytes : i + h.last >= Size}
    [] h.form = "open" -> {i \in Bytes : h.first <= i}
    [] h.form = "closed" /\ h.first <= h.last -> {i \in Bytes : h.first <= i /\ i <= h.last}
    [] OTHER -> Bytes

Request(f, h) ==
  /\ phase = "serving" /\ f \in row /\ download.step = "idle"
  /\ ~Unsatisfiable(h)
  /\ download' = [NotDownloading EXCEPT !.step = "object", !.file = f, !.asked = Wanted(h),
                     !.at = Parsed(h)[1], !.due = Parsed(h)[2] - Parsed(h)[1] + 1]
  /\ UNCHANGED <<files, backfill, phase, faults, history>>

\* The store opened: an object too short for the range is an error.  The
\* content is that of this moment.
Opened(copy) ==
  IF download.at < LengthOf(copy)
  THEN [download EXCEPT !.step = "stream", !.file = NoFile, !.length = LengthOf(copy)]
  ELSE NotDownloading

OpenObject ==
  LET copy == object[download.file]
  IN  /\ download.step = "object"
      /\ download' = IF copy = "none" THEN [download EXCEPT !.step = "legacy"] ELSE Opened(copy)
      /\ UNCHANGED <<files, backfill, phase, faults, history>>

\* open_attachment_for_download falls back to the local file, or answers 404;
\* a position beyond its end reads nothing.
OpenLegacy ==
  LET copy == legacy[download.file]
  IN  /\ download.step = "legacy"
      /\ download' = IF copy = "none" THEN NotDownloading
                     ELSE [download EXCEPT !.step = "stream", !.file = NoFile,
                                           !.length = LengthOf(copy)]
      /\ UNCHANGED <<files, backfill, phase, faults, history>>

ReadSize == Least(Chunk, download.due)

\* _iter_attachment_chunks: a read returns nothing at the end of the content
\* only, and may otherwise return less than it is asked for.
Stream ==
  LET left == download.length - download.at
  IN  /\ download.step = "stream"
      /\ \/ /\ download.due > 0 /\ left > 0
            /\ \E n \in 1 .. Least(ReadSize, left) :
                 download' = [download EXCEPT !.at = @ + n, !.got = @ \union (download.at .. download.at + n - 1),
                                !.due = IF n < download.due THEN @ - n ELSE 0]
         \/ /\ download.due = 0 \/ left <= 0
            /\ download' = [download EXCEPT !.step = "done"]
      /\ UNCHANGED <<files, backfill, phase, faults, history>>

Close ==
  /\ download.step = "done"
  /\ download' = NotDownloading
  /\ UNCHANGED <<files, backfill, phase, faults, history>>

-----------------------------------------------------------------------------
DeletionStep(f) == DeleteLegacy(f) \/ DeleteCommit(f) \/ DeleteRollback(f)

Next ==
  \/ \E b \in Runs : Begin(b) \/ BackfillStep(b)
  \/ ServeUnmoved \/ Restart
  \/ \E f \in Files : DeleteObject(f) \/ DeletionStep(f) \/ \E h \in Headers : Request(f, h)
  \/ OpenObject \/ OpenLegacy \/ Stream \/ Close

Spec == Init /\ [][Next]_vars

\* Startup goes on, with the command if that is set and without it if not, and
\* deletions end.  Nothing makes anyone run the command by hand.
Fairness ==
  /\ WF_vars(ServeUnmoved) /\ WF_vars(Begin("startup")) /\ WF_vars(BackfillStep("startup"))
  /\ \A f \in Files : WF_vars(DeletionStep(f))

FairSpec == Spec /\ Fairness
-----------------------------------------------------------------------------
(* Properties.                                                             *)

\* What a download of the file would find.
Content(f) == IF object[f] # "none" THEN object[f] ELSE legacy[f]

(* docs/ATTACHMENT_STORAGE_MIGRATION.md, Cutover: at every moment of the   *)
(* move - between any two steps of a backfill, of two backfills at once,   *)
(* of a deletion that is undone while the local file is still there - a    *)
(* download finds the file as it was before, except while a truncated      *)
(* object waits for its removal or after one could not be removed.         *)
ContentSurvives ==
  \A f \in row \ Pending :
    deleting[f] = "no" /\ fate[f] \in {"plain", "failed"} => Content(f) = arrived[f]

(* docs/API_CONTRACT.md 15.3: in whatever chunks and from whichever store  *)
(* it is read, a download sends no byte it was not asked for, and all of   *)
(* them when it ends, unless the copy it opened was truncated.             *)
DownloadIsExact ==
  /\ download.got \subseteq download.asked
  /\ download.step = "done" /\ download.length = Size => download.got = download.asked

(* docs/ATTACHMENT_STORAGE_MIGRATION.md, Idempotency: however the backfill *)
(* and the deletions are interrupted, restarting brings the container to   *)
(* serve; if it is set to run the backfill on startup, with an object for  *)
(* each whole local file, but for those whose copy the command reported as *)
(* failed and those being deleted.                                         *)
MigrationCompletes ==
  <>[](/\ phase = "serving"
       /\ onStartup => \A f \in row : legacy[f] = "whole" /\ deleting[f] = "no" =>
                         object[f] # "none" \/ fate[f] \in {"failed", "left"})
=============================================================================
