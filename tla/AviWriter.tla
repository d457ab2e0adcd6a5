------------------------------ MODULE AviWriter ------------------------------
(***************************************************************************)
(* The AVI files of capture sessions: class CAVIWriter and the search for  *)
(* a free file name, GetCaptureFilename (DShow.cpp), over a directory that *)
(* outlives crashes of the program and in which others create and delete   *)
(* files too.                                                              *)
(*                                                                         *)
(* A file is written under a temporary name ("~" before the date) and gets *)
(* its final name when the AVI mux has written the index.  Both names are  *)
(* searched for in one step and used in a later one.  All actions but the  *)
(* last three are the capture thread's: an exception there is caught       *)
(* nowhere and ends the process.                                           *)
(*                                                                         *)
(* A definition marked "Fault:" is a faulty variant of the one after it.   *)
(***************************************************************************)
EXTENDS Integers, Sequences, FiniteSets, FiniteSetsExt

CONSTANTS
  Radix,         \* 10 in the code; small, so that numbers gain a digit soon
  DigitChoices,  \* values of m_ndigits, the user's minimal width
  Times,         \* date suffixes that differ
  ForeignNames,  \* names under which others create files
  MaxFiles,      \* bound: files captured
  MaxForeign,    \* bound: files created by others
  MaxRemoved     \* bound: files deleted by the user

(* Names: <base>.[~]<time>[.<num>].avi, num written with width digits; width 0
   means that there is no number. *)
Names == [tmp : BOOLEAN, time : Times, width : Nat, num : Nat]

ASSUME AviWriterAssumption ==
  /\ Radix \in Nat \ {0, 1}
  /\ DigitChoices \subseteq Nat /\ ForeignNames \subseteq Names
  /\ MaxFiles \in Nat /\ MaxForeign \in Nat /\ MaxRemoved \in Nat

-----------------------------------------------------------------------------
(* The search for a name. *)

(* The digits of n, of which there are at most n + 1. *)
Digits(n) == Min({w \in 1 .. n : n < Radix^w} \cup {n + 1})

(* The directory entries that match <base>.<time>.*.avi with a number of at
   least the given width. *)
Numbered(names, tmp, time, digits) ==
  {n \in names : n.tmp = tmp /\ n.time = time /\ n.width > 0 /\ n.width >= digits}

(* Fault: a gap is filled. *)
FirstFree(nums) == Min({i \in 0 .. Cardinality(nums) : i \notin nums})

NextNumber(nums) == Max({-1} \cup nums) + 1

(* "%0*d" pads with zeros and never cuts. *)
PaddedWidth(width, num) == Max({width, Digits(num)})

(* The widest numbers win, and among them the largest. *)
GetCaptureFilename(names, tmp, time, digits) ==
  LET all   == Numbered(names, tmp, time, digits)
      width == Max({digits} \cup {n.width : n \in all})
      num   == NextNumber({n.num : n \in {m \in all : m.width = width}})
      plain == [tmp |-> tmp, time |-> time, width |-> 0, num |-> 0]
  IN  IF width = 0 /\ plain \notin names
      THEN plain
      ELSE [plain EXCEPT !.width = PaddedWidth(width, num), !.num = num]

-----------------------------------------------------------------------------
VARIABLES
  disk,       \* the directory: files, each [name, by, complete]
  clock,      \* the date suffix of the wall clock
  up,         \* the program runs
  pc,         \* the capture thread, in the life of its CAVIWriter
  dvtime,     \* m_dvtime: the date of the first frame, or NoTime
  digits,     \* m_ndigits
  tmpfile,    \* m_tmpfile
  finalPath,  \* the name found by FinalizeFile
  finalized,  \* m_finalizedFiles
  closed,     \* history: the writers closed in this session
  nFiles,     \* history: writers so far; a writer is its number
  removed,    \* history: writers whose file the user deleted
  nForeign    \* history: files created by others

writer  == <<dvtime, digits, tmpfile, finalPath>>
session == <<finalized, closed>>
history == <<nFiles, removed, nForeign>>
vars == <<disk, clock, up, pc, writer, session, history>>

NoTime == -1
NoName == [tmp |-> TRUE, time |-> NoTime, width |-> 0, num |-> 0]

OnDisk == {f.name : f \in disk}

Init ==
  /\ disk = {} /\ clock \in Times
  /\ up = TRUE /\ pc = "none"
  /\ dvtime = NoTime /\ digits = 0 /\ tmpfile = NoName /\ finalPath = NoName
  /\ finalized = <<>> /\ closed = <<>>
  /\ nFiles = 0 /\ removed = {} /\ nForeign = 0

Step(from, to) == pc = from /\ pc' = to

(* A missing date is replaced by the current time, anew at each search. *)
DateOf(time) == IF time = NoTime THEN clock ELSE time

-----------------------------------------------------------------------------
(* Fault: the temporary name is always the same. *)
FixedTemp(names, time, width) == [tmp |-> TRUE, time |-> time, width |-> 0, num |-> 0]

TempName(names, time, width) == GetCaptureFilename(names, TRUE, time, width)

(* The constructor: a temporary name ... *)
Construct ==
  /\ nFiles < MaxFiles
  /\ Step("none", "named")
  /\ dvtime' \in Times \cup {NoTime} /\ digits' \in DigitChoices
  /\ LET time == IF dvtime' = NoTime THEN clock ELSE dvtime'
     IN  tmpfile' = TempName(OnDisk, time, digits')
  /\ nFiles' = nFiles + 1
  /\ UNCHANGED <<disk, clock, up, finalPath, session, removed, nForeign>>

(* ... and the file, which replaces one of that name (AM_FILE_OVERWRITE). *)
OpenFile ==
  /\ Step("named", "writing")
  /\ disk' = {f \in disk : f.name # tmpfile}
               \cup {[name |-> tmpfile, by |-> nFiles, complete |-> FALSE]}
  /\ UNCHANGED <<clock, up, writer, session, history>>

(* FinalizeFile: end of stream to the mux ... *)
DeliverEndOfStream ==
  /\ Step("writing", "mux")
  /\ UNCHANGED <<disk, clock, up, writer, session, history>>

Whole(f) == [name |-> f.name, by |-> f.by, complete |-> TRUE]

(* Fault: the wait for the mux has an end, and then all is taken to be well. *)
WaitAWhile ==
  /\ Step("mux", "stopped")
  /\ disk' \in {disk, {IF f.name = tmpfile THEN Whole(f) ELSE f : f \in disk}}
  /\ UNCHANGED <<clock, up, writer, session, history>>

(* ... which answers with EC_COMPLETE when the index is written; anything else
   is an exception, see Crash ... *)
MuxCompletes ==
  /\ Step("mux", "stopped")
  /\ disk' = {IF f.name = tmpfile THEN Whole(f) ELSE f : f \in disk}
  /\ UNCHANGED <<clock, up, writer, session, history>>

(* ... the final name ... *)
FindFinalName ==
  /\ Step("stopped", "rename")
  /\ finalPath' = GetCaptureFilename(OnDisk, FALSE, DateOf(dvtime), digits)
  /\ UNCHANGED <<disk, clock, up, dvtime, digits, tmpfile, session, history>>

Report(name) ==
  /\ finalized' = Append(finalized, name)
  /\ closed' = Append(closed, nFiles)

(* ... and MoveFile, which overwrites nothing.  CloseAVIWriter keeps the path. *)
Rename ==
  /\ finalPath \notin OnDisk
  /\ tmpfile \in OnDisk
  /\ Step("rename", "none")
  /\ disk' = {IF f.name = tmpfile THEN [f EXCEPT !.name = finalPath] ELSE f : f \in disk}
  /\ Report(finalPath)
  /\ UNCHANGED <<clock, up, writer, history>>

(* Fault: the wanted path is reported. *)
WantedName == finalPath

NameAfterFailure == tmpfile

(* It may fail for other reasons too: the file keeps its temporary name. *)
RenameFails ==
  /\ Step("rename", "none")
  /\ Report(NameAfterFailure)
  /\ UNCHANGED <<disk, clock, up, writer, history>>

(* BuildCapturing forgets the files of the session before. *)
NewSession ==
  /\ up /\ pc = "none" /\ finalized # <<>>
  /\ finalized' = <<>> /\ closed' = <<>>
  /\ UNCHANGED <<disk, clock, up, pc, writer, history>>

(* A crash, a power failure, or an exception in the capture thread: all that is
   left is the directory. *)
Crash ==
  /\ up
  /\ up' = FALSE /\ pc' = "down"
  /\ dvtime' = NoTime /\ digits' = 0 /\ tmpfile' = NoName /\ finalPath' = NoName
  /\ finalized' = <<>> /\ closed' = <<>>
  /\ UNCHANGED <<disk, clock, history>>

Restart ==
  /\ ~up
  /\ up' = TRUE /\ pc' = "none"
  /\ UNCHANGED <<disk, clock, writer, session, history>>

(* Another program, or another instance of this one, creates a file. *)
ForeignCreates ==
  /\ nForeign < MaxForeign
  /\ \E n \in ForeignNames \ OnDisk :
       disk' = disk \cup {[name |-> n, by |-> 0, complete |-> TRUE]}
  /\ nForeign' = nForeign + 1
  /\ UNCHANGED <<clock, up, pc, writer, session, nFiles, removed>>

(* The user deletes, or moves away, a file that is not open. *)
UserRemoves ==
  /\ Cardinality(removed) < MaxRemoved
  /\ \E f \in disk :
       /\ f.by \notin removed
       /\ ~(pc \in {"writing", "mux"} /\ f.name = tmpfile)
       /\ disk' = disk \ {f}
       /\ removed' = removed \cup {f.by}
  /\ UNCHANGED <<clock, up, pc, writer, session, nFiles, nForeign>>

ClockTicks ==
  /\ clock + 1 \in Times
  /\ clock' = clock + 1
  /\ UNCHANGED <<disk, up, pc, writer, session, history>>

Next ==
  \/ Construct \/ OpenFile \/ DeliverEndOfStream \/ MuxCompletes
  \/ FindFinalName \/ Rename \/ RenameFails
  \/ NewSession \/ Crash \/ Restart
  \/ ForeignCreates \/ UserRemoves \/ ClockTicks

Spec == Init /\ [][Next]_vars

-----------------------------------------------------------------------------
(* Correctness. *)

(* What was captured is never overwritten and never becomes incomplete again:
   not by a later session, not after a crash that left the temporary file, not
   when renaming failed.  Only the user removes it. *)
CapturesStay ==
  [][ \A f \in disk : f.by # 0 /\ ~UserRemoves =>
        \E g \in disk' : g.by = f.by /\ (f.complete => g.complete) ]_vars

(* A file under a final name is a whole file with its index: a crash at any
   moment, or a mux that fails, leaves a "~" name. *)
FinalNameMeansComplete ==
  \A f \in disk : ~f.name.tmp => f.complete

(* Why: a name is temporary or final for good, and the file is whole when it is
   about to be renamed.  Inductive, see AviWriterProofs. *)
WriterInv ==
  /\ \A f \in disk : f = [name |-> f.name, by |-> f.by, complete |-> f.complete]
  /\ pc \in {"named", "writing", "mux", "stopped", "rename"} => tmpfile.tmp
  /\ pc \in {"stopped", "rename"} => \A f \in disk : f.name = tmpfile => f.complete
  /\ FinalNameMeansComplete

(* The paths handed to verification and hashing are the files of this session
   and no one else's, even when another program took the final name first. *)
ReportedFilesAreCaptures ==
  \A i \in DOMAIN finalized :
    closed[i] \in removed
      \/ [name |-> finalized[i], by |-> closed[i], complete |-> TRUE] \in disk

(* Of two captured files with the same date and equally wide numbers the later
   one has the larger number, whatever was deleted in between. *)
NumbersFollowTime ==
  \A f, g \in disk :
    /\ f.by \in 1 .. g.by - 1 /\ f.name.tmp = g.name.tmp
    /\ f.name.time = g.name.time /\ f.name.width = g.name.width
    => f.name.num < g.name.num

=============================================================================
