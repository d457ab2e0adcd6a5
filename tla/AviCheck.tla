------------------------------ MODULE AviCheck ------------------------------
(***************************************************************************)
(* CheckAVIIntegrity (AVICheck.cpp): the walk over the chunks of a         *)
(* captured file, the search for an OpenDML index inside a header list,    *)
(* the scan of idx1 in blocks, and the verdict.                            *)
(*                                                                         *)
(* The file is read as it is walked: a header that has not been read yet   *)
(* may hold any four-character code and any size, so one run is one file.  *)
(* The header behind "hdrl" is remembered while it may be read again; of   *)
(* chunks that overlap otherwise (an odd list, a size that wraps) the      *)
(* model reads more files than there are.  Positions have 64 bits in the   *)
(* code and are unbounded here; sizes are DWORDs, and W stands for 2^32.   *)
(*                                                                         *)
(* A definition marked "Fault:" is a faulty variant of the one after it.   *)
(***************************************************************************)
EXTENDS Integers, Sequences

CONSTANTS
  W,            \* the values of a DWORD
  Sizes,        \* the chunk sizes that occur
  FileSizes,    \* the lengths of the files
  FrameCounts,  \* the values of dwTotalFrames that occur
  BATCH         \* idx1 entries read at a time (4096)

ASSUME AviCheckAssumption ==
  /\ W \in Nat /\ W > 64 /\ W % 2 = 0
  /\ Sizes \subseteq 0 .. W - 1 /\ FileSizes \subseteq Nat
  /\ FrameCounts \subseteq 0 .. W - 1 /\ BATCH \in Nat \ {0}

Codes == {"RIFF", "LIST", "avih", "idx1", "indx", "other"}
ListTypes == {"hdrl", "strl", "movi", "AVIX", "other"}
Headers == [code : Codes, size : Sizes]
Unread == [at |-> 0, header |-> [code |-> "other", size |-> 0]]

AvihSize == 56      \* sizeof(AVIMainHeader)
EntrySize == 16     \* sizeof(AVIIndexEntry)
MaxDepth == 3

VARIABLES
  actual, riffEnd,  \* r.dwActualSize, riffEnd
  pc, pos, next,    \* next: nextPos of the chunk at pos
  known,            \* the header behind "hdrl" and where it is
  avih,             \* avih.dwTotalFrames, 0 until it is read
  hasHdrl, hasMovi, hasIndex,
  search,           \* the calls of ContainsOpenDMLIndex, the innermost last
  remaining, read,  \* idx1 entries not read yet, and read
  videoFrames, defect,
  entries, defects, \* r.dwIndexEntries, r.dwDefectFrames
  wrapped           \* history: the size of some chunk was padded to 0

walk   == <<pos, next>>
found  == <<avih, hasHdrl, hasMovi, hasIndex>>
scan   == <<remaining, read, videoFrames, defect>>
counts == <<entries, defects>>
vars   == <<actual, riffEnd, pc, walk, known, found, search, scan, counts, wrapped>>

Min2(a, b) == IF a < b THEN a ELSE b

Init ==
  /\ actual \in FileSizes
  /\ riffEnd = 0
  /\ pc = "open" /\ pos = 12 /\ next = 12
  /\ known = Unread
  /\ avih = 0 /\ hasHdrl = FALSE /\ hasMovi = FALSE /\ hasIndex = FALSE
  /\ search = <<>>
  /\ remaining = 0 /\ read = 0 /\ videoFrames = 0 /\ defect = 0
  /\ entries = 0 /\ defects = 0
  /\ wrapped = FALSE

Step(from, to) == pc = from /\ pc' = to

(* Fault: a read that gets some of the bytes is taken for a success. *)
CanReadSome(p, n) == p < actual
(* ReadExact after SeekAbs: all of the bytes or none. *)
CanRead(p, n) == p + n <= actual

HeadersAt(p) == IF p = known.at THEN {known.header} ELSE Headers

(* PADEVEN, in 32 bits. *)
PadEven(x) == LET y == (x + 1) % W IN y - (y % 2)

(* Fault: the position of the next chunk is computed in 32 bits. *)
After32(p, size) == p + ((8 + PadEven(size)) % W)
(* The position behind the chunk of this size at p, in 64 bits. *)
After(p, size) == p + 8 + PadEven(size)

Note(h) == wrapped' = (wrapped \/ PadEven(h.size) < h.size)

-----------------------------------------------------------------------------
(* The RIFF header. *)

Open ==
  /\ \/ /\ Step("open", "done")        \* too small, or not an AVI file
        /\ UNCHANGED riffEnd
     \/ /\ actual >= 12
        /\ Step("open", "top")
        /\ \E size \in Sizes : riffEnd' = Min2(8 + size, actual)
  /\ UNCHANGED <<actual, walk, known, found, search, scan, counts, wrapped>>

(* The loop reads the header h of the chunk at pos. *)
Reads(h) ==
  /\ pos + 8 <= riffEnd /\ CanRead(pos, 8)
  /\ h \in HeadersAt(pos)

(* The loop ends, also at a list whose type cannot be read. *)
TopEnds ==
  /\ \/ pos + 8 > riffEnd
     \/ ~CanRead(pos, 8)
     \/ \E h \in Headers : Reads(h) /\ h.code = "LIST" /\ ~CanRead(pos + 8, 4)
  /\ Step("top", "avix")
  /\ UNCHANGED <<actual, riffEnd, walk, known, found, search, scan, counts, wrapped>>

(* A list of frames, or of another type, is passed over. *)
SkipList ==
  /\ \E h \in Headers :
       /\ Reads(h) /\ h.code = "LIST" /\ CanRead(pos + 8, 4)
       /\ pos' = After(pos, h.size) /\ Note(h)
  /\ \E type \in ListTypes \ {"hdrl"} : hasMovi' = (hasMovi \/ type = "movi")
  /\ Step("top", "top")
  /\ UNCHANGED <<actual, riffEnd, next, known, avih, hasHdrl, hasIndex, search, scan, counts>>

(* What avih holds afterwards: a size below 20 ends before dwTotalFrames. *)
FramesRead(h, p) ==
  LET n == Min2(h.size, AvihSize)
  IN IF h.code = "avih" /\ CanRead(p + 8, n) /\ n >= 20 THEN FrameCounts ELSE {avih}

HeaderList ==
  /\ \E h \in Headers :
       /\ Reads(h) /\ h.code = "LIST" /\ CanRead(pos + 8, 4)
       /\ next' = After(pos, h.size)
       /\ search' = <<[pos |-> pos + 12, end |-> pos + 8 + h.size]>>
       /\ Note(h)
  /\ hasHdrl' = TRUE
  /\ \/ ~CanRead(pos + 12, 8) /\ UNCHANGED <<known, avih>>
     \/ /\ CanRead(pos + 12, 8)
        /\ \E first \in HeadersAt(pos + 12) :
             /\ known' = [at |-> pos + 12, header |-> first]
             /\ avih' \in FramesRead(first, pos + 12)
  /\ Step("top", "search")
  /\ UNCHANGED <<actual, riffEnd, pos, hasMovi, hasIndex, scan, counts>>

Other ==
  /\ \E h \in Headers :
       /\ Reads(h) /\ h.code \notin {"LIST", "idx1"}
       /\ pos' = After(pos, h.size)
       /\ hasIndex' = (hasIndex \/ h.code = "indx") /\ Note(h)
  /\ Step("top", "top")
  /\ UNCHANGED <<actual, riffEnd, next, known, avih, hasHdrl, hasMovi, search, scan, counts>>

Index ==
  /\ \E h \in Headers :
       /\ Reads(h) /\ h.code = "idx1"
       /\ next' = After(pos, h.size)
       /\ remaining' = h.size \div EntrySize /\ Note(h)
  /\ hasIndex' = TRUE
  /\ Step("top", "idx")
  /\ UNCHANGED <<actual, riffEnd, pos, known, avih, hasHdrl, hasMovi, search,
                 read, videoFrames, defect, counts>>

-----------------------------------------------------------------------------
(* ContainsOpenDMLIndex: one step is one turn of the innermost loop. *)

Innermost == search[Len(search)]

(* The innermost call returned FALSE: its caller goes on behind the list.  *)
Return == SubSeq(search, 1, Len(search) - 1)

(* The walk goes on behind the header list. *)
SearchEnds ==
  /\ search' = <<>>
  /\ pos' = next
  /\ known' = IF next = known.at THEN known ELSE Unread
  /\ Step("search", "top")

(* Nothing more to read in this list, or a chunk that does not fit it. *)
NotThere ==
  LET c == Innermost
  IN /\ pc = "search"
     /\ \/ c.pos + 8 > c.end
        \/ ~CanRead(c.pos, 8)
        \/ /\ c.pos + 8 <= c.end /\ CanRead(c.pos, 8)
           /\ \E h \in HeadersAt(c.pos) :
                \/ After(c.pos, h.size) > c.end
                \/ h.code = "LIST" /\ h.size >= 4 /\ ~CanRead(c.pos + 8, 4)
     /\ \/ Len(search) = 1 /\ SearchEnds
        \/ /\ Len(search) > 1
           /\ search' = Return
           /\ Step("search", "search")
           /\ UNCHANGED <<pos, known>>
     /\ UNCHANGED <<actual, riffEnd, next, found, scan, counts, wrapped>>

(* The header h at c.pos is read and its chunk fits the list. *)
Fits(c, h) ==
  /\ c.pos + 8 <= c.end /\ CanRead(c.pos, 8)
  /\ h \in HeadersAt(c.pos)
  /\ After(c.pos, h.size) <= c.end

(* TRUE is passed on by every caller. *)
SuperIndex ==
  LET c == Innermost
  IN /\ pc = "search"
     /\ \E h \in Headers : Fits(c, h) /\ h.code = "indx"
     /\ hasIndex' = TRUE
     /\ SearchEnds
     /\ UNCHANGED <<actual, riffEnd, next, avih, hasHdrl, hasMovi, scan, counts, wrapped>>

(* Fault: the inner list is taken to end where its chunk would if the      *)
(* type came on top of the size.                                           *)
LongChild(p, size) == [pos |-> p + 12, end |-> p + 12 + size]
(* The call that searches the list at p: behind the type, up to the end. *)
Child(p, size) == [pos |-> p + 12, end |-> p + 8 + size]

MoveOn(c, h) == Append(Return, [c EXCEPT !.pos = After(c.pos, h.size)])

(* A chunk, or a list of another type, or one too deep. *)
SearchNext ==
  LET c == Innermost
  IN /\ pc = "search"
     /\ \E h \in Headers :
          /\ Fits(c, h) /\ h.code # "indx"
          /\ h.code = "LIST" /\ h.size >= 4 => CanRead(c.pos + 8, 4)
          /\ Note(h)
          /\ search' = MoveOn(c, h)
     /\ Step("search", "search")
     /\ UNCHANGED <<actual, riffEnd, walk, known, found, scan, counts>>

(* A list of type hdrl or strl. *)
SearchInner ==
  LET c == Innermost
  IN /\ pc = "search" /\ Len(search) <= MaxDepth
     /\ \E h \in Headers :
          /\ Fits(c, h) /\ h.code = "LIST" /\ h.size >= 4 /\ CanRead(c.pos + 8, 4)
          /\ Note(h)
          /\ search' = Append(MoveOn(c, h), Child(c.pos, h.size))
     /\ Step("search", "search")
     /\ UNCHANGED <<actual, riffEnd, walk, known, found, scan, counts>>

-----------------------------------------------------------------------------
(* idx1: entries in blocks of BATCH, from behind its header. *)

(* Fault: a block that is cut off by the end of the file is counted. *)
AnyBlock(p, n) == TRUE
BlockFits(p, n) == CanRead(p, EntrySize * n)

ReadBlock ==
  LET batch == Min2(remaining, BATCH)
  IN /\ remaining > 0
     /\ BlockFits(pos + 8 + EntrySize * read, batch)
     /\ \E v \in 0 .. batch : \E d \in 0 .. v :
          videoFrames' = videoFrames + v /\ defect' = defect + d
     /\ remaining' = remaining - batch
     /\ read' = read + batch
     /\ Step("idx", "idx")
     /\ UNCHANGED <<actual, riffEnd, walk, known, found, search, counts, wrapped>>

IndexEnds ==
  /\ \/ remaining = 0
     \/ ~BlockFits(pos + 8 + EntrySize * read, Min2(remaining, BATCH))
  /\ entries' = videoFrames /\ defects' = defect
  /\ remaining' = 0 /\ read' = 0 /\ videoFrames' = 0 /\ defect' = 0
  /\ pos' = next
  /\ Step("idx", "top")
  /\ UNCHANGED <<actual, riffEnd, next, known, found, search, wrapped>>

-----------------------------------------------------------------------------
(* The RIFF AVIX lists behind the first one. *)

Continuation ==
  /\ pos + 12 <= actual
  /\ \E h \in Headers :
       h \in HeadersAt(pos) /\ h.code = "RIFF" /\ pos' = After(pos, h.size)
  /\ Step("avix", "avix")
  /\ UNCHANGED <<actual, riffEnd, next, known, found, search, scan, counts, wrapped>>

AvixEnds ==
  /\ \/ pos + 12 > actual
     \/ \E h \in HeadersAt(pos) : h.code # "RIFF"
  /\ Step("avix", "done")
  /\ UNCHANGED <<actual, riffEnd, walk, known, found, search, scan, counts, wrapped>>

Next ==
  \/ Open \/ TopEnds \/ SkipList \/ HeaderList \/ Other \/ Index
  \/ NotThere \/ SuperIndex \/ SearchNext \/ SearchInner
  \/ ReadBlock \/ IndexEnds
  \/ Continuation \/ AvixEnds

Spec == Init /\ [][Next]_vars
FairSpec == Spec /\ WF_vars(Next)

-----------------------------------------------------------------------------
(* The result. *)

FrameCount == IF avih # 0 THEN avih ELSE entries
Valid == hasHdrl /\ hasMovi /\ FrameCount > 0
(* What the worker and the command line call OK. *)
Passed == pc = "done" /\ Valid /\ defects = 0 /\ hasIndex

(* The walk comes to an end for every file, whatever its sizes are: the    *)
(* loop over the AVIX lists has no guard of its own against a size that    *)
(* leads back (AVICheck.cpp:249-259).                                      *)
WalkEnds == <>(pc = "done")

(* What is called OK is long enough for what the check looked at: the RIFF *)
(* header, two lists, and an index with a frame (an avih behind the type   *)
(* of its list is as long).  What a file only announces and what was cut   *)
(* off do not count.  Of a list only the header does: the walk takes the   *)
(* next chunk of an empty list to begin where its type is.                 *)
OKHasContents == Passed /\ ~wrapped => 12 + 8 + 8 + 8 + EntrySize <= actual

(* The search for an OpenDML index reads no header behind the list where   *)
(* the walk found "hdrl", "without scanning movi data" (AVICheck.cpp:77),  *)
(* unless the size of a chunk is 2^32 - 1.                                 *)
SearchStaysInList ==
  search # <<>> /\ Innermost.pos + 8 <= Innermost.end /\ ~wrapped
    => Innermost.pos + 8 <= next
=============================================================================
