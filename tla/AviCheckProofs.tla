--------------------------- MODULE AviCheckProofs ---------------------------
(***************************************************************************)
(* For every file, every set of sizes and every width of a DWORD, the      *)
(* search for an OpenDML index stays in the header list it was called for, *)
(* and what is called OK is long enough for what it has.  The walk goes on *)
(* at next; what the search needs of each of its calls is that the list    *)
(* the call searches ends in front of it.                                  *)
(***************************************************************************)
EXTENDS AviCheck, SequenceTheorems, TLAPS

Call == [pos : Int, end : Int]

(* Outside of the search there is no call; inside, every call has its list
   in front of next, as long as no size was padded to 0. *)
SearchInv ==
  /\ pos \in Int /\ next \in Int /\ wrapped \in BOOLEAN
  /\ search \in Seq(Call)
  /\ (pc = "search") <=> (search # <<>>)
  /\ ~wrapped => \A i \in DOMAIN search : search[i].end <= next

(* Positions stay integers, however PadEven rounds. *)
LEMMA AfterIsInt ==
  ASSUME NEW p \in Int, NEW h \in Headers
  PROVE  /\ h.size \in Int /\ PadEven(h.size) \in Int
         /\ After(p, h.size) \in Int /\ After(p, h.size) = p + 8 + PadEven(h.size)
<1>1. h.size \in Int /\ W \in Int /\ W > 0
  <2>1. h.size \in Sizes
    BY DEF Headers
  <2>2. W \in Nat /\ W > 64 /\ Sizes \subseteq 0 .. W - 1
    BY AviCheckAssumption
  <2>3. h.size \in 0 .. W - 1
    BY <2>1, <2>2
  <2> QED
    BY <2>2, <2>3
<1>2. (h.size + 1) % W \in Int
  BY <1>1
<1>3. PadEven(h.size) \in Int
  BY <1>2 DEF PadEven
<1> QED
  BY <1>1, <1>3 DEF After

(* The innermost call, and what is left when it returns. *)
LEMMA InnermostIsCall ==
  ASSUME SearchInv, search # <<>>
  PROVE  /\ Innermost \in Call
         /\ Len(search) \in DOMAIN search
         /\ Return \in Seq(Call)
         /\ Len(Return) = Len(search) - 1
         /\ \A i \in DOMAIN Return : i \in DOMAIN search /\ Return[i] = search[i]
<1>1. search \in Seq(Call) /\ Len(search) \in Nat /\ Len(search) > 0
  BY DEF SearchInv
<1>2. Len(search) \in DOMAIN search /\ search[Len(search)] \in Call
  BY <1>1
<1>3. \A i \in 1 .. Len(search) - 1 : search[i] \in Call
  BY <1>1
<1>4. /\ Return \in Seq(Call)
      /\ Len(Return) = IF 1 <= Len(search) - 1 THEN Len(search) - 1 - 1 + 1 ELSE 0
      /\ \A i \in 1 .. Len(search) - 1 - 1 + 1 : Return[i] = search[1 + i - 1]
  BY <1>1, <1>3, SubSeqProperties DEF Return
<1> DEFINE n == Len(search)
           m == Len(Return)
<1> HIDE DEF n, m
<1>5. m = n - 1
  <2>1. n \in Nat /\ n > 0 /\ m = IF 1 <= n - 1 THEN n - 1 - 1 + 1 ELSE 0
    BY <1>1, <1>4 DEF n, m
  <2>2. CASE n = 1
    BY <2>1, <2>2
  <2>3. CASE n # 1
    BY <2>1, <2>3
  <2> QED
    BY <2>2, <2>3
<1> USE DEF n, m
<1>6. DOMAIN Return = 1 .. Len(search) - 1 /\ DOMAIN search = 1 .. Len(search)
  BY <1>1, <1>4, <1>5
<1>7. ASSUME NEW i \in DOMAIN Return
      PROVE  i \in DOMAIN search /\ Return[i] = search[i]
  <2>1. i \in 1 .. Len(search) - 1 - 1 + 1 /\ i \in 1 .. Len(search) /\ 1 + i - 1 = i
    BY <1>1, <1>6, <1>7
  <2> QED
    BY <1>4, <1>6, <2>1
<1> QED
  BY <1>2, <1>4, <1>5, <1>7 DEF Innermost

(* The innermost call goes on behind a chunk that fits its list: the list is
   the same. *)
LEMMA MoveOnStays ==
  ASSUME SearchInv, search # <<>>, NEW h \in Headers
  PROVE  LET s == MoveOn(Innermost, h)
         IN  /\ s \in Seq(Call) /\ s # <<>>
             /\ Len(s) = Len(search)
             /\ \A i \in DOMAIN s : s[i].end = search[i].end
<1> DEFINE c == Innermost
           d == [c EXCEPT !.pos = After(c.pos, h.size)]
<1>1. c \in Call /\ Return \in Seq(Call) /\ Len(Return) = Len(search) - 1
      /\ \A i \in DOMAIN Return : i \in DOMAIN search /\ Return[i] = search[i]
  BY InnermostIsCall
<1>2. d \in Call /\ d.end = c.end
  <2>1. c.pos \in Int
    BY <1>1 DEF Call
  <2>2. After(c.pos, h.size) \in Int
    BY <2>1, AfterIsInt
  <2> QED
    BY <1>1, <2>2 DEF Call
<1>3. c.end = search[Len(search)].end
  BY DEF Innermost
<1> HIDE DEF c, d
<1>4. Append(Return, d) \in Seq(Call) /\ Len(Append(Return, d)) = Len(search)
  BY <1>1, <1>2
<1>5. ASSUME NEW i \in 1 .. Len(search)
      PROVE  Append(Return, d)[i].end = search[i].end
  <2>1. CASE i = Len(search)
    BY <1>1, <1>2, <1>3, <2>1 DEF SearchInv
  <2>2. CASE i # Len(search)
    <3>1. i \in DOMAIN Return
      BY <1>1, <2>2 DEF SearchInv
    <3> QED
      BY <1>1, <1>2, <3>1
  <2> QED
    BY <2>1, <2>2
<1>6. MoveOn(Innermost, h) = Append(Return, d)
  BY DEF MoveOn, c, d
<1> QED
  BY <1>4, <1>5, <1>6 DEF SearchInv

LEMMA InitSearch == Init => SearchInv
<1> SUFFICES ASSUME Init PROVE SearchInv
  OBVIOUS
<1>1. search = <<>> /\ pc # "search" /\ pos = 12 /\ next = 12 /\ wrapped = FALSE
  BY DEF Init
<1>2. search \in Seq(Call) /\ DOMAIN search = {}
  BY <1>1
<1>3. (pc = "search") <=> (search # <<>>)
  BY <1>1
<1>4. \A i \in DOMAIN search : search[i].end <= next
  BY <1>2
<1>5. pos \in Int /\ next \in Int
  BY <1>1
<1>6. wrapped \in BOOLEAN
  BY <1>1, Zenon
<1> QED
  BY <1>2, <1>3, <1>4, <1>5, <1>6 DEF SearchInv

(* The steps outside the search. *)
LEMMA WalkKeeps ==
  ASSUME SearchInv, Open \/ TopEnds \/ SkipList \/ Other \/ Index
                         \/ ReadBlock \/ IndexEnds \/ Continuation \/ AvixEnds
  PROVE  SearchInv'
<1>1. pc # "search" /\ search = <<>> /\ search' = search /\ pc' # "search"
  BY DEF SearchInv, Open, TopEnds, SkipList, Other, Index, ReadBlock, IndexEnds,
         Continuation, AvixEnds, Step
<1>2. wrapped' \in BOOLEAN
  BY DEF SearchInv, Open, TopEnds, SkipList, Other, Index, ReadBlock, IndexEnds,
         Continuation, AvixEnds, Note
<1>3. pos' \in Int
  <2>1. CASE Open \/ TopEnds \/ Index \/ ReadBlock \/ AvixEnds
    BY <2>1 DEF SearchInv, Open, TopEnds, Index, ReadBlock, AvixEnds, walk
  <2>2. CASE SkipList \/ Other
    BY <2>2, AfterIsInt DEF SearchInv, SkipList, Other
  <2>3. CASE IndexEnds
    BY <2>3 DEF SearchInv, IndexEnds
  <2>4. CASE Continuation
    BY <2>4, AfterIsInt DEF SearchInv, Continuation
  <2> QED
    BY <2>1, <2>2, <2>3, <2>4
<1>4. next' \in Int
  <2>1. CASE Index
    BY <2>1, AfterIsInt DEF SearchInv, Index
  <2>2. CASE ~Index
    BY <2>2 DEF SearchInv, Open, TopEnds, SkipList, Other, ReadBlock, IndexEnds,
                Continuation, AvixEnds, walk
  <2> QED
    BY <2>1, <2>2
<1> QED
  BY <1>1, <1>2, <1>3, <1>4 DEF SearchInv

(* A chunk does not reach behind the next one, unless its size wraps. *)
LEMMA ChunkEndsBeforeNext ==
  ASSUME SearchInv, NEW p \in Int, NEW h \in Headers, Note(h)
  PROVE  /\ wrapped' \in BOOLEAN
         /\ ~wrapped' => ~wrapped /\ p + 8 + h.size <= After(p, h.size)
<1>1. h.size \in Int /\ PadEven(h.size) \in Int
      /\ After(p, h.size) = p + 8 + PadEven(h.size)
  BY AfterIsInt
<1>2. ~wrapped' => ~(PadEven(h.size) < h.size)
  BY DEF Note
<1>3. ~(PadEven(h.size) < h.size) => p + 8 + h.size <= After(p, h.size)
  BY <1>1
<1>4. wrapped' \in BOOLEAN /\ (~wrapped' => ~wrapped)
  BY DEF Note, SearchInv
<1> QED
  BY <1>2, <1>3, <1>4

LEMMA HeaderListKeeps ==
  ASSUME SearchInv, HeaderList
  PROVE  SearchInv'
<1>1. PICK h \in Headers :
        /\ next' = After(pos, h.size)
        /\ search' = <<[pos |-> pos + 12, end |-> pos + 8 + h.size]>>
        /\ Note(h)
  BY DEF HeaderList
<1>2. pos' = pos /\ pos \in Int /\ pc' = "search"
  BY DEF HeaderList, SearchInv, Step
<1>3. h.size \in Int /\ next' \in Int
  BY <1>1, <1>2, AfterIsInt
<1>4. wrapped' \in BOOLEAN /\ (~wrapped' => pos + 8 + h.size <= next')
  BY <1>1, <1>2, ChunkEndsBeforeNext
<1> DEFINE c == [pos |-> pos + 12, end |-> pos + 8 + h.size]
<1>5. c \in Call /\ c.end = pos + 8 + h.size
  BY <1>2, <1>3 DEF Call
<1> HIDE DEF c
<1>6. search' = <<c>>
  BY <1>1 DEF c
<1>7. search' \in Seq(Call) /\ search' # <<>> /\ Len(search') = 1
      /\ \A i \in DOMAIN search' : search'[i] = c
  BY <1>5, <1>6
<1>8. ~wrapped' => \A i \in DOMAIN search' : search'[i].end <= next'
  BY <1>4, <1>5, <1>7
<1> QED
  BY <1>2, <1>3, <1>4, <1>7, <1>8 DEF SearchInv

(* The steps of the search. *)
LEMMA NotThereKeeps ==
  ASSUME SearchInv, NotThere
  PROVE  SearchInv'
<1>1. next' = next /\ wrapped' = wrapped /\ search # <<>> /\ Len(search) \in Nat
  BY DEF NotThere, SearchInv
<1>2. CASE SearchEnds
  <2>1. search' = <<>> /\ pos' = next /\ pc' # "search"
    BY <1>2 DEF SearchEnds, Step
  <2>2. search' \in Seq(Call) /\ DOMAIN search' = {}
    BY <2>1
  <2> QED
    BY <1>1, <2>1, <2>2 DEF SearchInv
<1>3. CASE ~SearchEnds
  <2>1. Len(search) > 1 /\ search' = Return /\ pc' = "search" /\ pos' = pos
    BY <1>3 DEF NotThere, Step
  <2>2. Return \in Seq(Call) /\ Len(Return) = Len(search) - 1
        /\ \A i \in DOMAIN Return : i \in DOMAIN search /\ Return[i] = search[i]
    BY <1>1, InnermostIsCall
  <2>3. Return # <<>>
    BY <1>1, <2>1, <2>2
  <2> QED
    BY <1>1, <2>1, <2>2, <2>3 DEF SearchInv
<1> QED
  BY <1>2, <1>3

LEMMA SuperIndexKeeps ==
  ASSUME SearchInv, SuperIndex
  PROVE  SearchInv'
<1>1. next' = next /\ wrapped' = wrapped /\ search' = <<>> /\ pos' = next
      /\ pc' # "search"
  BY DEF SuperIndex, SearchEnds, Step
<1>2. search' \in Seq(Call) /\ DOMAIN search' = {}
  BY <1>1
<1> QED
  BY <1>1, <1>2 DEF SearchInv

LEMMA SearchNextKeeps ==
  ASSUME SearchInv, SearchNext
  PROVE  SearchInv'
<1>1. PICK h \in Headers : Note(h) /\ search' = MoveOn(Innermost, h)
  BY DEF SearchNext
<1>2. pc' = "search" /\ search # <<>> /\ pos' = pos /\ next' = next
      /\ pos \in Int /\ next \in Int
  BY DEF SearchNext, SearchInv, Step, walk
<1>3. /\ search' \in Seq(Call) /\ search' # <<>>
      /\ Len(search') = Len(search)
      /\ \A i \in DOMAIN search' : search'[i].end = search[i].end
  BY <1>1, <1>2, MoveOnStays
<1>4. wrapped' \in BOOLEAN /\ (~wrapped' => ~wrapped)
  BY <1>1, <1>2, ChunkEndsBeforeNext
<1>5. DOMAIN search' = DOMAIN search
  BY <1>3 DEF SearchInv
<1>6. ~wrapped' => \A i \in DOMAIN search' : search'[i].end <= next'
  BY <1>2, <1>3, <1>4, <1>5 DEF SearchInv
<1> QED
  BY <1>2, <1>3, <1>4, <1>6 DEF SearchInv

(* The inner list ends where its chunk does, inside the list it was found
   in: the chunk was seen to fit before the call. *)
LEMMA SearchInnerKeeps ==
  ASSUME SearchInv, SearchInner
  PROVE  SearchInv'
<1> DEFINE c == Innermost
<1>1. PICK h \in Headers :
        /\ After(c.pos, h.size) <= c.end
        /\ Note(h)
        /\ search' = Append(MoveOn(c, h), Child(c.pos, h.size))
  BY DEF SearchInner, Fits
<1>2. pc' = "search" /\ search # <<>> /\ pos' = pos /\ next' = next
      /\ pos \in Int /\ next \in Int
  BY DEF SearchInner, SearchInv, Step, walk
<1>3. c \in Call /\ Len(search) \in DOMAIN search
  BY <1>2, InnermostIsCall
<1>4. c.pos \in Int /\ c.end \in Int
  BY <1>3 DEF Call
<1>5. h.size \in Int /\ After(c.pos, h.size) \in Int
  BY <1>4, AfterIsInt
<1>6. /\ wrapped' \in BOOLEAN
      /\ ~wrapped' => ~wrapped /\ c.pos + 8 + h.size <= After(c.pos, h.size)
  BY <1>1, <1>4, ChunkEndsBeforeNext
<1>7. ~wrapped' => c.end <= next
  BY <1>3, <1>6 DEF SearchInv, Innermost
<1> DEFINE s == MoveOn(c, h)
           d == Child(c.pos, h.size)
<1>8. /\ s \in Seq(Call) /\ s # <<>>
      /\ Len(s) = Len(search)
      /\ \A i \in DOMAIN s : s[i].end = search[i].end
  BY <1>2, MoveOnStays
<1>9. d \in Call /\ d.end = c.pos + 8 + h.size
  BY <1>4, <1>5 DEF Call, Child
<1> HIDE DEF c, s, d
<1>10. search' = Append(s, d)
  BY <1>1 DEF s, d
<1>11. search' \in Seq(Call) /\ search' # <<>>
  BY <1>8, <1>9, <1>10
<1>12. ~wrapped' => d.end <= next
  BY <1>1, <1>2, <1>4, <1>5, <1>6, <1>7, <1>9
<1>13. ASSUME ~wrapped', NEW i \in DOMAIN search'
       PROVE  search'[i].end <= next'
  <2>1. i \in 1 .. Len(s) + 1 /\ Len(s) \in Nat
    BY <1>8, <1>9, <1>10
  <2>2. CASE i = Len(s) + 1
    BY <1>2, <1>8, <1>9, <1>10, <1>12, <1>13, <2>1, <2>2
  <2>3. CASE i # Len(s) + 1
    <3>1. i \in DOMAIN s /\ i \in DOMAIN search /\ search'[i] = s[i]
      BY <1>8, <1>9, <1>10, <2>1, <2>3 DEF SearchInv
    <3> QED
      BY <1>2, <1>6, <1>8, <1>13, <3>1 DEF SearchInv
  <2> QED
    BY <2>2, <2>3
<1> QED
  BY <1>2, <1>6, <1>11, <1>13 DEF SearchInv

(* SearchInv is inductive. *)
LEMMA SearchStep == SearchInv /\ [Next]_vars => SearchInv'
<1> SUFFICES ASSUME SearchInv, [Next]_vars PROVE SearchInv'
  OBVIOUS
<1>1. CASE Open \/ TopEnds \/ SkipList \/ Other \/ Index
                \/ ReadBlock \/ IndexEnds \/ Continuation \/ AvixEnds
  BY <1>1, WalkKeeps
<1>2. CASE HeaderList
  BY <1>2, HeaderListKeeps
<1>3. CASE NotThere
  BY <1>3, NotThereKeeps
<1>4. CASE SuperIndex
  BY <1>4, SuperIndexKeeps
<1>5. CASE SearchNext
  BY <1>5, SearchNextKeeps
<1>6. CASE SearchInner
  BY <1>6, SearchInnerKeeps
<1>7. CASE UNCHANGED vars
  BY <1>7 DEF vars, walk, SearchInv
<1> QED
  BY <1>1, <1>2, <1>3, <1>4, <1>5, <1>6, <1>7 DEF Next

(* The search for an OpenDML index reads no header behind the list where
   the walk found "hdrl", however its lists are nested, unless the size of
   a chunk is 2^32 - 1 (AVICheck.cpp:78-110). *)
THEOREM SearchSafe == Spec => []SearchStaysInList
<1>1. SearchInv => SearchStaysInList
  <2> SUFFICES ASSUME SearchInv, search # <<>>, ~wrapped,
                      Innermost.pos + 8 <= Innermost.end
               PROVE  Innermost.pos + 8 <= next
    BY DEF SearchStaysInList
  <2>1. Innermost \in Call /\ Len(search) \in DOMAIN search
    BY InnermostIsCall
  <2>2. Innermost.end <= next /\ next \in Int
    BY <2>1 DEF SearchInv, Innermost
  <2>3. Innermost.pos \in Int /\ Innermost.end \in Int
    BY <2>1 DEF Call
  <2> QED
    BY <2>2, <2>3
<1> QED
  BY <1>1, InitSearch, SearchStep, PTL DEF Spec

-----------------------------------------------------------------------------
(* What is called OK was read.  The walk has passed 8 bytes for each list it
   noted and 24 for an index with a frame, and the last of them was there. *)

Room == 12 + (IF hasHdrl THEN 8 ELSE 0) + (IF hasMovi THEN 8 ELSE 0)
           + (IF entries > 0 THEN 8 + EntrySize ELSE 0)

TypeInv ==
  /\ actual \in Nat /\ pos \in Int /\ next \in Int
  /\ hasHdrl \in BOOLEAN /\ hasMovi \in BOOLEAN /\ wrapped \in BOOLEAN
  /\ remaining \in Int /\ read \in Int /\ videoFrames \in Int /\ entries \in Int
  /\ known.header.size \in Int

(* An entry that was counted was read, inside the chunk and inside the file. *)
IndexInv ==
  /\ read >= 0 /\ remaining >= 0
  /\ pc # "idx" => read = 0 /\ videoFrames = 0
  /\ pc = "idx" => pos + 8 <= next
  /\ pc = "idx" /\ ~wrapped /\ (remaining > 0 \/ read > 0) => pos + 8 + EntrySize <= next
  /\ videoFrames > 0 => read > 0 /\ pos + 8 + EntrySize <= actual

RoomInv ==
  /\ pc \in {"open", "top", "idx"} => pos >= 12 /\ (~wrapped => Room <= pos)
  /\ pc = "search" => next >= 12 /\ (~wrapped => Room <= next)
  /\ Room > 12 /\ ~wrapped => Room <= actual
  /\ avih # 0 => 12 + 12 + 8 + 20 <= actual

ReadInv == TypeInv /\ IndexInv /\ RoomInv

(* A chunk has at least its header, and all of it unless its size wraps. *)
LEMMA AfterIsBehind ==
  ASSUME NEW p \in Int, NEW h \in Headers
  PROVE  /\ h.size \in Nat /\ After(p, h.size) \in Int /\ p + 8 <= After(p, h.size)
         /\ ~(PadEven(h.size) < h.size) => p + 8 + h.size <= After(p, h.size)
<1>1. h.size \in 0 .. W - 1 /\ W \in Nat /\ W > 64
  BY AviCheckAssumption DEF Headers
<1>2. (h.size + 1) % W \in 0 .. W - 1
  BY <1>1
<1>3. PadEven(h.size) \in Nat
  BY <1>2 DEF PadEven
<1> QED
  BY <1>1, <1>3 DEF After

LEMMA InitRead == Init => ReadInv
<1> SUFFICES ASSUME Init PROVE ReadInv
  OBVIOUS
<1>1. TypeInv
  <2>1. wrapped \in BOOLEAN /\ hasHdrl \in BOOLEAN /\ hasMovi \in BOOLEAN
    BY Zenon DEF Init
  <2>2. known.header.size \in Int
    BY DEF Init, Unread
  <2>3. actual \in Nat
    BY AviCheckAssumption DEF Init
  <2> QED
    BY <2>1, <2>2, <2>3 DEF Init, TypeInv
<1>2. IndexInv
  BY DEF Init, IndexInv
<1>3. RoomInv
  BY DEF Init, RoomInv, Room
<1> QED
  BY <1>1, <1>2, <1>3 DEF ReadInv

(* A chunk that the walk or the search passes. *)
LEMMA PassesChunk ==
  ASSUME ReadInv, NEW h \in Headers, Note(h)
  PROVE  LET a == After(pos, h.size)
         IN  /\ a \in Int /\ pos + 8 <= a /\ h.size \in Nat /\ wrapped' \in BOOLEAN
             /\ ~wrapped' => ~wrapped /\ pos + 8 + h.size <= a
<1>1. pos \in Int /\ wrapped \in BOOLEAN
  BY DEF ReadInv, TypeInv
<1>2. wrapped' \in BOOLEAN /\ (~wrapped' => ~wrapped /\ ~(PadEven(h.size) < h.size))
  BY <1>1 DEF Note
<1> QED
  BY <1>1, <1>2, AfterIsBehind

(* A header that is read has a size, also if it was read before. *)
LEMMA HeaderSizes ==
  ASSUME ReadInv
  PROVE  \A p : \A h \in HeadersAt(p) : h.size \in Int
<1>1. \A h \in Headers : h.size \in Int
  BY AfterIsInt
<1> QED
  BY <1>1 DEF ReadInv, TypeInv, HeadersAt

(* What Room is made of. *)
LEMMA RoomIs ==
  ASSUME TypeInv
  PROVE  /\ Room \in Int /\ Room >= 12
         /\ Room > 12 <=> hasHdrl \/ hasMovi \/ entries > 0
BY DEF TypeInv, Room, EntrySize

LEMMA SkipListReads ==
  ASSUME ReadInv, SkipList
  PROVE  ReadInv'
<1>1. PICK h \in Headers :
        Note(h) /\ CanRead(pos + 8, 4) /\ pos' = After(pos, h.size)
  BY DEF SkipList
<1>2. /\ pc = "top" /\ pc' = "top" /\ hasMovi' \in BOOLEAN
      /\ UNCHANGED <<actual, next, known, avih, hasHdrl, remaining, read, videoFrames, entries>>
  BY DEF SkipList, Step, scan, counts
<1>3. /\ pos' \in Int /\ pos + 8 <= pos' /\ wrapped' \in BOOLEAN
      /\ ~wrapped' => ~wrapped
  BY <1>1, PassesChunk
<1>4. TypeInv'
  BY <1>2, <1>3 DEF ReadInv, TypeInv
<1>5. IndexInv'
  BY <1>2 DEF ReadInv, IndexInv
<1>6. Room \in Int /\ Room' \in Int /\ Room' <= Room + 8
  BY <1>2, <1>4 DEF ReadInv, TypeInv, Room, EntrySize
<1>7. pos + 12 <= actual
  BY <1>1 DEF CanRead, ReadInv, TypeInv
<1>8. pos >= 12 /\ (~wrapped => Room <= pos)
  BY <1>2 DEF ReadInv, RoomInv
<1>9. RoomInv'
  BY <1>2, <1>3, <1>4, <1>6, <1>7, <1>8 DEF ReadInv, RoomInv, TypeInv
<1> QED
  BY <1>4, <1>5, <1>9 DEF ReadInv

LEMMA OtherReads ==
  ASSUME ReadInv, Other
  PROVE  ReadInv'
<1>1. PICK h \in Headers : Note(h) /\ pos' = After(pos, h.size)
  BY DEF Other
<1>2. /\ pc = "top" /\ pc' = "top"
      /\ UNCHANGED <<actual, next, known, avih, hasHdrl, hasMovi, remaining, read, videoFrames,
                     entries>>
  BY DEF Other, Step, scan, counts
<1>3. /\ pos' \in Int /\ pos + 8 <= pos' /\ wrapped' \in BOOLEAN
      /\ ~wrapped' => ~wrapped
  BY <1>1, PassesChunk
<1>4. TypeInv'
  BY <1>2, <1>3 DEF ReadInv, TypeInv
<1>5. IndexInv'
  BY <1>2 DEF ReadInv, IndexInv
<1>6. Room \in Int /\ Room' = Room
  BY <1>2, RoomIs DEF ReadInv, Room
<1>7. RoomInv'
  BY <1>2, <1>3, <1>4, <1>6 DEF ReadInv, RoomInv, TypeInv
<1> QED
  BY <1>4, <1>5, <1>7 DEF ReadInv

(* The header list: its type was read, and so was what avih got. *)
LEMMA HeaderListReads ==
  ASSUME ReadInv, HeaderList
  PROVE  ReadInv'
<1>1. PICK h \in Headers :
        Note(h) /\ CanRead(pos + 8, 4) /\ next' = After(pos, h.size)
  BY DEF HeaderList
<1>2. /\ pc = "top" /\ pc' = "search" /\ hasHdrl' = TRUE
      /\ UNCHANGED <<actual, pos, hasMovi, remaining, read, videoFrames, entries>>
  BY DEF HeaderList, Step, scan, counts
<1>3. /\ next' \in Int /\ pos + 8 <= next' /\ wrapped' \in BOOLEAN
      /\ ~wrapped' => ~wrapped
  BY <1>1, PassesChunk
<1>4. TypeInv'
  <2>1. known'.header.size \in Int
    BY HeaderSizes DEF HeaderList, ReadInv, TypeInv
  <2> QED
    BY <1>2, <1>3, <2>1 DEF ReadInv, TypeInv
<1>5. IndexInv'
  BY <1>2 DEF ReadInv, IndexInv
<1>6. Room \in Int /\ Room' \in Int /\ Room' <= Room + 8
  BY <1>2, <1>4 DEF ReadInv, TypeInv, Room, EntrySize
<1>7. pos + 12 <= actual
  BY <1>1 DEF CanRead, ReadInv, TypeInv
<1>8. pos \in Int /\ pos >= 12 /\ (~wrapped => Room <= pos)
  BY <1>2 DEF ReadInv, RoomInv, TypeInv
<1>9. avih' = avih \/ 12 + 12 + 8 + 20 <= actual
  <2>1. CASE avih' # avih
    <3>1. PICK first \in HeadersAt(pos + 12) : avih' \in FramesRead(first, pos + 12)
      BY <2>1 DEF HeaderList
    <3> DEFINE n == Min2(first.size, AvihSize)
    <3>2. CanRead(pos + 12 + 8, n) /\ n >= 20
      BY <2>1, <3>1 DEF FramesRead
    <3>3. first.size \in Int
      BY HeaderSizes
    <3>4. n \in Int
      BY <3>3 DEF Min2, AvihSize
    <3> HIDE DEF n
    <3> QED
      BY <1>8, <3>2, <3>4 DEF CanRead, ReadInv, TypeInv
  <2> QED
    BY <2>1
<1>10. RoomInv'
  BY <1>2, <1>3, <1>4, <1>6, <1>7, <1>8, <1>9 DEF ReadInv, RoomInv, TypeInv
<1> QED
  BY <1>4, <1>5, <1>10 DEF ReadInv

(* An index that has an entry has room for it, unless its size wraps. *)
LEMMA IndexReads ==
  ASSUME ReadInv, Index
  PROVE  ReadInv'
<1>1. PICK h \in Headers :
        Note(h) /\ next' = After(pos, h.size) /\ remaining' = h.size \div EntrySize
  BY DEF Index
<1>2. /\ pc = "top" /\ pc' = "idx"
      /\ UNCHANGED <<actual, pos, known, avih, hasHdrl, hasMovi, read, videoFrames, entries>>
  BY DEF Index, Step, counts
<1>3. /\ next' \in Int /\ pos + 8 <= next' /\ wrapped' \in BOOLEAN /\ h.size \in Nat
      /\ ~wrapped' => ~wrapped /\ pos + 8 + h.size <= next'
  BY <1>1, PassesChunk
<1>4. remaining' \in Nat /\ (remaining' > 0 => h.size >= EntrySize)
  BY <1>1, <1>3 DEF EntrySize
<1>5. TypeInv'
  BY <1>2, <1>3, <1>4 DEF ReadInv, TypeInv
<1>6. read = 0 /\ videoFrames = 0
  BY <1>2 DEF ReadInv, IndexInv
<1>7. IndexInv'
  BY <1>2, <1>3, <1>4, <1>5, <1>6 DEF ReadInv, IndexInv, TypeInv, EntrySize
<1>8. Room' = Room
  BY <1>2 DEF Room
<1>9. RoomInv'
  BY <1>2, <1>3, <1>8 DEF ReadInv, RoomInv
<1> QED
  BY <1>5, <1>7, <1>9 DEF ReadInv

LEMMA BlockReads ==
  ASSUME ReadInv, ReadBlock
  PROVE  ReadInv'
<1> DEFINE batch == Min2(remaining, BATCH)
<1>1. /\ remaining > 0 /\ pc = "idx" /\ pc' = "idx"
      /\ BlockFits(pos + 8 + EntrySize * read, batch)
      /\ remaining' = remaining - batch /\ read' = read + batch
      /\ \E v \in 0 .. batch : videoFrames' = videoFrames + v
      /\ UNCHANGED <<actual, pos, next, known, avih, hasHdrl, hasMovi, entries, wrapped>>
  BY DEF ReadBlock, Step, walk, found, counts
<1>2. remaining \in Nat /\ read \in Nat /\ videoFrames \in Int /\ pos \in Int /\ actual \in Nat
  BY DEF ReadInv, TypeInv, IndexInv
<1>3. batch \in Nat /\ 0 < batch /\ batch <= remaining
  BY <1>1, <1>2, AviCheckAssumption DEF Min2
<1> HIDE DEF batch
<1>4. TypeInv'
  BY <1>1, <1>2, <1>3 DEF ReadInv, TypeInv
<1>5. pos + 8 + EntrySize <= actual
  BY <1>1, <1>2, <1>3 DEF BlockFits, CanRead, EntrySize
<1>6. read' > 0 /\ remaining' >= 0 /\ remaining > 0
  BY <1>1, <1>2, <1>3
<1>7. IndexInv'
  BY <1>1, <1>2, <1>5, <1>6 DEF ReadInv, IndexInv
<1>8. Room' = Room
  BY <1>1 DEF Room
<1>9. RoomInv'
  BY <1>1, <1>8 DEF ReadInv, RoomInv
<1> QED
  BY <1>4, <1>7, <1>9 DEF ReadInv

LEMMA IndexEndsReads ==
  ASSUME ReadInv, IndexEnds
  PROVE  ReadInv'
<1>1. /\ pc = "idx" /\ pc' = "top" /\ pos' = next /\ entries' = videoFrames
      /\ remaining' = 0 /\ read' = 0 /\ videoFrames' = 0
      /\ UNCHANGED <<actual, next, known, avih, hasHdrl, hasMovi, wrapped>>
  BY DEF IndexEnds, Step, found
<1>2. TypeInv'
  BY <1>1 DEF ReadInv, TypeInv
<1>3. IndexInv'
  BY <1>1 DEF ReadInv, IndexInv
<1>4. /\ pos \in Int /\ next \in Int /\ actual \in Nat /\ pos >= 12
      /\ pos + 8 <= next /\ (~wrapped => Room <= pos)
      /\ videoFrames > 0 => /\ pos + 8 + EntrySize <= actual
                            /\ ~wrapped => pos + 8 + EntrySize <= next
  BY <1>1 DEF ReadInv, TypeInv, IndexInv, RoomInv
<1>5. Room \in Int /\ Room' \in Int
  BY <1>2 DEF ReadInv, TypeInv, Room, EntrySize
<1>6. /\ videoFrames > 0 => Room' <= Room + 8 + EntrySize
      /\ ~(videoFrames > 0) => Room' <= Room
  BY <1>1, <1>2 DEF ReadInv, TypeInv, Room, EntrySize
<1>7. next >= 12
  BY <1>4
<1>8. RoomInv'
  BY <1>1, <1>4, <1>5, <1>6, <1>7 DEF ReadInv, RoomInv, EntrySize
<1> QED
  BY <1>2, <1>3, <1>8 DEF ReadInv

(* The other steps: none notes anything, and the walk goes on at next. *)
LEMMA OthersRead ==
  ASSUME ReadInv, \/ Open \/ TopEnds \/ NotThere \/ SuperIndex \/ SearchNext \/ SearchInner
                  \/ Continuation \/ AvixEnds \/ UNCHANGED vars
  PROVE  ReadInv'
<1>1. UNCHANGED <<actual, next, avih, hasHdrl, hasMovi, remaining, read, videoFrames, entries>>
  BY DEF Open, TopEnds, NotThere, SuperIndex, SearchNext, SearchInner, SearchEnds, Continuation,
     AvixEnds, vars, walk, found, scan, counts
<1>2. wrapped' \in BOOLEAN /\ (~wrapped' => ~wrapped)
  BY DEF Open, TopEnds, NotThere, SuperIndex, SearchNext, SearchInner, Continuation,
     AvixEnds, vars, Note, ReadInv, TypeInv
<1>3. known'.header.size \in Int
  BY DEF Open, TopEnds, NotThere, SuperIndex, SearchNext, SearchInner, SearchEnds, Continuation,
     AvixEnds, vars, found, ReadInv, TypeInv, Unread
<1>4. \/ pc' = pc /\ pos' = pos
      \/ pc = "open" /\ pc' = "top" /\ pos' = pos
      \/ pc = "search" /\ pc' = "top" /\ pos' = next
      \/ pc' \in {"avix", "done"} /\ pc # "idx" /\ pos' \in Int
  <2>1. CASE Continuation
    BY <2>1, AfterIsBehind DEF Continuation, Step, ReadInv, TypeInv
  <2>2. CASE ~Continuation
    BY <2>2 DEF Open, TopEnds, NotThere, SuperIndex, SearchNext, SearchInner, SearchEnds,
       AvixEnds, vars, walk, Step, ReadInv, TypeInv
  <2> QED
    BY <2>1, <2>2
<1>5. TypeInv'
  BY <1>1, <1>2, <1>3, <1>4 DEF ReadInv, TypeInv
<1>6. IndexInv'
  BY <1>1, <1>2, <1>4 DEF ReadInv, IndexInv
<1>7. Room' = Room
  BY <1>1 DEF Room
<1>8. RoomInv'
  BY <1>1, <1>2, <1>4, <1>7 DEF ReadInv, RoomInv
<1> QED
  BY <1>5, <1>6, <1>8 DEF ReadInv

LEMMA ReadStep == ReadInv /\ [Next]_vars => ReadInv'
BY OthersRead, SkipListReads, OtherReads, HeaderListReads, IndexReads, BlockReads, IndexEndsReads
   DEF Next

(* Whatever sizes a file announces and wherever it was cut off, what is called OK
   is long enough for two lists and an index with a frame, unless the size of a
   chunk is 2^32 - 1 (AVICheck.cpp:169-238). *)
THEOREM OKHasContentsSafe == Spec => []OKHasContents
<1>1. ReadInv => OKHasContents
  <2> SUFFICES ASSUME ReadInv, Passed, ~wrapped
               PROVE  12 + 8 + 8 + 8 + EntrySize <= actual
    BY DEF OKHasContents
  <2>1. hasHdrl /\ hasMovi /\ (avih # 0 \/ entries > 0)
    BY DEF Passed, Valid, FrameCount
  <2> QED
    BY <2>1 DEF ReadInv, TypeInv, RoomInv, Room, EntrySize
<1> QED
  BY <1>1, InitRead, ReadStep, PTL DEF Spec
=============================================================================
