--------------------------- MODULE AviWriterProofs ---------------------------
(***************************************************************************)
(* Proofs about CAVIWriter for every radix, minimal width and set of       *)
(* dates, any number of files, crashes, and foreign and removed files:     *)
(* first that a file under its final name is whole, by WriterInv; then     *)
(* what the search for a name returns; then, by FilesInv, that the numbers *)
(* follow time, that the reported files are this session's captures, and   *)
(* that nothing captured is ever overwritten.                              *)
(***************************************************************************)
EXTENDS AviWriter, InductionFacts, TLAPS

(* The search for a name keeps to the kind of name it was asked for. *)
LEMMA SearchKeepsKind ==
  ASSUME NEW names, NEW tmp, NEW time, NEW width
  PROVE  GetCaptureFilename(names, tmp, time, width).tmp = tmp
BY DEF GetCaptureFilename

(* A renamed directory entry. *)
LEMMA RenamedEntry ==
  ASSUME NEW n, NEW b, NEW c, NEW x
  PROVE  [[name |-> n, by |-> b, complete |-> c] EXCEPT !.name = x]
           = [name |-> x, by |-> b, complete |-> c]
OBVIOUS

LEMMA InitWriterInv == Init => WriterInv
BY DEF Init, WriterInv, FinalNameMeansComplete

(* Each step keeps the invariant. *)
LEMMA NextWriterInv == WriterInv /\ [Next]_vars => WriterInv'
<1> SUFFICES ASSUME WriterInv, [Next]_vars
             PROVE  WriterInv'
  OBVIOUS
<1> USE DEF WriterInv, FinalNameMeansComplete, Step, writer, session, history
<1>1. CASE Construct
  <2>1. tmpfile'.tmp
    BY <1>1, SearchKeepsKind DEF Construct, TempName
  <2> QED
    BY <1>1, <2>1 DEF Construct
<1>2. CASE OpenFile
  <2> DEFINE new == [name |-> tmpfile, by |-> nFiles, complete |-> FALSE]
  <2>1. new.name.tmp
    BY <1>2 DEF OpenFile
  <2>2. \A f \in disk' : f \in disk \/ f = new
    BY <1>2 DEF OpenFile
  <2> QED
    BY <1>2, <2>1, <2>2 DEF OpenFile
<1>3. CASE DeliverEndOfStream
  BY <1>3 DEF DeliverEndOfStream
<1>4. CASE MuxCompletes
  <2>1. \A g \in disk' : \/ g \in disk /\ g.name # tmpfile
                         \/ \E f \in disk : g = Whole(f)
    BY <1>4 DEF MuxCompletes
  <2>2. tmpfile' = tmpfile /\ tmpfile.tmp /\ pc' = "stopped"
    BY <1>4 DEF MuxCompletes
  <2> QED
    BY <2>1, <2>2 DEF Whole
<1>5. CASE FindFinalName
  BY <1>5 DEF FindFinalName
<1>6. CASE Rename
  <2>1. ASSUME NEW f \in disk
        PROVE  [f EXCEPT !.name = finalPath]
                 = [name |-> finalPath, by |-> f.by, complete |-> f.complete]
    <3>1. f = [name |-> f.name, by |-> f.by, complete |-> f.complete]
      OBVIOUS
    <3> HIDE DEF WriterInv
    <3> QED
      BY <3>1, RenamedEntry
  <2>2. \A g \in disk' :
          \/ g \in disk
          \/ \E f \in disk : /\ f.name = tmpfile
                             /\ g = [name |-> finalPath, by |-> f.by, complete |-> f.complete]
    BY <1>6, <2>1 DEF Rename
  <2>3. \A f \in disk : f.name = tmpfile => f.complete
    BY <1>6 DEF Rename
  <2>4. pc' = "none"
    BY <1>6 DEF Rename
  <2> QED
    BY <2>2, <2>3, <2>4
<1>7. CASE RenameFails
  BY <1>7 DEF RenameFails
<1>8. CASE NewSession \/ ClockTicks
  BY <1>8 DEF NewSession, ClockTicks
<1>9. CASE Crash \/ Restart
  BY <1>9 DEF Crash, Restart
<1>10. CASE ForeignCreates
  BY <1>10 DEF ForeignCreates
<1>11. CASE UserRemoves
  BY <1>11 DEF UserRemoves
<1>12. CASE UNCHANGED vars
  BY <1>12 DEF vars
<1> QED
  BY <1>1, <1>2, <1>3, <1>4, <1>5, <1>6, <1>7, <1>8, <1>9, <1>10, <1>11, <1>12 DEF Next

(* A file that GetCaptureFilename named without "~" and FinalizeFile renamed is
   complete, whenever the process dies. *)
THEOREM FinalNameSafe == Spec => []FinalNameMeansComplete
<1>1. WriterInv => FinalNameMeansComplete
  BY DEF WriterInv
<1> QED
  BY InitWriterInv, NextWriterInv, <1>1, PTL DEF Spec

-----------------------------------------------------------------------------
(* The search for a name. *)

Tidy(n) == n.width = 0 => n.num = 0

SameSeries(m, n) == m.tmp = n.tmp /\ m.time = n.time /\ m.width = n.width

LEMMA DigitsOK == ASSUME NEW n \in Nat PROVE Digits(n) \in Nat \ {0}
<1> DEFINE T == {w \in 1 .. n : n < Radix^w} \cup {n + 1}
<1>1. T \subseteq Nat \ {0} /\ T # {}
  OBVIOUS
<1>2. Digits(n) = Min(T)
  BY DEF Digits
<1> HIDE DEF T
<1> QED
  BY <1>1, <1>2, MinIs

(* The next number is larger than all, and -1 + 1 without any. *)
LEMMA NextNumberIs ==
  ASSUME NEW nums, nums \subseteq Nat, IsFiniteSet(nums)
  PROVE  NextNumber(nums) \in Nat /\ \A i \in nums : i < NextNumber(nums)
<1> DEFINE T == {-1} \cup nums
<1>1. T \subseteq Int /\ T # {} /\ -1 \in T
  OBVIOUS
<1>2. IsFiniteSet(T)
  <2>1. IsFiniteSet({-1})
    BY FS_Singleton
  <2> QED
    BY <2>1, FS_Union
<1> DEFINE m == Max(T)
<1>3. m \in T /\ \A y \in T : y <= m
  BY <1>1, <1>2, MaxIs
<1>4. NextNumber(nums) = m + 1
  BY DEF NextNumber
<1> HIDE DEF m
<1>5. m \in Int /\ m >= -1 /\ \A i \in nums : i \in Int /\ i <= m
  BY <1>1, <1>3
<1> QED
  BY <1>4, <1>5

LEMMA PaddedWidthIs ==
  ASSUME NEW width \in Nat, NEW num \in Nat
  PROVE  PaddedWidth(width, num) \in Nat \ {0} /\ PaddedWidth(width, num) >= width
<1> DEFINE T == {width, Digits(num)}
<1>1. Digits(num) \in Nat \ {0}
  BY DigitsOK
<1>2. T \subseteq Int /\ T # {} /\ width \in T /\ Digits(num) \in T /\ T \subseteq Nat
  BY <1>1
<1>3. IsFiniteSet(T)
  <2>1. IsFiniteSet({width})
    BY FS_Singleton
  <2>2. IsFiniteSet({width} \cup {Digits(num)})
    BY <2>1, FS_AddElement
  <2>3. T = {width} \cup {Digits(num)}
    OBVIOUS
  <2> QED
    BY <2>2, <2>3
<1> DEFINE m == Max(T)
<1>4. m \in T /\ \A y \in T : y <= m
  BY <1>2, <1>3, MaxIs
<1>5. PaddedWidth(width, num) = m
  BY DEF PaddedWidth
<1> HIDE DEF m
<1>6. m \in Nat /\ width <= m /\ Digits(num) <= m
  BY <1>2, <1>4
<1> QED
  BY <1>1, <1>5, <1>6

(* The parts of a name. *)
LEMMA NameParts ==
  ASSUME NEW n \in Names
  PROVE  /\ n.tmp \in BOOLEAN /\ n.time \in Times /\ n.width \in Nat /\ n.num \in Nat
         /\ n = [tmp |-> n.tmp, time |-> n.time, width |-> n.width, num |-> n.num]
BY DEF Names

(* The name that is found comes after all names of its series: with the same
   date and as many digits. *)
LEMMA SearchFollows ==
  ASSUME NEW names, names \subseteq Names, IsFiniteSet(names),
         NEW tmp \in BOOLEAN, NEW time \in Times, NEW w \in Nat
  PROVE  LET n == GetCaptureFilename(names, tmp, time, w)
         IN  /\ n \in Names /\ n.tmp = tmp /\ Tidy(n)
             /\ \A m \in names : Tidy(m) /\ SameSeries(m, n) => m.num < n.num
<1> DEFINE all    == Numbered(names, tmp, time, w)
           widths == {n.width : n \in all}
           width  == Max({w} \cup widths)
           wide   == {m \in all : m.width = width}
           nums   == {n.num : n \in wide}
           num    == NextNumber(nums)
           plain  == [tmp |-> tmp, time |-> time, width |-> 0, num |-> 0]
           pw     == PaddedWidth(width, num)
           long   == [plain EXCEPT !.width = pw, !.num = num]
<1>1. all \in SUBSET names /\ \A m \in all : m \in Names
  BY DEF Numbered
<1>2. widths \subseteq Nat /\ IsFiniteSet(widths)
  <2> DEFINE f == [m \in all |-> m.width]
  <2>1. IsFiniteSet(all)
    BY <1>1, FS_Subset
  <2>2. \A m \in all : m.width \in Nat
    BY <1>1, NameParts
  <2>3. f \in [all -> Nat] /\ widths = {f[m] : m \in all}
    BY <2>2
  <2>4. IsFiniteSet({f[m] : m \in all})
    <3> HIDE DEF all, f
    <3> QED
      BY <2>1, <2>3, ImageFinite
  <2> QED
    BY <2>2, <2>3, <2>4
<1>3. width \in Nat /\ w <= width /\ \A m \in all : m.width <= width
  <2> DEFINE T == {w} \cup widths
  <2>1. T \subseteq Int /\ T # {} /\ T \subseteq Nat /\ w \in T /\ widths \subseteq T
    BY <1>2
  <2>2. IsFiniteSet(T)
    BY <1>2, FS_Singleton, FS_Union
  <2>3. Max(T) \in T /\ \A y \in T : y <= Max(T)
    BY <2>1, <2>2, MaxIs
  <2>4. \A m \in all : m.width \in T
    OBVIOUS
  <2>5. width = Max(T)
    OBVIOUS
  <2> HIDE DEF T, width, all, widths
  <2> QED
    BY <2>1, <2>3, <2>4, <2>5
<1>4. nums \subseteq Nat /\ IsFiniteSet(nums)
  <2> DEFINE f == [m \in wide |-> m.num]
  <2>1. wide \in SUBSET names /\ IsFiniteSet(wide)
    BY <1>1, FS_Subset
  <2>2. \A m \in wide : m.num \in Nat
    BY <1>1, NameParts
  <2>3. f \in [wide -> Nat] /\ nums = {f[m] : m \in wide}
    BY <2>2
  <2>4. IsFiniteSet({f[m] : m \in wide})
    <3> HIDE DEF wide, f
    <3> QED
      BY <2>1, <2>3, ImageFinite
  <2> QED
    BY <2>2, <2>3, <2>4
<1>5. num \in Nat /\ \A m \in wide : m.num < num
  <2>1. num \in Nat /\ \A i \in nums : i < num
    BY <1>4, NextNumberIs
  <2> QED
    BY <2>1
<1>6. pw \in Nat \ {0} /\ width <= pw
  BY <1>3, <1>5, PaddedWidthIs
<1>7. plain \in Names /\ plain.tmp = tmp /\ plain.time = time /\ plain.width = 0 /\ plain.num = 0
  BY DEF Names
<1>8. GetCaptureFilename(names, tmp, time, w)
        = IF width = 0 /\ plain \notin names THEN plain ELSE long
  BY DEF GetCaptureFilename
<1>9. \A m \in all : m.width = width => m \in wide
  OBVIOUS
<1>10. \A m \in names : m.tmp = tmp /\ m.time = time /\ m.width > 0 /\ m.width >= w => m \in all
  BY DEF Numbered
<1> HIDE DEF all, widths, width, wide, nums, num, pw
<1>11. CASE width = 0 /\ plain \notin names
  <2>1. ASSUME NEW m \in names, Tidy(m), SameSeries(m, plain)
        PROVE  FALSE
    <3>1. m.tmp = tmp /\ m.time = time /\ m.width = 0 /\ m.num = 0
      BY <1>7, <2>1 DEF SameSeries, Tidy
    <3>2. m = plain
      BY <3>1, NameParts
    <3> QED
      BY <1>11, <3>2
  <2>2. Tidy(plain)
    BY <1>7 DEF Tidy
  <2> HIDE DEF plain, long
  <2> QED
    BY <1>7, <1>8, <1>11, <2>1, <2>2
<1>12. CASE ~ (width = 0 /\ plain \notin names)
  <2>1. /\ long \in Names /\ long.tmp = tmp /\ long.time = time
        /\ long.width = pw /\ long.num = num
    BY <1>5, <1>6 DEF Names
  <2>2. Tidy(long)
    BY <1>6, <2>1 DEF Tidy
  <2>3. ASSUME NEW m \in names, SameSeries(m, long)
        PROVE  m.num < num
    <3>1. m.tmp = tmp /\ m.time = time /\ m.width = pw
      BY <2>1, <2>3 DEF SameSeries
    <3>2. m \in all
      BY <1>3, <1>6, <1>10, <3>1
    <3>3. m.width = width
      BY <1>3, <1>6, <3>1, <3>2
    <3> QED
      BY <1>5, <1>9, <3>2, <3>3
  <2> HIDE DEF plain, long
  <2> QED
    BY <1>8, <1>12, <2>1, <2>2, <2>3
<1> QED
  BY <1>11, <1>12

-----------------------------------------------------------------------------
(* The captured files and their order. *)

Entry(n, b, c) == [name |-> n, by |-> b, complete |-> c]
Entries        == [name : Names, by : Nat, complete : BOOLEAN]

Busy    == pc \in {"named", "writing", "mux", "stopped", "rename"}
Written == pc \in {"writing", "mux", "stopped", "rename"}

(* The name n of the writer b comes after the names that earlier writers have in
   the directory d. *)
Follows(d, n, b) ==
  \A f \in d : f.by \in 1 .. b - 1 /\ SameSeries(f.name, n) => f.name.num < n.num

AllFollow(d) == \A g \in d : Follows(d, g.name, g.by)

TypeInv ==
  /\ disk \in SUBSET Entries /\ IsFiniteSet(disk) /\ nFiles \in Nat
  /\ clock \in Times /\ dvtime \in Times \cup {NoTime} /\ digits \in Nat
  /\ Busy => tmpfile \in Names
  /\ pc = "rename" => finalPath \in Names

(* The next two names of a writer come after those of the writers before. *)
SeriesInv ==
  /\ AllFollow(disk)
  /\ \A f \in disk : f.by <= nFiles /\ (f.by # 0 => Tidy(f.name))
  /\ Busy => Tidy(tmpfile) /\ Follows(disk, tmpfile, nFiles)
  /\ pc = "rename" => Tidy(finalPath) /\ Follows(disk, finalPath, nFiles)

(* The file of the writer has its temporary name. *)
OwnInv ==
  /\ Busy => nFiles > 0
  /\ Busy => \A f \in disk : f.by = nFiles => pc # "named" /\ f.name = tmpfile
  /\ Written => nFiles \in removed
                  \/ Entry(tmpfile, nFiles, pc \in {"stopped", "rename"}) \in disk

(* The files that were reported are those of earlier writers. *)
ReportInv ==
  /\ finalized \in Seq(Names) /\ closed \in Seq(Nat) /\ Len(finalized) = Len(closed)
  /\ \A i \in 1 .. Len(closed) :
       /\ closed[i] \in 1 .. nFiles /\ (Busy => closed[i] < nFiles)
       /\ closed[i] \in removed \/ Entry(finalized[i], closed[i], TRUE) \in disk

FilesInv == TypeInv /\ SeriesInv /\ OwnInv /\ ReportInv

LEMMA EntryParts ==
  /\ \A f \in Entries : /\ f.name \in Names /\ f.by \in Nat /\ f.complete \in BOOLEAN
                        /\ f = Entry(f.name, f.by, f.complete)
  /\ \A n \in Names : \A b \in Nat : \A c \in BOOLEAN : Entry(n, b, c) \in Entries
  /\ \A n, b, c : Entry(n, b, c).name = n /\ Entry(n, b, c).by = b /\ Entry(n, b, c).complete = c
BY DEF Entries, Entry

(* The captures before k are the same, so what followed them still does. *)
LEMMA FollowsStays ==
  ASSUME NEW k \in Nat, NEW d, NEW e,
         \A g \in e : g.by \in 1 .. k - 1 => \E f \in d : f.by = g.by /\ f.name = g.name
  PROVE  \A n : \A b \in 0 .. k : Follows(d, n, b) => Follows(e, n, b)
<1> SUFFICES ASSUME NEW n, NEW b \in 0 .. k, Follows(d, n, b),
                    NEW g \in e, g.by \in 1 .. b - 1, SameSeries(g.name, n)
             PROVE  g.name.num < n.num
  BY DEF Follows
<1>1. g.by \in 1 .. k - 1
  OBVIOUS
<1>2. PICK f \in d : f.by = g.by /\ f.name = g.name
  BY <1>1
<1> QED
  BY <1>2 DEF Follows

(* The files keep their order when the last writer's follows the others. *)
LEMMA OrderStays ==
  ASSUME NEW k \in Nat, NEW d, NEW e, AllFollow(d),
         \A g \in e : g.by \in 0 .. k,
         \A g \in e : g.by \in 1 .. k - 1 => \E f \in d : f.by = g.by /\ f.name = g.name,
         \A g \in e : g.by = k => Follows(d, g.name, k)
  PROVE  AllFollow(e)
<1> SUFFICES ASSUME NEW g \in e PROVE Follows(e, g.name, g.by)
  BY DEF AllFollow
<1>1. CASE g.by = k
  BY <1>1, FollowsStays
<1>2. CASE g.by \in 1 .. k - 1
  <2>1. PICK f \in d : f.by = g.by /\ f.name = g.name
    BY <1>2
  <2>2. Follows(d, g.name, g.by)
    BY <2>1 DEF AllFollow
  <2>3. g.by \in 0 .. k
    OBVIOUS
  <2> QED
    BY <2>2, <2>3, FollowsStays
<1>3. CASE g.by = 0
  BY <1>3 DEF Follows
<1> QED
  BY <1>1, <1>2, <1>3

(* A name that follows the captures before is none of theirs. *)
LEMMA NameIsNew ==
  ASSUME TypeInv, SeriesInv, NEW n \in Names, NEW b, Follows(disk, n, b)
  PROVE  \A f \in disk : f.by \in 1 .. b - 1 => f.name # n
<1> SUFFICES ASSUME NEW f \in disk, f.by \in 1 .. b - 1, f.name = n
             PROVE  FALSE
  OBVIOUS
<1>1. f.name.num < n.num
  BY DEF Follows, SameSeries
<1>2. n.num \in Nat
  BY NameParts
<1> QED
  BY <1>1, <1>2

(* The names in a finite directory. *)
LEMMA OnDiskFinite ==
  ASSUME disk \in SUBSET Entries, IsFiniteSet(disk)
  PROVE  OnDisk \subseteq Names /\ IsFiniteSet(OnDisk)
<1> DEFINE f == [x \in disk |-> x.name]
<1>1. f \in [disk -> Names] /\ OnDisk = {f[x] : x \in disk}
  BY EntryParts DEF OnDisk
<1> HIDE DEF f
<1>2. IsFiniteSet({f[x] : x \in disk})
  BY <1>1, ImageFinite
<1> QED
  BY <1>1, <1>2

LEMMA InitFiles == Init => FilesInv
<1> SUFFICES ASSUME Init PROVE FilesInv
  OBVIOUS
<1>1. disk = {} /\ pc = "none" /\ finalized = <<>> /\ closed = <<>> /\ nFiles = 0
      /\ clock \in Times /\ dvtime = NoTime /\ digits = 0
  BY DEF Init
<1>2. TypeInv
  BY <1>1, FS_EmptySet DEF TypeInv, Busy
<1>3. SeriesInv
  BY <1>1 DEF SeriesInv, AllFollow, Busy
<1>4. OwnInv
  BY <1>1 DEF OwnInv, Busy, Written
<1>5. ReportInv
  BY <1>1 DEF ReportInv
<1> QED
  BY <1>2, <1>3, <1>4, <1>5 DEF FilesInv

(* The reports stay true when the files do. *)
LEMMA ReportStays ==
  ASSUME FilesInv, UNCHANGED session, nFiles' \in Nat, nFiles <= nFiles',
         Busy' => Busy \/ nFiles < nFiles', removed \subseteq removed',
         \A f \in disk : /\ f.complete /\ f.by \in 1 .. nFiles /\ (Busy => f.by < nFiles)
                         => f \in disk' \/ f.by \in removed'
  PROVE  ReportInv'
<1>1. finalized' = finalized /\ closed' = closed /\ nFiles \in Nat
  BY DEF session, FilesInv, TypeInv
<1>2. ASSUME NEW i \in 1 .. Len(closed)
      PROVE  /\ closed[i] \in 1 .. nFiles' /\ (Busy' => closed[i] < nFiles')
             /\ closed[i] \in removed' \/ Entry(finalized[i], closed[i], TRUE) \in disk'
  <2>1. /\ closed[i] \in 1 .. nFiles /\ (Busy => closed[i] < nFiles)
        /\ closed[i] \in removed \/ Entry(finalized[i], closed[i], TRUE) \in disk
    BY DEF FilesInv, ReportInv
  <2>2. closed[i] \in 1 .. nFiles' /\ (Busy' => closed[i] < nFiles')
    BY <1>1, <2>1
  <2>3. CASE closed[i] \in removed
    BY <2>3, <2>2
  <2>4. CASE Entry(finalized[i], closed[i], TRUE) \in disk
    <3> DEFINE x == Entry(finalized[i], closed[i], TRUE)
    <3>1. x.by = closed[i] /\ x.complete
      BY DEF Entry
    <3>2. x \in disk
      BY <2>4
    <3>3. x \in disk' \/ x.by \in removed'
      <4> HIDE DEF x
      <4> QED
        BY <2>1, <3>1, <3>2
    <3> QED
      BY <2>2, <3>1, <3>3
  <2> QED
    BY <2>1, <2>3, <2>4
<1> QED
  BY <1>1, <1>2 DEF ReportInv, FilesInv

(* The constructor finds a temporary name that none of its forerunners has. *)
LEMMA ConstructKeeps == ASSUME FilesInv, Construct PROVE FilesInv'
<1>1. /\ pc = "none" /\ pc' = "named" /\ nFiles' = nFiles + 1
      /\ dvtime' \in Times \cup {NoTime} /\ digits' \in Nat
      /\ UNCHANGED <<disk, clock, finalPath, session, removed>>
  BY AviWriterAssumption DEF Construct, Step
<1>2. /\ disk \in SUBSET Entries /\ IsFiniteSet(disk) /\ nFiles \in Nat /\ clock \in Times
      /\ \A f \in disk : f.by <= nFiles /\ f.by \in Nat /\ (f.by # 0 => Tidy(f.name))
  BY EntryParts DEF FilesInv, TypeInv, SeriesInv
<1>3. OnDisk \subseteq Names /\ IsFiniteSet(OnDisk)
  BY <1>2, OnDiskFinite
<1> DEFINE time == IF dvtime' = NoTime THEN clock ELSE dvtime'
<1>4. tmpfile' = GetCaptureFilename(OnDisk, TRUE, time, digits')
  BY DEF Construct, TempName
<1>5. time \in Times
  BY <1>1, <1>2
<1> HIDE DEF time
<1>6. /\ tmpfile' \in Names /\ Tidy(tmpfile')
      /\ \A m \in OnDisk : Tidy(m) /\ SameSeries(m, tmpfile') => m.num < tmpfile'.num
  BY <1>1, <1>3, <1>4, <1>5, SearchFollows
<1>7. Follows(disk, tmpfile', nFiles')
  <2> SUFFICES ASSUME NEW f \in disk, f.by \in 1 .. nFiles' - 1, SameSeries(f.name, tmpfile')
               PROVE  f.name.num < tmpfile'.num
    BY DEF Follows
  <2>1. f.name \in OnDisk /\ Tidy(f.name)
    BY <1>2 DEF OnDisk
  <2> QED
    BY <1>6, <2>1
<1>8. TypeInv'
  BY <1>1, <1>2, <1>6 DEF TypeInv, Busy
<1>9. SeriesInv'
  <2>1. AllFollow(disk') /\ pc' # "rename"
    BY <1>1 DEF FilesInv, SeriesInv
  <2>2. \A f \in disk' : f.by <= nFiles' /\ (f.by # 0 => Tidy(f.name))
    BY <1>1, <1>2
  <2>3. Tidy(tmpfile') /\ Follows(disk', tmpfile', nFiles')
    BY <1>1, <1>6, <1>7
  <2> QED
    BY <2>1, <2>2, <2>3 DEF SeriesInv
<1>10. OwnInv'
  BY <1>1, <1>2 DEF OwnInv, Written
<1>11. ReportInv'
  BY <1>1, <1>2, ReportStays
<1> QED
  BY <1>8, <1>9, <1>10, <1>11 DEF FilesInv

(* What the file overwrites is no capture. *)
LEMMA OpenFileKeeps ==
  ASSUME FilesInv, OpenFile
  PROVE  FilesInv' /\ \A f \in disk : f.by # 0 => f \in disk'
<1> DEFINE new == Entry(tmpfile, nFiles, FALSE)
<1>1. /\ pc = "named" /\ pc' = "writing"
      /\ disk' = {f \in disk : f.name # tmpfile} \cup {new}
      /\ UNCHANGED <<clock, dvtime, digits, tmpfile, finalPath, session, nFiles, removed>>
  BY DEF OpenFile, Step, writer, history, Entry
<1>2. /\ disk \in SUBSET Entries /\ IsFiniteSet(disk) /\ nFiles \in Nat /\ nFiles > 0
      /\ tmpfile \in Names /\ Tidy(tmpfile) /\ Follows(disk, tmpfile, nFiles) /\ AllFollow(disk)
  BY <1>1 DEF FilesInv, TypeInv, SeriesInv, OwnInv, Busy
<1>3. \A f \in disk : /\ f.by <= nFiles /\ f.by \in Nat /\ (f.by # 0 => Tidy(f.name))
                      /\ f.by # nFiles
  BY <1>1, EntryParts DEF FilesInv, TypeInv, SeriesInv, OwnInv, Busy
<1>4. new.name = tmpfile /\ new.by = nFiles /\ new \in Entries
  BY <1>2 DEF Entry, Entries
<1> HIDE DEF new
<1>5. \A f \in disk : f.by # 0 => f.name # tmpfile
  <2>1. \A f \in disk : f.by \in 1 .. nFiles - 1 => f.name # tmpfile
    BY <1>2, NameIsNew DEF FilesInv
  <2> QED
    BY <1>2, <1>3, <2>1
<1>6. \A f \in disk : f.by # 0 => f \in disk'
  BY <1>1, <1>5
<1>7. IsFiniteSet(disk')
  <2> DEFINE old == {f \in disk : f.name # tmpfile}
  <2>1. old \in SUBSET disk
    OBVIOUS
  <2>2. IsFiniteSet(old)
    BY <1>2, <2>1, FS_Subset
  <2>3. disk' = old \cup {new}
    BY <1>1
  <2> HIDE DEF old
  <2> QED
    BY <2>2, <2>3, FS_AddElement
<1>8. TypeInv'
  BY <1>1, <1>2, <1>4, <1>7 DEF FilesInv, TypeInv, Busy
<1>9. \A g \in disk' : g \in disk \/ g = new
  BY <1>1
<1>10. \A g \in disk' : g.by \in 0 .. nFiles /\ (g.by # 0 => Tidy(g.name))
  BY <1>2, <1>3, <1>4, <1>9
<1>11. \A g \in disk' : g.by \in 1 .. nFiles - 1 => \E f \in disk : f.by = g.by /\ f.name = g.name
  BY <1>2, <1>4, <1>9
<1>12. \A g \in disk' : g.by = nFiles => Follows(disk, g.name, nFiles)
  BY <1>2, <1>3, <1>4, <1>9
<1>13. AllFollow(disk')
  BY <1>2, <1>10, <1>11, <1>12, OrderStays
<1>14. Follows(disk', tmpfile, nFiles)
  BY <1>2, <1>11, FollowsStays
<1>15. SeriesInv'
  BY <1>1, <1>2, <1>10, <1>13, <1>14 DEF SeriesInv
<1>16. OwnInv'
  <2>1. \A f \in disk' : f.by = nFiles => f.name = tmpfile
    BY <1>3, <1>4, <1>9
  <2>2. Entry(tmpfile, nFiles, FALSE) \in disk'
    BY <1>1 DEF new
  <2>3. (pc' \in {"stopped", "rename"}) = FALSE
    BY <1>1
  <2> QED
    BY <1>1, <1>2, <2>1, <2>2, <2>3 DEF OwnInv
<1>17. ReportInv'
  BY <1>1, <1>2, <1>6, ReportStays DEF Busy
<1> QED
  BY <1>6, <1>8, <1>15, <1>16, <1>17 DEF FilesInv

(* The mux completes the file; no name changes. *)
LEMMA MuxKeeps ==
  ASSUME FilesInv, MuxCompletes
  PROVE  /\ FilesInv'
         /\ \A f \in disk : f.by # 0 =>
              \E g \in disk' : g.by = f.by /\ (f.complete => g.complete)
<1> DEFINE h == [f \in disk |-> IF f.name = tmpfile THEN Whole(f) ELSE f]
<1>1. /\ pc = "mux" /\ pc' = "stopped" /\ disk' = {h[f] : f \in disk}
      /\ UNCHANGED <<clock, dvtime, digits, tmpfile, finalPath, session, nFiles, removed>>
  BY DEF MuxCompletes, Step, writer, history
<1>2. /\ disk \in SUBSET Entries /\ IsFiniteSet(disk) /\ nFiles \in Nat /\ nFiles > 0
      /\ tmpfile \in Names /\ Tidy(tmpfile) /\ Follows(disk, tmpfile, nFiles) /\ AllFollow(disk)
  BY <1>1 DEF FilesInv, TypeInv, SeriesInv, OwnInv, Busy
<1>3. \A f \in disk : /\ f.by <= nFiles /\ f.by \in Nat /\ (f.by # 0 => Tidy(f.name))
                      /\ f.by = nFiles => f.name = tmpfile
  BY <1>1, EntryParts DEF FilesInv, TypeInv, SeriesInv, OwnInv, Busy
<1>4. \A f \in disk : /\ h[f] \in Entries /\ h[f].name = f.name /\ h[f].by = f.by
                      /\ (f.complete => h[f].complete) /\ (f.complete => h[f] = f)
                      /\ f.name = tmpfile => h[f] = Entry(f.name, f.by, TRUE)
  <2> SUFFICES ASSUME NEW f \in disk
               PROVE  /\ h[f] \in Entries /\ h[f].name = f.name /\ h[f].by = f.by
                      /\ (f.complete => h[f].complete) /\ (f.complete => h[f] = f)
                      /\ f.name = tmpfile => h[f] = Entry(f.name, f.by, TRUE)
    OBVIOUS
  <2>1. /\ f \in Entries /\ f.name \in Names /\ f.by \in Nat /\ f.complete \in BOOLEAN
        /\ f = Entry(f.name, f.by, f.complete)
    BY <1>2, EntryParts
  <2>2. CASE f.name # tmpfile
    BY <2>1, <2>2
  <2>3. CASE f.name = tmpfile
    <3>1. h[f] = Entry(f.name, f.by, TRUE)
      BY <2>3 DEF Whole, Entry
    <3>2. /\ Entry(f.name, f.by, TRUE) \in Entries /\ Entry(f.name, f.by, TRUE).name = f.name
          /\ Entry(f.name, f.by, TRUE).by = f.by /\ Entry(f.name, f.by, TRUE).complete
      BY <2>1 DEF Entry, Entries
    <3>3. f.complete => f = Entry(f.name, f.by, TRUE)
      BY <2>1
    <3> HIDE DEF h
    <3> QED
      BY <3>1, <3>2, <3>3
  <2> QED
    BY <2>2, <2>3
<1>5. IsFiniteSet(disk')
  <2>1. h \in [disk -> Entries]
    BY <1>4
  <2> HIDE DEF h
  <2> QED
    BY <1>1, <1>2, <2>1, ImageFinite
<1> HIDE DEF h
<1>6. \A g \in disk' : g \in Entries /\ \E f \in disk : f.by = g.by /\ f.name = g.name
  <2> SUFFICES ASSUME NEW g \in disk'
               PROVE  g \in Entries /\ \E f \in disk : f.by = g.by /\ f.name = g.name
    OBVIOUS
  <2>1. PICK f \in disk : g = h[f]
    BY <1>1
  <2>2. h[f] \in Entries /\ h[f].name = f.name /\ h[f].by = f.by
    BY <1>4
  <2> QED
    BY <2>1, <2>2
<1>7. TypeInv'
  BY <1>1, <1>2, <1>5, <1>6 DEF FilesInv, TypeInv, Busy
<1>8. \A g \in disk' : /\ g.by \in 0 .. nFiles /\ (g.by # 0 => Tidy(g.name))
                       /\ g.by = nFiles => g.name = tmpfile
  <2> SUFFICES ASSUME NEW g \in disk'
               PROVE  /\ g.by \in 0 .. nFiles /\ (g.by # 0 => Tidy(g.name))
                      /\ g.by = nFiles => g.name = tmpfile
    OBVIOUS
  <2>1. PICK f \in disk : f.by = g.by /\ f.name = g.name
    BY <1>6
  <2> QED
    BY <1>2, <1>3, <2>1
<1>9. AllFollow(disk')
  <2>1. \A g \in disk' : g.by = nFiles => Follows(disk, g.name, nFiles)
    BY <1>2, <1>8
  <2> QED
    BY <1>2, <1>6, <1>8, <2>1, OrderStays
<1>10. Follows(disk', tmpfile, nFiles)
  BY <1>2, <1>6, FollowsStays
<1>11. SeriesInv'
  BY <1>1, <1>2, <1>8, <1>9, <1>10 DEF SeriesInv
<1>12. OwnInv'
  <2>1. nFiles \in removed \/ Entry(tmpfile, nFiles, TRUE) \in disk'
    <3>1. CASE nFiles \in removed
      BY <3>1
    <3>2. CASE Entry(tmpfile, nFiles, pc \in {"stopped", "rename"}) \in disk
      <4> DEFINE x == Entry(tmpfile, nFiles, pc \in {"stopped", "rename"})
      <4>1. x \in disk /\ x.name = tmpfile /\ x.by = nFiles
        BY <3>2 DEF Entry
      <4> HIDE DEF x
      <4>2. h[x] \in disk' /\ h[x] = Entry(x.name, x.by, TRUE)
        BY <1>1, <1>4, <4>1
      <4> QED
        BY <4>1, <4>2
    <3> QED
      BY <1>1, <3>1, <3>2 DEF FilesInv, OwnInv, Written
  <2>2. (pc' \in {"stopped", "rename"}) = TRUE
    BY <1>1
  <2> QED
    BY <1>1, <1>2, <1>8, <2>1, <2>2 DEF OwnInv
<1>13. ReportInv'
  <2>1. \A f \in disk : f.complete => f \in disk'
    BY <1>1, <1>4
  <2> QED
    BY <1>1, <1>2, <2>1, ReportStays DEF Busy
<1>14. ASSUME NEW f \in disk
       PROVE  \E g \in disk' : g.by = f.by /\ (f.complete => g.complete)
  <2>1. h[f] \in disk' /\ h[f].by = f.by /\ (f.complete => h[f].complete)
    BY <1>1, <1>4
  <2> QED
    BY <2>1
<1> QED
  BY <1>7, <1>11, <1>12, <1>13, <1>14 DEF FilesInv

(* The final name: it too comes after those of the writers before. *)
LEMMA FindFinalNameKeeps == ASSUME FilesInv, FindFinalName PROVE FilesInv'
<1>1. /\ pc = "stopped" /\ pc' = "rename"
      /\ finalPath' = GetCaptureFilename(OnDisk, FALSE, DateOf(dvtime), digits)
      /\ UNCHANGED <<disk, clock, dvtime, digits, tmpfile, session, nFiles, removed>>
  BY DEF FindFinalName, Step, history
<1>2. /\ disk \in SUBSET Entries /\ IsFiniteSet(disk) /\ nFiles \in Nat /\ clock \in Times
      /\ dvtime \in Times \cup {NoTime} /\ digits \in Nat
      /\ \A f \in disk : f.by \in Nat /\ (f.by # 0 => Tidy(f.name))
  BY EntryParts DEF FilesInv, TypeInv, SeriesInv
<1>3. OnDisk \subseteq Names /\ IsFiniteSet(OnDisk)
  BY <1>2, OnDiskFinite
<1>4. DateOf(dvtime) \in Times
  BY <1>2 DEF DateOf
<1>5. /\ finalPath' \in Names /\ Tidy(finalPath')
      /\ \A m \in OnDisk : Tidy(m) /\ SameSeries(m, finalPath') => m.num < finalPath'.num
  BY <1>1, <1>2, <1>3, <1>4, SearchFollows
<1>6. Follows(disk, finalPath', nFiles)
  <2> SUFFICES ASSUME NEW f \in disk, f.by \in 1 .. nFiles - 1, SameSeries(f.name, finalPath')
               PROVE  f.name.num < finalPath'.num
    BY DEF Follows
  <2>1. f.name \in OnDisk /\ Tidy(f.name)
    BY <1>2 DEF OnDisk
  <2> QED
    BY <1>5, <2>1
<1>7. TypeInv'
  BY <1>1, <1>5 DEF FilesInv, TypeInv, Busy
<1>8. SeriesInv'
  BY <1>1, <1>5, <1>6 DEF FilesInv, SeriesInv, Busy
<1>9. OwnInv'
  BY <1>1 DEF FilesInv, OwnInv, Busy, Written
<1>10. ReportInv'
  BY <1>1, <1>2, ReportStays DEF Busy
<1> QED
  BY <1>7, <1>8, <1>9, <1>10 DEF FilesInv

(* A path is reported when its file is there, or was removed. *)
LEMMA ReportKeeps ==
  ASSUME FilesInv, Busy, pc' = "none", NEW n \in Names, Report(n), UNCHANGED <<nFiles, removed>>,
         \A f \in disk : f.by \in 1 .. nFiles - 1 => f \in disk',
         nFiles \in removed \/ Entry(n, nFiles, TRUE) \in disk'
  PROVE  ReportInv'
<1>1. /\ finalized' = Append(finalized, n) /\ closed' = Append(closed, nFiles)
      /\ finalized \in Seq(Names) /\ closed \in Seq(Nat) /\ Len(finalized) = Len(closed)
      /\ nFiles \in Nat /\ nFiles > 0 /\ ~Busy'
  BY DEF Report, FilesInv, TypeInv, OwnInv, ReportInv, Busy
<1> DEFINE k == Len(closed)
<1>2. /\ k \in Nat
      /\ finalized' \in Seq(Names) /\ Len(finalized') = k + 1 /\ finalized'[k + 1] = n
      /\ closed' \in Seq(Nat) /\ Len(closed') = k + 1 /\ closed'[k + 1] = nFiles
      /\ \A i \in 1 .. k : finalized'[i] = finalized[i] /\ closed'[i] = closed[i]
  BY <1>1, AppendProperties
<1>3. \A i \in 1 .. k : closed[i] \in 1 .. nFiles /\ closed[i] < nFiles
  BY DEF FilesInv, ReportInv
<1>4. \A i \in 1 .. k : closed[i] \in removed \/ Entry(finalized[i], closed[i], TRUE) \in disk
  BY DEF FilesInv, ReportInv
<1> HIDE DEF k
<1>5. \A x : x \in disk /\ x.by \in 1 .. nFiles /\ x.by < nFiles => x \in disk'
  BY <1>1
<1>6. ASSUME NEW i \in 1 .. k + 1
      PROVE  /\ closed'[i] \in 1 .. nFiles
             /\ closed'[i] \in removed \/ Entry(finalized'[i], closed'[i], TRUE) \in disk'
  <2>1. CASE i = k + 1
    <3>1. finalized'[i] = n /\ closed'[i] = nFiles
      BY <1>2, <2>1
    <3>2. nFiles \in 1 .. nFiles
      BY <1>1
    <3> QED
      BY <3>1, <3>2
  <2>2. CASE i \in 1 .. k
    <3> DEFINE x == Entry(finalized[i], closed[i], TRUE)
    <3>1. x.by = closed[i]
      BY DEF Entry
    <3>2. closed[i] \in removed \/ x \in disk
      BY <1>4, <2>2
    <3>3. x \in disk => x \in disk'
      BY <1>3, <1>5, <2>2, <3>1
    <3>4. finalized'[i] = finalized[i] /\ closed'[i] = closed[i]
      BY <1>2, <2>2
    <3> QED
      BY <1>3, <2>2, <3>2, <3>3, <3>4
  <2>3. i = k + 1 \/ i \in 1 .. k
    BY <1>2
  <2> QED
    BY <2>1, <2>2, <2>3
<1>7. Len(closed') = Len(finalized') /\ 1 .. Len(closed') = 1 .. k + 1
  BY <1>2
<1> QED
  BY <1>1, <1>2, <1>6, <1>7 DEF ReportInv

(* The file gets its final name. *)
LEMMA RenameKeeps ==
  ASSUME FilesInv, Rename
  PROVE  /\ FilesInv'
         /\ \A f \in disk : f.by # 0 =>
              \E g \in disk' : g.by = f.by /\ (f.complete => g.complete)
<1> DEFINE h == [f \in disk |-> IF f.name = tmpfile THEN [f EXCEPT !.name = finalPath] ELSE f]
<1>1. /\ pc = "rename" /\ pc' = "none" /\ disk' = {h[f] : f \in disk} /\ Report(finalPath)
      /\ UNCHANGED <<clock, dvtime, digits, tmpfile, finalPath, nFiles, removed>>
  BY DEF Rename, Step, writer, history
<1>2. /\ disk \in SUBSET Entries /\ IsFiniteSet(disk) /\ nFiles \in Nat /\ nFiles > 0
      /\ tmpfile \in Names /\ Follows(disk, tmpfile, nFiles) /\ AllFollow(disk)
      /\ finalPath \in Names /\ Tidy(finalPath) /\ Follows(disk, finalPath, nFiles)
  BY <1>1 DEF FilesInv, TypeInv, SeriesInv, OwnInv, Busy
<1>3. \A f \in disk : /\ f.by <= nFiles /\ f.by \in Nat /\ (f.by # 0 => Tidy(f.name))
                      /\ f.by = nFiles => f.name = tmpfile
  BY <1>1, EntryParts DEF FilesInv, TypeInv, SeriesInv, OwnInv, Busy
<1>4. \A f \in disk : f.by \in 1 .. nFiles - 1 => f.name # tmpfile
  BY <1>2, NameIsNew DEF FilesInv
<1>5. \A f \in disk : /\ f.name = tmpfile => h[f] = Entry(finalPath, f.by, f.complete)
                      /\ f.name # tmpfile => h[f] = f
  <2> SUFFICES ASSUME NEW f \in disk, f.name = tmpfile
               PROVE  h[f] = Entry(finalPath, f.by, f.complete)
    OBVIOUS
  <2>1. f = [name |-> f.name, by |-> f.by, complete |-> f.complete]
    BY <1>2, EntryParts DEF Entry
  <2>2. h[f] = [f EXCEPT !.name = finalPath]
    OBVIOUS
  <2> HIDE DEF h
  <2>3. [f EXCEPT !.name = finalPath]
          = [name |-> finalPath, by |-> f.by, complete |-> f.complete]
    BY <2>1, RenamedEntry
  <2> QED
    BY <2>2, <2>3 DEF Entry
<1> HIDE DEF h
<1>6. \A f \in disk : /\ h[f] \in Entries /\ h[f].by = f.by /\ (f.complete => h[f].complete)
                      /\ h[f].name = IF f.name = tmpfile THEN finalPath ELSE f.name
  <2> SUFFICES ASSUME NEW f \in disk
               PROVE  /\ h[f] \in Entries /\ h[f].by = f.by /\ (f.complete => h[f].complete)
                      /\ h[f].name = IF f.name = tmpfile THEN finalPath ELSE f.name
    OBVIOUS
  <2>1. f \in Entries /\ f.by \in Nat /\ f.complete \in BOOLEAN
    BY <1>2, EntryParts
  <2>2. CASE f.name # tmpfile
    BY <1>5, <2>1, <2>2
  <2>3. CASE f.name = tmpfile
    <3>1. h[f] = Entry(finalPath, f.by, f.complete)
      BY <1>5, <2>3
    <3>2. Entry(finalPath, f.by, f.complete) \in Entries
      BY <1>2, <2>1 DEF Entry, Entries
    <3>3. /\ Entry(finalPath, f.by, f.complete).name = finalPath
          /\ Entry(finalPath, f.by, f.complete).by = f.by
          /\ Entry(finalPath, f.by, f.complete).complete = f.complete
      BY DEF Entry
    <3> QED
      BY <2>3, <3>1, <3>2, <3>3
  <2> QED
    BY <2>2, <2>3
<1>7. IsFiniteSet(disk')
  <2>1. h \in [disk -> Entries]
    BY <1>6 DEF h
  <2> QED
    BY <1>1, <1>2, <2>1, ImageFinite
<1>8. \A f \in disk : f.by \in 1 .. nFiles - 1 => f \in disk'
  BY <1>1, <1>4, <1>5
<1>9. \A g \in disk' : /\ g \in Entries /\ g.by \in 0 .. nFiles /\ (g.by # 0 => Tidy(g.name))
                       /\ g.by = nFiles => g.name = finalPath
                       /\ g.by \in 1 .. nFiles - 1 => g \in disk
  <2> SUFFICES ASSUME NEW f \in disk
               PROVE  /\ h[f] \in Entries /\ h[f].by \in 0 .. nFiles
                      /\ h[f].by # 0 => Tidy(h[f].name)
                      /\ h[f].by = nFiles => h[f].name = finalPath
                      /\ h[f].by \in 1 .. nFiles - 1 => h[f] \in disk
    BY <1>1
  <2>1. f.by \in 0 .. nFiles
    BY <1>2, <1>3
  <2> QED
    BY <1>2, <1>3, <1>4, <1>5, <1>6, <2>1
<1>10. AllFollow(disk')
  <2>1. \A g \in disk' : g.by = nFiles => Follows(disk, g.name, nFiles)
    BY <1>2, <1>9
  <2>2. \A g \in disk' : g.by \in 1 .. nFiles - 1 =>
                           \E f \in disk : f.by = g.by /\ f.name = g.name
    BY <1>9
  <2> QED
    BY <1>2, <1>9, <2>1, <2>2, OrderStays
<1>11. TypeInv'
  BY <1>1, <1>2, <1>7, <1>9 DEF FilesInv, TypeInv, Busy
<1>12. SeriesInv'
  BY <1>1, <1>2, <1>9, <1>10 DEF SeriesInv, Busy
<1>13. OwnInv'
  BY <1>1 DEF OwnInv, Busy, Written
<1>14. ReportInv'
  <2>1. nFiles \in removed \/ Entry(finalPath, nFiles, TRUE) \in disk'
    <3>1. CASE nFiles \in removed
      BY <3>1
    <3>2. CASE Entry(tmpfile, nFiles, TRUE) \in disk
      <4> DEFINE x == Entry(tmpfile, nFiles, TRUE)
      <4>1. x \in disk /\ x.name = tmpfile /\ x.by = nFiles /\ x.complete = TRUE
        BY <3>2 DEF Entry
      <4> HIDE DEF x
      <4>2. h[x] \in disk' /\ h[x] = Entry(finalPath, x.by, x.complete)
        BY <1>1, <1>5, <4>1
      <4> QED
        BY <4>1, <4>2
    <3>3. (pc \in {"stopped", "rename"}) = TRUE
      BY <1>1
    <3> QED
      BY <1>1, <3>1, <3>2, <3>3 DEF FilesInv, OwnInv, Written
  <2> QED
    BY <1>1, <1>2, <1>8, <2>1, ReportKeeps DEF Busy
<1>15. ASSUME NEW f \in disk
       PROVE  \E g \in disk' : g.by = f.by /\ (f.complete => g.complete)
  <2>1. h[f] \in disk' /\ h[f].by = f.by /\ (f.complete => h[f].complete)
    BY <1>1, <1>6
  <2> QED
    BY <2>1
<1> QED
  BY <1>11, <1>12, <1>13, <1>14, <1>15 DEF FilesInv

LEMMA RenameFailsKeeps == ASSUME FilesInv, RenameFails PROVE FilesInv'
<1>1. /\ pc = "rename" /\ pc' = "none" /\ Report(tmpfile)
      /\ UNCHANGED <<disk, clock, dvtime, digits, tmpfile, finalPath, nFiles, removed>>
  BY DEF RenameFails, Step, writer, history, NameAfterFailure
<1>2. TypeInv'
  BY <1>1 DEF FilesInv, TypeInv, Busy
<1>3. SeriesInv'
  BY <1>1 DEF FilesInv, SeriesInv, Busy
<1>4. OwnInv'
  BY <1>1 DEF OwnInv, Busy, Written
<1>5. ReportInv'
  <2>1. (pc \in {"stopped", "rename"}) = TRUE
    BY <1>1
  <2>2. nFiles \in removed \/ Entry(tmpfile, nFiles, TRUE) \in disk'
    BY <1>1, <2>1 DEF FilesInv, OwnInv, Written
  <2>3. tmpfile \in Names /\ Busy
    BY <1>1 DEF FilesInv, TypeInv, Busy
  <2> QED
    BY <1>1, <2>2, <2>3, ReportKeeps
<1> QED
  BY <1>2, <1>3, <1>4, <1>5 DEF FilesInv

(* The steps that change no file. *)
LEMMA QuietKeeps ==
  ASSUME FilesInv, \/ DeliverEndOfStream \/ NewSession \/ Crash \/ Restart \/ ClockTicks
                   \/ UNCHANGED vars
  PROVE  FilesInv'
<1>1. /\ UNCHANGED <<disk, nFiles, removed>> /\ clock' \in Times /\ nFiles \in Nat
      /\ dvtime' \in Times \cup {NoTime} /\ digits' \in Nat
  BY DEF DeliverEndOfStream, NewSession, Crash, Restart, ClockTicks, vars, writer, history,
     FilesInv, TypeInv
<1>2. \/ pc' = pc /\ tmpfile' = tmpfile /\ finalPath' = finalPath
      \/ pc = "writing" /\ pc' = "mux" /\ tmpfile' = tmpfile /\ finalPath' = finalPath
      \/ pc' \in {"none", "down"}
  BY DEF DeliverEndOfStream, NewSession, Crash, Restart, ClockTicks, Step, vars, writer
<1>3. TypeInv'
  BY <1>1, <1>2 DEF FilesInv, TypeInv, Busy
<1>4. SeriesInv'
  BY <1>1, <1>2 DEF FilesInv, SeriesInv, Busy
<1>5. OwnInv'
  <2>1. CASE pc' \in {"none", "down"}
    BY <2>1 DEF OwnInv, Busy, Written
  <2>2. CASE pc' \notin {"none", "down"}
    <3>1. (pc' \in {"stopped", "rename"}) = (pc \in {"stopped", "rename"})
      BY <1>2, <2>2
    <3> QED
      BY <1>1, <1>2, <2>2, <3>1 DEF FilesInv, OwnInv, Busy, Written
  <2> QED
    BY <2>1, <2>2
<1>6. ReportInv'
  <2>1. CASE UNCHANGED session
    BY <1>1, <1>2, <2>1, ReportStays DEF Busy
  <2>2. CASE finalized' = <<>> /\ closed' = <<>>
    BY <2>2 DEF ReportInv
  <2> QED
    BY <2>1, <2>2 DEF DeliverEndOfStream, NewSession, Crash, Restart, ClockTicks, vars
<1> QED
  BY <1>3, <1>4, <1>5, <1>6 DEF FilesInv

(* Another program's file is no capture. *)
LEMMA ForeignKeeps == ASSUME FilesInv, ForeignCreates PROVE FilesInv'
<1>1. /\ UNCHANGED <<clock, pc, dvtime, digits, tmpfile, finalPath, session, nFiles, removed>>
      /\ \E n \in ForeignNames : disk' = disk \cup {Entry(n, 0, TRUE)}
  BY DEF ForeignCreates, writer, Entry
<1>2. PICK n \in Names : disk' = disk \cup {Entry(n, 0, TRUE)}
  BY <1>1, AviWriterAssumption
<1> DEFINE new == Entry(n, 0, TRUE)
<1>3. new \in Entries /\ new.by = 0
  BY DEF Entry, Entries
<1> HIDE DEF new
<1>4. /\ disk \in SUBSET Entries /\ IsFiniteSet(disk) /\ nFiles \in Nat /\ AllFollow(disk)
      /\ \A f \in disk : f.by \in 0 .. nFiles /\ (f.by # 0 => Tidy(f.name))
  BY EntryParts DEF FilesInv, TypeInv, SeriesInv
<1>5. disk' = disk \cup {new}
  BY <1>2 DEF new
<1>6. IsFiniteSet(disk')
  BY <1>4, <1>5, FS_AddElement
<1>7. TypeInv'
  BY <1>1, <1>3, <1>5, <1>6 DEF FilesInv, TypeInv, Busy
<1>8. \A g \in disk' : g \in disk \/ g.by = 0
  BY <1>3, <1>5
<1>9. \A g \in disk' : g.by \in 0 .. nFiles /\ (g.by # 0 => Tidy(g.name))
  BY <1>4, <1>8
<1>10. \A g \in disk' : g.by \in 1 .. nFiles - 1 => \E f \in disk : f.by = g.by /\ f.name = g.name
  BY <1>8
<1>11. \A g \in disk' : g.by = nFiles => Follows(disk, g.name, nFiles)
  <2>1. \A g \in disk : g.by = nFiles => Follows(disk, g.name, nFiles)
    BY <1>4 DEF AllFollow
  <2>2. nFiles = 0 => \A m : Follows(disk, m, nFiles)
    BY DEF Follows
  <2> QED
    BY <1>8, <2>1, <2>2
<1>12. AllFollow(disk') /\ \A m : Follows(disk, m, nFiles) => Follows(disk', m, nFiles)
  BY <1>4, <1>9, <1>10, <1>11, OrderStays, FollowsStays
<1>13. SeriesInv'
  <2>1. \A f \in disk' : f.by <= nFiles /\ (f.by # 0 => Tidy(f.name))
    BY <1>4, <1>9
  <2>2. /\ Busy => Tidy(tmpfile) /\ Follows(disk', tmpfile, nFiles)
        /\ pc = "rename" => Tidy(finalPath) /\ Follows(disk', finalPath, nFiles)
    BY <1>12 DEF FilesInv, SeriesInv
  <2> QED
    BY <1>1, <1>12, <2>1, <2>2 DEF SeriesInv, Busy
<1>14. OwnInv'
  <2>1. Busy => nFiles > 0
    BY DEF FilesInv, OwnInv
  <2>2. Busy => \A f \in disk' : f.by = nFiles => pc # "named" /\ f.name = tmpfile
    BY <1>4, <1>8, <2>1 DEF FilesInv, OwnInv
  <2>3. Written => \/ nFiles \in removed
                   \/ Entry(tmpfile, nFiles, pc \in {"stopped", "rename"}) \in disk'
    BY <1>5 DEF FilesInv, OwnInv
  <2>4. (pc' \in {"stopped", "rename"}) = (pc \in {"stopped", "rename"})
    BY <1>1
  <2> QED
    BY <1>1, <2>1, <2>2, <2>3, <2>4 DEF OwnInv, Busy, Written
<1>15. ReportInv'
  <2>1. nFiles' \in Nat /\ nFiles <= nFiles' /\ removed \subseteq removed'
    BY <1>1, <1>4
  <2>2. Busy' => Busy
    BY <1>1 DEF Busy
  <2>3. \A f \in disk : f \in disk'
    BY <1>5
  <2>4. UNCHANGED session
    BY <1>1
  <2> QED
    BY <2>1, <2>2, <2>3, <2>4, ReportStays
<1> QED
  BY <1>7, <1>13, <1>14, <1>15 DEF FilesInv

LEMMA UserKeeps == ASSUME FilesInv, UserRemoves PROVE FilesInv'
<1>1. PICK x \in disk : disk' = disk \ {x} /\ removed' = removed \cup {x.by}
  BY DEF UserRemoves
<1>2. UNCHANGED <<clock, pc, dvtime, digits, tmpfile, finalPath, session, nFiles>>
  BY DEF UserRemoves, writer
<1>3. /\ disk \in SUBSET Entries /\ IsFiniteSet(disk) /\ nFiles \in Nat /\ AllFollow(disk)
      /\ \A f \in disk : f.by \in 0 .. nFiles /\ (f.by # 0 => Tidy(f.name))
  BY EntryParts DEF FilesInv, TypeInv, SeriesInv
<1>4. disk' \in SUBSET disk /\ \A g \in disk : g \in disk' \/ g.by \in removed'
  BY <1>1
<1>5. IsFiniteSet(disk')
  BY <1>3, <1>4, FS_Subset
<1>6. TypeInv'
  BY <1>2, <1>4, <1>5 DEF FilesInv, TypeInv, Busy
<1>7. \A m, b : Follows(disk, m, b) => Follows(disk', m, b)
  BY <1>4 DEF Follows
<1>8. SeriesInv'
  BY <1>2, <1>3, <1>4, <1>7 DEF FilesInv, SeriesInv, AllFollow, Busy
<1>9. OwnInv'
  <2>1. (pc' \in {"stopped", "rename"}) = (pc \in {"stopped", "rename"})
    BY <1>2
  <2>2. \A b, c : Entry(tmpfile, b, c) \in disk => Entry(tmpfile, b, c) \in disk' \/ b \in removed'
    BY <1>4 DEF Entry
  <2>3. removed \subseteq removed'
    BY <1>1
  <2> QED
    BY <1>2, <1>4, <2>1, <2>2, <2>3 DEF FilesInv, OwnInv, Busy, Written
<1>10. ReportInv'
  BY <1>1, <1>2, <1>3, <1>4, ReportStays DEF Busy
<1> QED
  BY <1>6, <1>8, <1>9, <1>10 DEF FilesInv

(* FilesInv is inductive. *)
LEMMA FilesStep == FilesInv /\ [Next]_vars => FilesInv'
BY ConstructKeeps, OpenFileKeeps, MuxKeeps, FindFinalNameKeeps, RenameKeeps, RenameFailsKeeps,
   QuietKeeps, ForeignKeeps, UserKeeps DEF Next

(* Of two captures with the same date and equally wide numbers the later one has
   the larger number, whatever was deleted, renamed or created by others in
   between (DShow.cpp:244-273, GetCaptureFilename). *)
THEOREM NumbersFollowTimeSafe == Spec => []NumbersFollowTime
<1>1. FilesInv => NumbersFollowTime
  BY DEF FilesInv, SeriesInv, AllFollow, Follows, SameSeries, NumbersFollowTime
<1> QED
  BY <1>1, InitFiles, FilesStep, PTL DEF Spec

(* The paths that CloseAVIWriter keeps for the verification are whole files of
   this session, or the user has removed them: also when renaming failed, and
   when others took the name between the search and MoveFile. *)
THEOREM ReportedFilesAreCapturesSafe == Spec => []ReportedFilesAreCaptures
<1>1. FilesInv => ReportedFilesAreCaptures
  BY DEF FilesInv, ReportInv, ReportedFilesAreCaptures, Entry
<1> QED
  BY <1>1, InitFiles, FilesStep, PTL DEF Spec

(* What was captured is never overwritten, lost or made incomplete, by no later
   capture, crash or failure: the temporary name that OpenFile overwrites, found
   in an earlier step, is still no capture's. *)
THEOREM CapturesStaySafe == Spec => CapturesStay
<1>1. FilesInv /\ [Next]_vars =>
        [ \A f \in disk : f.by # 0 /\ ~UserRemoves =>
            \E g \in disk' : g.by = f.by /\ (f.complete => g.complete) ]_vars
  <2> SUFFICES ASSUME FilesInv, Next, ~UserRemoves, NEW f \in disk, f.by # 0
               PROVE  \E g \in disk' : g.by = f.by /\ (f.complete => g.complete)
    OBVIOUS
  <2>1. CASE OpenFile \/ MuxCompletes \/ Rename
    <3>1. OpenFile => f \in disk'
      BY OpenFileKeeps
    <3>2. ASSUME MuxCompletes PROVE \E g \in disk' : g.by = f.by /\ (f.complete => g.complete)
      <4>1. \A x \in disk : x.by # 0 => \E g \in disk' : g.by = x.by /\ (x.complete => g.complete)
        BY <3>2, MuxKeeps, Zenon
      <4> QED
        BY <4>1
    <3>3. ASSUME Rename PROVE \E g \in disk' : g.by = f.by /\ (f.complete => g.complete)
      <4>1. \A x \in disk : x.by # 0 => \E g \in disk' : g.by = x.by /\ (x.complete => g.complete)
        BY <3>3, RenameKeeps, Zenon
      <4> QED
        BY <4>1
    <3> QED
      BY <2>1, <3>1, <3>2, <3>3
  <2>2. CASE ~ (OpenFile \/ MuxCompletes \/ Rename)
    <3>1. f \in disk'
      BY <2>2 DEF Next, Construct, DeliverEndOfStream, FindFinalName, RenameFails, NewSession,
         Crash, Restart, ForeignCreates, ClockTicks
    <3> QED
      BY <3>1
  <2> QED
    BY <2>1, <2>2
<1> QED
  BY <1>1, InitFiles, FilesStep, PTL DEF Spec, CapturesStay
=============================================================================
