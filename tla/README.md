# A verification development for WinDV (ArchiveSafe)

WinDV captures DV video from a FireWire camcorder into AVI files and records AVI
files back to tape. This directory holds TLA+ models of its program logic, TLC
configurations that check them on small instances, and theorems checked by TLAPS.
Source lines below are of `src/src/` unless a path says otherwise.

## 1. Inventory

| Component | Source | State | Operations | What makes it correct |
| --- | --- | --- | --- | --- |
| Frame queue `CDVQueue` | DShow.cpp 1668-1806 | ring (`m_head`, `m_tail`, `m_load`), `m_end`, two auto-reset events | `Put`, `Put(NULL)`, `Get`, `GetWithTimeout` | FIFO, nothing lost, the slot in use is not overwritten, nobody sleeps for ever |
| Capture session `CDV` | DShow.cpp 2119-2651 | `m_state`, `m_captureTime`, `m_finalizePhase`, `m_aviWriter`, `m_finalizedFiles`, `m_lastCheckResult`, the worker | `BuildCapturing`, `StartCapturing`, `StopCapturing`, `FinalizeCapturing`, `Destroy`, `CapturingThread` | no use after free, complete and ordered files, reports after the fact, commands that return |
| Record session `CDV` | DShow.cpp 2344-2390, 2677-2716 | the same, with `m_aviJoiner` and `m_dvOutput` | `BuildRecording`, `StartRecording`, `StopRecording`, `RecordingThread` | frames of all files in order, repetition only while paused |
| `CAVIJoiner`, `CAVIReader` | DShow.cpp 858-1105 | file list, `m_stopping`, `m_ev`, a thread | `Run`, `Stop`, `HandleFrame`, `JoinerThread` | files in sequence, one end of stream at the very end, `Stop` at any moment |
| `CAVIWriter` | DShow.cpp 1358-1458 | temporary file, final file | constructor, `FinalizeFile`, destructor | a closed file is complete and under its final name, a file that exists is never overwritten |
| `CMonitor` | DShow.cpp 1487-1645 | `m_sample`, `m_ev`, `m_VW`, a thread | `HandleFrame`, `MonitoringThread`, destructor | whole frames, forward, no missed wake-up, shutdown ends |
| DV output: `COutputGraph`, `CDVOutput`, `COutputQueue` | DShow.cpp 611-638, 761-830, 1276-1321; baseclasses/outputq.cpp | list of samples, `m_hr`, `m_lWaiting`, `m_hSem`, a thread | `HandleFrame`, `Receive`, `EOS`, `ThreadProc`, destructors | frames in order, once and whole; end of stream behind them; it can always be destroyed |
| Sample allocator | baseclasses/amfilter.cpp | free list, reference counts, `m_lWaiting`, `m_hSem` | `GetBuffer`, `ReleaseBuffer`, `Commit`, `Decommit` | a sample is nobody's or somebody's, and who waits is woken |
| Capture file names | DShow.cpp 209-287 | none | `GetCaptureFilename` | a fresh, increasing name |
| AVI verification | AVICheck.cpp | none | `CheckAVIIntegrity`, `ContainsOpenDMLIndex` | ends on every file, finds the index, counts nothing that is not there |
| DV recording time | DV.cpp | none | `GetDVRecordingTime` | a date or "none" |
| Error statistics | DVError.cpp | counters | `AnalyzeDVFrame`, `AccumulateErrorStats` | not called during a capture in this build (DShow.cpp:2512) |
| Dialog | DVToolsDlg.cpp | state read from `CDV`, timer, status line, message queue, `m_captureFinalizedStatusSticky`, `m_exitOnFinish` | `OnCapture`, `OnEndCapture`, `OnRecord`, `OnClose`, handlers of posted messages | commands fit the state they read, the status tells the truth |
| DirectShow graphs, the rest | DShow.cpp 336-647, 1111-1275 | COM objects | thin calls | taken as external |
| Shell, resources, base classes, patch tools | rest | - | - | not modelled |

Interaction: the DirectShow streaming thread calls `CInputPin::Receive`, which calls
`CDV::HandleFrame`, which calls `CDVQueue::Put`. The worker calls `Get` and writes
through `CAVIWriter`. The UI thread builds, starts, pauses, finalizes and destroys. The
three share `m_state` without a lock, the queue with one, and the finalizer's progress
through interlocked stores. The worker informs the dialog by posted messages, and the
dialog reads `m_state` on a timer. In a record session the worker offers each frame to the
preview, which may miss it, and gives it to the DV output, which blocks while its samples
are in use; both keep their frames in samples of a pool whose reference counts pass from
one thread to the next.

Hard behaviours: unlocked flags beside locked data; auto-reset events with several
signallers; teardown with a thread blocked in a full queue; two writers of `m_state`;
splitting and pausing at any frame; results and messages that outlive their session;
samples that two threads refer to; waits announced under a lock and made outside of it;
sizes read from a file that wrap in 32 bits. `PROJECT.json` lists them, each at its line.

## 2. Modules

| Module | Models |
| --- | --- |
| `FrameFIFO` | what the queue promises: a bounded FIFO with an end mark (abstract) |
| `DVQueue` | `CDVQueue` at the grain of its lock, flag and events; refines `FrameFIFO` |
| `DVQueueProofs` | theorems about `DVQueue` |
| `Capture` | a capture session: streaming thread, worker, UI thread, any number of sessions |
| `Recording` | a record session: reader and joiner, worker, UI thread, any number of sessions |
| `AviWriter` | `CAVIWriter`, `GetCaptureFilename`, and the directory over crashes and restarts |
| `SamplePool` | the allocator and the reference counts, as operators on a pool (no state of its own) |
| `OutputGraph` | the DV output: `HandleFrame`, `COutputQueue` and its thread, the device, `~CDVOutput` |
| `Monitor` | the preview: `HandleFrame`, `MonitoringThread`, `~CMonitor`, the renderer |
| `Outputs` | composes the last two under `RecordingThread` and `Destroy` |
| `Dialog` | the status display over a capture session, with the dialog's message queue |
| `AviCheck` | `CheckAVIIntegrity` as a walk over a file of any headers |
| `CaptureProofs`, `RecordingProofs`, `AviWriterProofs`, `OutputProofs`, `DialogProofs`, `AviCheckProofs` | theorems about these |
| `InductionFacts` | lemmas for them: least and greatest elements, induction over a set of numbers, `FlattenSeq`, images of finite sets |
| `MCDVQueue`, `MCCapture`, `MCRecording`, `MCAviWriter`, `MCOutputs`, `MCDialog`, `MCAviCheck` | instances for TLC |

A definition marked `Fault:` is a plausible bug of the definition after it. It is no part
of the specification; substituting it makes the property named for it in `PROJECT.json`
fail, which shows that the property can fail.

### DVQueue

One step is one locked block, one access of `m_end`, or one `SetEvent` or wait. `pPc` says
where the producer is in `Put`, `cPc` where the consumer is in `Get` and in its loop
around it, `clPc` where each other caller of `Put(NULL)` is (`Destroy` and
`FinalizeCapturing`). A frame is the number of its `Put` call; `slot[i]` is the frame whose
bytes slot `i` holds, which stay there after the slot was handed out. `accepted` and
`delivered` are history. `CEvent` is built by its default constructor, so it is
auto-reset and the wait that succeeds resets it. (DShow.h:586 and docs/threading.md call
the events manual-reset; the liveness properties hold with the auto-reset events the code
has.)

### Capture

The queue is used here as the FIFO it implements. Its users see four steps: the
producer's test of `m_end` and its store, the worker's look into the ring and its test of
`m_end`. The streaming thread is `S...`, the worker `W...`, the UI thread `U...` and
the three command actions `OnCapture`, `OnEndCapture`, `OnReinitOrClose`. Every test and
every write of `m_state` is a step of its own. The UI thread executes one command at a time
because it processes no message inside one. `IMediaControl::Stop` (external) is modelled by
what the code relies on: no new frame is delivered, and `Stop` returns when the streaming
thread is out of `Receive`. Verification of a file returns any of three results. Time is
counted in frames, a recording time is a small number, and `-1` stands for "none", as in
`GetDVRecordingTime`. Drop counters, preview, messages, disk space, statistics and the log
are left out; none of them is read by the control flow. `m_captureTime` and
`m_finalizePhase` are written in one step in `FinalizeCapturing`; the two reads of
`m_captureTime` in the worker are two steps.

### Recording

Four threads: the streaming thread of the open reader (`S...`), `JoinerThread` (`J...`),
`RecordingThread` (`W...`) and the UI thread (`U...`, `OnRecord`, `OnReinitOrClose`). The
queue is seen as in `Capture`. `ev` is the joiner's auto-reset event, set by the end of a
file and by `Stop`; `stopping`, `state` and `end` are read and written one access at a
time. A frame is its file and its place in it, so that the order of frames over a change of
file can be stated; `sent` is what the device got, without the repetitions of a still
picture. Deleting a reader stops its graph, which returns when the streaming thread is out
of `HandleFrame`: `JDelete` and `JOpen`, `UStopReader` and `UReaderStopped`. The file list
is a constant: how it is split at `|`, globbed and sorted is left out. So are a reader that
cannot be built in `JoinerThread` (its exception is caught nowhere and ends the process)
and the time that `Run` of the first reader takes. Initially the record tab is open and its
`InitVideo` has called `Destroy`.

### AviWriter

The state is the directory and the life of one `CAVIWriter` (`pc`): named, writing, waiting
for the mux, stopped, about to be renamed. `Capture` shows that there is one at a time. A
file name is a record: temporary or final, the date suffix, the number and the number of
digits it is written with; the scan over `<base>.<date>.*.avi` becomes the set `Numbered`
and two maxima, because its result does not depend on the order in which the directory is
listed. `m_ndigits` is any of `DigitChoices` at each construction: it is what the last
`StartCapturing` stored. A frame without recording time gives `NoTime`, and both searches
then use the clock, which may tick in between. An exception in `CapturingThread` (mux or
end of stream fails, the graph cannot be built) is caught nowhere, so it is a `Crash`. In
`Destroy` the same call would be caught, but the worker has closed the writer by then
(`WriterBelongsToWorker`). Others create files, under final or "~" names, and the user
deletes files that are not open; `by` and `removed` are history that says whose a file was.
A file that another program creates under the temporary name between its search and its
opening is overwritten (`AM_FILE_OVERWRITE`); `CapturesStay` speaks of captured files.

### SamplePool, OutputGraph, Monitor, Outputs

A pool is a record, and an operator of `SamplePool` is one critical section of the
allocator; a sample is its number. The free list is a stack, as `m_lFree.Add` makes it, so a
sample that was given back is the next one to be filled: a reference too few shows at once.

In `OutputGraph` the client (`C...`) is `HandleFrame`, later `~CDVOutput`; the delivery
thread (`T...`) is `ThreadProc`, one step per critical section, with the call of the device
and the second look at `m_hr` as steps of their own. Copying into a sample takes two steps,
`Torn` in between. The device keeps up to `DeviceDepth` samples, may refuse one at any time
and gives back all when it is stopped. `CTerminate` is `m_bTerminate` and the notification,
`CJoin` the wait for the thread. The pin's queue has batches of one sample, so the model has
no batch. `BeginFlush`, `NewSegment` and `SendAnyway` are called by nobody.

In `Monitor` the caller's frame (`H...`), the thread (`M...`) and the destructor (`D...`)
share `mSample`, `mEv` and `mVW`, each access a step. `GraphStops` and `GraphRestarts` are
the filter graph manager's: it stops a graph when the display mode changes, and
`MonitoringThread` backs off for as long (DShow.cpp:1640). `MaxStops` bounds the stops.

`Outputs` lets `RecordingThread` send frame after frame, offering each to the preview or
not, until `Destroy` waits for it and destroys first the DV output, then the preview. Where
the frames come from is `Recording`'s subject.

### Dialog

The session is `Capture`'s, reduced to what the display depends on: `m_state`, whether a
file was written, the result of the check, and what the worker posts (`posted`). A record
session appears only as the tab where there is no capture. The UI thread handles one
message at a time, in Windows' order: posted messages before input before the timer
(`posted = <<>>` guards commands and ticks), and the progress of `FinalizeCapturing` is sent,
not posted, so that it arrives inside the wait. `OnTimer` reads `m_state` once for its text
and once more when it shows it. `InitVideo(goal)` is the start of that function, `uGoal` is
what its caller does after it: show the report, show the error, start the command line's
capture. Labels other than `m_status` and the date, configuration and profiles are left out.

### AviCheck

A header that the walk has not read yet may hold any code and any size, so that one run of
the model is one file; what was read stays known as long as it can be read again. `W` stands
for 2^32: sizes and `PADEVEN` are computed modulo `W`, positions are not, as in the code.
`search` is the stack of the recursive calls of `ContainsOpenDMLIndex`, the innermost last,
and one step is one turn of its loop. The number of video frames of a block of `idx1` is
free between 0 and the block. `wrapped` is history: a chunk had the size `W - 1`, whose
padded size is 0. The comparison of file size and expected size, the frame format and the
texts are left out; none of them enters the verdict.

## 3. Runs

| Run | Bounds | Shows |
| --- | --- | --- |
| `queue` | ring of 2 (+1), 6 frames, 2 closers, timeouts allowed | order, no loss, no overwriting, liveness, refinement of `FrameFIFO` |
| `capture_safety` | queue of 2, 4 frames, 3 commands, hashing, failing construction | teardown, files, order of the report, progress |
| `capture_live` | queue of 1, 3 frames, 3 commands, time limit, auto-stop, end of source | every command returns, with one named exception |
| `capture_split` | 4 frames over four recording times, limit 3, threshold 1, 2 commands | the two splitting rules |
| `capture_drain` | queue of 2, 3 frames, 3 commands | a frame queued at End Capture may be lost |
| `capture_report` | files of 1 frame, 3 commands | success may be reported of a file without an index |
| `record` | queue of 1, files of 2, 2 and 1 frames, 4 commands, failing construction | order over file changes, end of stream, teardown, pause, liveness |
| `record_hang` | queue of 1, two files of 1 frame, 3 commands | `Destroy` may wait for ever for a worker that overwrote `Idle` |
| `writer` | base 2, 3 captured files, 1 foreign, 1 deleted, 2 dates, widths 0 and 1, any number of crashes | captured files stay, final names are whole files, numbers follow time, right paths reported |
| `outputs` | 3 frames, 2 samples, a device of depth 1 that may fail, a preview of 1 sample that may stop once | no sample is reused too early, order, end of stream, no lost wake-up, both outputs end |
| `dialog` | 3 commands on either tab, with and without a command line, sessions of 1 frame that end by themselves or cannot be built | the report stays, the display catches up, `-exit` closes |
| `avicheck` | files of 11, 51 and 60 bytes, sizes 0, 4, 20, 33, `W - 8` and `W - 1`, `W = 256` | the walk ends, the search stays in its list, nothing beyond the end of the file counts |

In `capture_drain`, `capture_report` and `record_hang` TLC finds a statement of the source's
comments violated; each is a finding in `PROJECT.json` with the quoted line.

Why the bounds are enough. A ring of three slots is empty, full and wrapped twice in six
frames, and two closers and the producer's own end of stream give every order of the three
`SetEvent` pairs. In `Capture` a queue of one or two is full after one or two frames; three
commands are start, pause and end, or start, rebuild and end, and the dialog's first
`InitVideo` is free; four frames give a split, a pause between two files and a queued rest.
In `Recording` a queue of one is full while the first file is still being read, three files
have a change of file before and after a change of file, and four commands are record,
start, pause and close (or record again), in any other order too.
In base 2 a third file needs a digit more, which takes 10 files in the code; a foreign name
that the capture wants, one that is wider and a "~" name are each created at any moment.
In `Outputs` a third frame finds one sample with the device and one in the queue, so the
client waits; a preview with one sample has to wait for the renderer. In `Dialog` three
commands are pause, end and the first command of the next session; one frame is enough for
a file, a time limit and each warning. In `AviCheck` the longest file has room for a header
list with one list nested in it, or for one of each thing the verdict asks for, but not for
both; the one of 51 bytes is a byte short of what `OKHasContents` asks for, and a file of 11
cannot hold the outermost header. The sizes are an empty one, one too small for a list type, `avih` up to
`dwTotalFrames`, an odd one, and the two ends of what `PADEVEN` wraps.
Device and user are bounded by `MaxFrames`, `MaxOps` and `MaxStops`; nothing else is. Deadlock checking
is off because the system stops when the dialog is closed, or waits for a user or device
that has nothing more to do.

Fairness. A thread inside a call is scheduled: weak fairness of `InPut`, of the worker, and
of the UI thread inside a command. Windows schedules all of them (normal priority or
above). Nothing is assumed of the device or of the user. A timeout is never forced.
In `Recording` the streaming thread is fair even where no call is open: a file, unlike a
camcorder, yields its frames and then its end. In `Outputs` the device transmits what it
keeps, the renderer shows what it keeps, and the graph manager restarts a graph it stopped;
without the last `MonitoringThread` backs off for ever, and `~CMonitor` waits for it. In
`Dialog` messages are handled and the timer, where it is set, ticks; that the signal is lost
or the disk is full is never forced. In `AviCheck` the one thread runs.

The exception in `CommandsReturn` is real: with auto-stop on, the worker may leave on a lost
signal while `FinalizeCapturing` is about to stop a source that delivers again
(DShow.cpp:2266); the queue fills, the streaming thread blocks in `Put`, and `Stop` waits for
it before the end of stream (2270) could wake it.

The exception in `DestroyReturns` is what `record_hang` shows: `RecordingThread` tests
`m_state` and writes `Finished` in two accesses (DShow.cpp:2709), and an `Idle` written in
between is lost, and with it the only way out of its loop. In `Capture` the same overwrite
(DShow.cpp:2480, 2487, 2549) costs no more than the state, because there the loop meets the
end of stream on its next `Get`; `BuildCapturing` writes the state anew.

`ReportAfterVerification` is checked without a time limit. With one the worker may finish
by itself between the test in `OnEndCapture` (DVToolsDlg.cpp:1276) and the one in
`FinalizeCapturing`, which then returns at once, and the report comes before the files are
closed: add 1 to `Limits` in `MCCapture_safety.cfg` to see it.

`ReportKept` has an exception too. A warning (`WM_DV_LOWDISKSPACE`, `WM_DV_SIGNALLOST`) that
the worker posted just before its end is handled after End Capture has shown its report,
replaces it, and then stays, because the sticky flag protects whatever is on display
(DVToolsDlg.h:141 speaks of the report).

More disagreements between comments and code that are not runs:

- The loop of `CapturingThread` does not end on `Finished` (comment at DShow.cpp:2437, loop
  at 2470): after a timed capture the worker goes on emptying the queue until `Destroy`.
- `Destroy` discards what is queued (comment at 2130), because the worker leaves on `Idle`.
- A file whose first frame has no recording time is never given one: the missing time is -1
  (DV.cpp) and the test is for 0 (2539; comment at 2426-2428).
- With no minimal width a split capture has the names `clip.T.avi`, `clip.T.0.avi`, ..., and
  the joiner sorts the second before the first (919; comment at 926-927).
- In a record session a paused worker does not hold frames back from the device (comment at
  2667), it sends one frame again and again; the first frame is sent already in
  `RecordPaused` (comment at 2361); `Finished` does not end the loop (comment at 2669), the
  last frame is repeated until `Destroy`. `SentInOrder` leaves such repetitions out,
  `PauseHolds` bounds them.
- A temporary file of an aborted session is not overwritten (comment at 1347): the search
  for a name passes over it.
- `WM_DV_SIGNALLOST` is posted before `m_state` is `Finished` (comment at
  DVToolsDlg.cpp:1571-1573), and the warning of a full disk is overwritten by the next tick
  of the timer (comment at 1556).
- `OnEndCapture` shows "ready for next capture" although its `InitVideo` failed to build one;
  a command line `capture -exit` whose graph cannot be built clears `m_exitOnFinish` and
  never exits.
- "Frame-count vs. index-entry consistency" (AVICheck.cpp:9) is mentioned in the text of the
  result only and is no part of the verdict; an `idx1` that is cut off in its first block
  counts 0 entries, and then it is not even mentioned. The size of the file is stored, not
  compared.
- With a size of 2^32 - 1 the search for an OpenDML index can leave its header list, although
  it works "without scanning movi data" (AVICheck.cpp:77): `SearchStaysInList` excludes it.

## 4. Proofs

`DVQueueProofs` proves, for every queue size, number of frames and set of closers:
`TypeCorrect`, `RingInvariant`, `HeldFrameSafe`, `RingOrderSafe`, `PrefixSafe`, and `Refinement`
(`Spec => ImplementsFIFO`). Assumed are `QueueSize \in Nat \ {0}`, `MaxFrames \in Nat` and
`Timed \in BOOLEAN`, named in `DVQueue`. Each of the other proof modules uses
only the named assumptions of the modules it is about; they give the constants their types
and bound none of them from above.

None of the invariants is inductive alone. `HeldFrameIntact` needs to know that the slot
handed out is the one just behind the head (`HeldIsBehindHead`) and that the tail cannot
reach it (`tail` is `load` places after `head` and `load < QueueSize`); the order of the
frames needs to know what number the next stored frame has, that is `AcceptedIsAPrefix`,
and that needs `FrameInHand` between the test and the lock. `RingInv` is their conjunction.
The proof has one lemma for `PutStore`, one for `GetTake` and one for the steps that leave
the ring alone; `NextIndex` holds the arithmetic modulo the number of slots. The refinement
uses `RingInv` to show that `Contents` is appended to by `PutStore`, loses its head by
`GetTake` and does not change otherwise.

Every safety property that a passing run checks, invariant or action property, is a theorem.
The prover has no induction over a predicate, so `InductionFacts` derives from the
well-foundedness of the strict subset order on finite sets that a set of numbers has a
least element, and from that induction for a set in place of a predicate (`SetInduction`);
it also shows that a finite set of integers has a greatest element and that the image of a
finite set is finite, which the search for file names and the order of the frames need.

### Capture

- `NoUseAfterFree` says too little to be inductive: that the streaming thread
  finds a queue in `HandleFrame` depends on how far a command of the UI thread has come.
  `TeardownInv` states, for each such point, what is built and which threads may run: the
  source runs only from `Run` to `Stop`, so never between the joining of the worker and the
  next `Run`; the worker runs only from `StartThread` to the join. The proof has a lemma for
  the streaming thread, one for the worker and one for the UI thread.
  `WriterBelongsToWorker` is a conjunct of it: the destruction of `m_aviWriter` in
  `Destroy` (DShow.cpp:2144) never has a file to finalize.
- `FilesHaveNoHoles` and `FileLengthBounded` follow from `FilesInv`. Its core is one number
  for the whole chain: there is a frame `a` such that the worker has `a` in hand, or will
  find it at the head of the queue; the queue goes on from there without a gap; the open
  file ends in front of it, as far as `EveryNth` lets it; and as long as `Put` still stores
  (`Live`) the chain reaches to the last frame delivered. Once the end of the stream is
  set frames are dropped at the far end of that chain only. `Mult`, `Rest` and what follows
  them are the arithmetic of counting modulo `EveryNth`.
- `DiscontinuityStartsNewFile` needs `TimesInv` as well: `oldTime` is the last known time of
  the open file, which stays true over frames without a time and over a split.
- `ProgressRunsForward` rests on `PhaseInv`: at which points of the worker which progress can
  have been shown, and that the UI thread writes "done" only when the worker is gone.
- `NoFrameDroppedWhileFinalizing` and `ReportAfterVerification` are proved under the settings
  under which they are checked, and which section 3 explains: `~SourceEnds`, and for the
  second also `Limits = {0}` and `~AutoStop`. They are hypotheses of the theorems and not
  assumptions on the constants. `DrainInv` says that End Capture sets `m_end` only behind the
  stopped source, `QuietInv` that the worker, if nothing but the user ends a capture, does
  not leave its loop before that, and `CheckInv` which files it has checked by then.

### Recording

`RecordInv` is a conjunction of six parts, each resting on those before it.

- `TeardownInv` says for four threads what it says in `Capture`. Here the joiner deletes and
  builds readers while the UI thread may be in `Stop`: it must have ended before the UI
  thread touches the reader (`stopReader`, `readerStopping`), and the graph of a reader runs
  only while that reader exists. It gives `NoUseAfterFree`.
- `ReaderInv` says how far the open file was read, and `JoinerInv` that the joiner is woken by
  the end of a file or by `Stop` only, so that what it then finds is a file read to its end.
  `EndIsAfterLastFile` follows.
- `SentInv` and `QueueInv` number the frames over all files (`Number`, from the sums `Before`):
  the worker's frame is the last one sent or the one after it, the queue holds those after
  that, and up to the end of the stream they reach to the last frame read. That these
  numbers are the places in `Frames`, which is a `FlattenSeq`, is `FramesAt`, by induction
  over the files. `SentInOrder` follows.
- `PauseInv`: a frame can be new to the device after the pause only when it was in the worker's
  hand, or being fetched, when `RecordPaused` was written.

### AviWriter

- `FinalNameMeansComplete` follows with two facts of `WriterInv`: up to the
  rename the writer's file has a temporary name, so it is not affected by what is not whole
  yet; and from the end of the mux on the file of that name, if nobody replaced it, is whole.
  A crash keeps the directory and forgets the writer, so it needs nothing more.
- The other three follow from `FilesInv`. First comes what the search returns
  (`SearchFollows`): of all names in a finite directory with the same date, kind and width the
  new one has the largest number, whatever its width was before padding. `SeriesInv` is
  then that this stays so until the name is used: every name of a writer, and the temporary
  and the final name it has found, come after those of the writers before it
  (`Follows`, `OrderStays`). A foreign file that took the name in between is no capture and
  changes nothing in this. `NumbersFollowTime` is a part of it. `NameIsNew` turns it into
  what `OpenFile` needs: the name it overwrites is no earlier capture's, so `CapturesStay`.
  `OwnInv` says where the writer's own file is, and `ReportInv` is `ReportedFilesAreCaptures`
  with the addition that the reported files are those of writers that are closed.

### The two outputs

`SessionImplementsOutput` and `SessionImplementsPreview` show that every behaviour of `Outputs`
is one of `OutputGraph` and one of `Monitor`: each step of the session is a step of the part
or leaves it alone. For the preview this takes an invariant: that the frames are ever newer,
and that `~CMonitor` runs when no call is inside it. What is proved of the DV output alone
carries over by the first of them.

- `LazySignalling` is inductive as soon as the counters are numbers (`SignalInv`); its
  two halves, the allocator's and the queue's, are disturbed by different actions.
- `SamplesOwned` follows from `OwnInv`: the count of a sample is the number of hands it is in
  (`CountsInv`), and one sample is in the list once, with the device once, and in not more
  than one of the places that follow each other (`HandsInv`). A lemma for each operator of
  `SamplePool` says what it does to a pool in order (`PoolOK`).
- `PlayedInOrder` and `EndAfterLastFrame` follow from `OrderInv`: up to the first failure the
  frames played, those the device has, the one being sent and those of the list are together
  the frames accepted, in this order, and each sample still holds the frame it was given
  (which needs `OwnInv`: nobody copies over it).
- `PreviewMovesForward` and `PreviewIsAwake` follow from `PreviewInv`: `Handshake` says that a
  sample is exposed, being filled, or handed over by the event, and never two of these at a
  time; `NewerInv` that each of the next steps has a newer frame than the one behind it.

### Dialog

- `CheckCompleteMatches` is not inductive: a session may be built over an unhandled
  result, and its thread must not post another before that is handled. `CheckInv` adds that
  such a session is `Dormant` (no file, nothing that would give it one), which holds because a
  command is given only when the message queue is empty; and that the command line, which
  starts a capture without a command, does so before any result was posted (`Opening`).
- `ReportKept` needs to know what the session can be doing while the report is fresh
  (`KeptInv`): the sticky flag is set, and a timer that runs finds the session paused or over,
  because `InitVideo` stopped the timer and `BuildCapturing` left the session paused before it
  set it again, and from there the thread alone can only go to `Finished`.

### AviCheck

- `SearchStaysInList` is proved for every file, every set of sizes and every even
  `W > 64`, that is for 2^32, which no run could reach. The property
  speaks of the innermost call of the search; inductive is `SearchInv`, that the list of every
  call on the stack ends in front of `next`, where the walk goes on. `ChunkEndsBeforeNext` is
  the arithmetic of `PADEVEN`: a chunk ends in front of the next one unless its size wraps. A
  list is searched only when it was seen to fit the list it is in, so its end moves inwards
  (`SearchInnerKeeps`); going on in a list moves no end (`MoveOnStays`); `HeaderListKeeps` is
  the first call.
- `OKHasContents` follows from `ReadInv`: the walk has passed as many bytes as what it noted
  takes (`Room`), and the last of them was in the file. The search for this invariant showed
  what the property may claim. A list that is announced with size 0 counts, and what comes
  next begins at its type, so a list takes 8 bytes and not 12: a file of 52 bytes can be
  called OK, which a run meets only with a file of just that size.

### What is only model-checked

Liveness, because fairness and ENABLED are beyond the prover: `BlockedPutReturns`,
`EndStopsConsumer` and `AcceptedIsDelivered` of the queue, `CommandsReturn` of `Capture`,
`RecordingEnds` and `DestroyReturns` of `Recording`, `QueuedIsPlayed` and `OutputsClose` of
`Outputs`, `DisplayCatchesUp` and `AutoExit` of `Dialog`, and `WalkEnds` of `AviCheck`. The three runs that
show a comment violated stay as they are: a counterexample needs no proof.

## 5. Plan

Done: the queue, the capture session, the record session with its joiner, the writer with
its file names, the preview and the DV output with their samples, the status display, and
the verification of a file; each of them is model-checked, and all their safety
properties are proved.
What is left, the most important first:

1. `Capture` and `Recording` use the queue as the FIFO it implements. State that as a refinement of an abstract FIFO that is built and destroyed with a session, so that the proofs of the queue and of its users meet. It needs a history of what was stored.
2. The safety halves of the liveness properties, as action properties with a theorem each: that the walk of `AviCheck` moves forward in every turn, and that no command of `Capture` or `Recording` goes back to an earlier point of `Destroy`.

Not modelled, and why:

- `GetDVRecordingTime` (DV.cpp) is one pass over the packs of a frame without state; `Capture`
  has its range. `AnalyzeDVFrame` is called by nobody during a capture, and `sha256.c` is a
  bit-level hash; a test reaches all three as well as a model would.
- The building of DirectShow graphs, the device dialogs and the shell are calls of Windows
  without state the questions above depend on.
- A file that cannot be opened in `JoinerThread` throws where nothing catches it (DShow.cpp:1095):
  there is no later state. How long `Run` of the first reader takes (1016) is not in this code.
- The vendored base classes are 37,000 of the 45,800 lines of the repository: renderers,
  windows, clocks, property pages and control interfaces that this program never creates. Of
  them the models cover what the program runs: the output queue and the sample allocator. A
  map of a third of all lines would have to model code that is not executed.
