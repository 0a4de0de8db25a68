# A TLA+ model of the cpaf media player core

cpaf is a collection of C++ libraries.  Its one concurrent program is the media
player: `cpaf_libs/gui/video` with `cpaf_libs/video`, the fifos of
`cul/luepp` and `cpaf_libs/luepp_develop`, and the torrent streaming of
`cpaf_libs/torrent`.  This directory models the parts of it that are hard to
test: threads that share atomics and fifos, and hardly any locks.

## The system

| Component | State | Operations | Meets the others through |
|---|---|---|---|
| `lue::srsw_fifo` | a vector of slots, two atomic indices | push, emplace, front, pop, flush, full, size, resize_queue | carries packets, sample buffers, subtitles and subtitle jobs between threads |
| `lue::mutex_fifo` | an srsw_fifo, a mutex | the same, each under the mutex; grows when full | the job queue of the play handler |
| `av_format_context` | packet queues per media type, the open file, `cancel_current_io_` | open, close, read_packets_to_queues, seek_time_pos, flush_packet_queues | called by reader, resampler, renderer, play handler |
| `av_codec_context` | the decoder | read_frame | resampler (sound), UI thread (picture) |
| `packet_reader_thread` | seek target, `flush_done_time_point_` | seek_position (UI thread); its loop | `seek_state_`, packet queues |
| `audio_resampler_thread` | the frame in hand | its loop | packet queue to samples queue |
| `audio_render_thread` | none | the sound device's callback | samples queue, clock, `seek_state_` |
| `video_render_thread` | `handle_flush_done_`, the current frame | video_frame_update, on the UI thread | video packets, subtitles queue |
| `subtitle_reader_thread`, `subtitle_downloader_thread` | container, iterator, two job queues | subtitle_container_set, enqueue, dequeue; their loops | subtitles queue; the UI thread chooses, activates and shows |
| `pipeline_threads` | running, started, paused, `seek_state_` | run, start, stop, pause, wait_for_..., flush_queues | owns the threads and the queues |
| `player`, `play_handler_thread` | `primary_stream_state_`, the stream, `close_media_requested_`, `job_queue_`, `ui_events_enabled_`, `subtitle_source_` | open_media, close_current_media, pause, resume, ui_window_active_set, subtitle_select, frame_update; open_command | starts, pauses and stops the pipeline |
| `media_stream_time` | offset, start point, flags | adjust_time, pause_time, resume_time, release_after_reset | set by the audio callback, the UI thread and the play handler, read by all |
| `torrents`, `torrent`, `streaming_cache`, `file` | piece sets, piece cache, requests | alerts; get_pieces_data with timeout and cancel | the file that av_format_context reads |

Everything else in the repository is sequential library code, a wrapper, user
interface or vendored (`PROJECT.json` lists it with the reason it is left out).

### What is hard

* **A seek** is a protocol of four threads over one atomic enumeration.  A flush
  of three kinds of queues takes many steps, and packets, a frame in the
  resampler's hand and the decoders' contents are in flight meanwhile.
* **The fifo** is lockless and made for one reader; one of its users has two.
* **Opening media** is asynchronous: the UI thread aborts and queues, the play
  handler serves, and both store `primary_stream_state_`.
* **Starting and stopping** is a handshake of flags with a wait that may time out.
* **Pausing** is two stores, in the clock and in the pipeline, made by the user, by a window that is
  shown on top of the player, and by the play handler while it opens a medium.
* **Subtitles** pass through four threads and three queues, and the choice may change, the position
  jump or the medium be replaced at each of them.
* **Torrent data** arrives late or never; waits have timeouts and a cancel.

### What makes each part correct

* fifo: nothing lost, duplicated, reordered or read before it is published.
* seek: it ends; what is seen and heard of the old position afterwards is
  bounded; the clock follows.
* player: the last medium asked for is the one that remains; each open settles;
  the worker threads run only on a stream that nobody replaces.
* pause: the window on top of the player keeps clock and threads paused, whatever is opened and started
  under it.
* subtitles: files reach the screen in the order they were chosen, none of their subtitles is dropped, the last file
  arrives, and what is due is shown, wherever the clock stands when a medium begins.
* torrent file: a read returns the bytes at its offset; no request is lost between the reader and the
  alerts; request loops stop; a wait ends by data, cancel or timeout.

## Modules

| Module | Stands for |
|---|---|
| `RingOps` | index arithmetic of srsw_fifo, and the fifo as a value with its resize |
| `Fifo` | the abstract specification: a bounded first-in first-out queue |
| `SrswFifo` | srsw_fifo: each atomic access and each slot access is a step |
| `RingOps_proofs` | lemmas about a ring of any size; resizing keeps what it holds |
| `SrswFifo_proofs` | type correctness, slot safety, `PushAfterRoomSucceeds`; SrswFifo implements Fifo |
| `SubtitlesQueue` | SrswFifo with the two readers the player gives it |
| `MutexFifo` | mutex_fifo: each call is a step |
| `MutexFifo_proofs` | type correctness, `PushSucceeds`; MutexFifo implements Fifo |
| `PipelineSeek` | the seek protocol |
| `PipelineSeek_proofs` | type correctness and all its safety properties |
| `Player` | open, start and close over the UI thread and the play handler |
| `PlayerTime` | `Player` composed with pausing and the window on top of the player |
| `Player_proofs` | all safety properties of both that hold; PlayerTime implements Player |
| `Subtitles` | a subtitle's way from the choice of a file to the screen |
| `Subtitles_proofs` | all its safety properties |
| `ThreadControl` | starting, stopping and ending the worker threads |
| `ThreadControl_proofs` | type correctness and both safety properties |
| `PieceRanges` | which pieces of a torrent hold a part of a file |
| `TorrentFile` | reading a file of a torrent while it is being downloaded |
| `TorrentFile_proofs` | lemmas about the ranges; type correctness, `LoopsEnd`, `ReadIsExact` and `NoRequestLost` |
| `MC...` | instances for TLC |

### SrswFifo

`m_queue`, `m_write_index` and `m_read_index` are the members of the class; the
other variables are the program counters and locals of the calls in progress.
The atomics are used with their default, sequentially consistent order.  push,
push(const T&) and emplace differ only in how the element is put into the slot.
The thread's own index is loaded in the step that begins its call, as nobody else
writes it.  A reader calls `front` only after `empty` said no, as all its
callers do.  `w_room` is a history variable: full() said no and nothing was pushed since.

`Held` maps to the abstract queue.  A front that was moved out and not yet
popped is already gone from it, so the step of `Take` is the abstract Take, and
the later store of the read index is a stutter.  `PopAdvance` of an element that
was only looked at is the abstract Drop, `PushPublish` is Enqueue.

### MutexFifo

Every member function holds the mutex throughout, so each is one action.
`ResizeQueue` drains, reinitialises and refills; `init_queue` adds slots BEHIND
those the vector has, so a full queue of 2 slots becomes one of 4, not 2: that
is why a push after it never fails.  A queue constructed with one slot would not
grow; none is, and `SlotsAssumption` says so.

### PipelineSeek

A packet, frame or sample buffer is the number of seeks performed on the file
when it was read (`gen` at that time).  That is all the properties tell apart.  av_seek_frame may fail,
and nobody looks at its result (packet_reader_thread.cpp:98): `SeekTimePos` moves the file or leaves it where it
is, and the flush goes on either way.

* UI thread (`ui_pc`): seek_position is `SeekBegin` and two compare-exchanges; rendering after a flush reads the frame and lowers the flag in
  two steps.
* Packet reader (`reader_pc`): one place per access to shared state of
  work_function, check_seek_position and check_seek_completed.
* Resampler: `ResampleTake`, `ResamplePush`, with the frame in `hand` between.
* Audio callback (`cb_pc`): tests, clock, sync, copy.

Abstractions: one UI thread seeks; read_frame is one step (each packet it takes
is taken under the lock, and the packet between the queue and the decoder is
counted as part of the decoder); one packet gives one frame, and a decoder
keeps a fixed number of packets back; a refused packet ends read_frame without
a frame; the 2 s timer runs out at any time; `flush_requested_` and the other
flags of signal_flush_start are raised and lowered but nothing depends on them.
The target of a seek is not kept: it is stored after the compare-exchange that publishes the request, so a request that is
served between the two goes to the target of an earlier one, and nothing in the repository promises otherwise.

### Player

A medium is the number of the open_media call that named it.  `OpenMedia`
begins close_media (three stores: `CloseStop`, `CloseCancel`, `CloseInactive`),
then `OpenAsync` queues the job.  The handler's open_command is the chain from
`PopJob` to `SetOpen` or `SetFailed`, one action per store that the UI thread can
see.  The wait for the worker threads is left out because its result is not used
and it may time out; what the threads do meanwhile is not in this module.
The codec contexts are left out, pausing is in `PlayerTime`; stream and cancel flag are all there is of av_format_context.  `patient` is a history
variable: every open so far came after the last one had settled.  `PlayingIsStarted` and
`StartedHasStream` are about such a user; for any user they do not hold, as the violation shows.

### PlayerTime

`PlayerTime` extends `Player`: `vars` stay what they are.  Each of its actions is a step of its own, with `vars`
unchanged, or an action of `Player` with what is said of the pausing around it (`GoOn`, `Elsewhere`).  So every
behaviour of it is one of `Player`, which `Player_proofs` proves.

* internal_paused_set is two stores, the clock's flag (`SetClockPaused`) and then the pipeline's
  (`SetThreadsPaused`), by the UI thread and by the play handler, which no lock keeps apart.  `setting` is how far each of the two is.
* The player itself pauses before it makes a new stream, and resumes in the seek to the start time and in start_playing
  (`PlayerPauses`).  Each of these tests `ui_events_enabled_` first (`TestEvents`) and stores later (`SetTested`).  seek_position tests it
  twice, before anything has changed, so that one test stands for both.
* The window: `ui_window_active_set` pauses (`WindowPauses`) and then disables the events, and later restores and
  then enables them (`WindowSetsEvents`).  `window` is "opening" and "closing" in between.  The UI thread does nothing else
  meanwhile (`UIFree`); the play handler may.

Of the clock only `time_is_paused_` is kept.  Positions would say little: close_media's line 719 calls reset on a
media_stream_time that it constructs there, not on the player's clock (`cur_media_time()`), so the clock keeps its time from one
medium to the next and shows it until the audio callback has adjusted it.  What that does to subtitles is in `Subtitles`.

`undisturbed` is a history variable: no pause and no window came while an open was on its way.  `WindowKeepsPaused` is about
such a user; `WindowIsPaused`, for every user, is what a comment of player.h says and what TLC refutes.  That clock and threads are
paused together is no property: each call makes two stores, and two calls at once may leave them apart.

### Subtitles

Choices are numbered, and a file, its container and its subtitles carry the number.  A subtitle is its place in
`Times`; the clock (`now`) is a small number.  The threads are those of the code:

* UI thread: `Choose` is subtitle_select; `Activate` and `SetContainer` are check_activate_subtitle, which sets
  source and offset before it waits for the reader's mutex; `UpdateSubtitle` draws a frame.
* Downloader: `TakeJob`, then `Downloaded` or `DownloadFails`.  Both of its queues drop what does not fit.
* Subtitle reader: `AskContainer` tests source and seek state, `ReadContainer` has the mutex and finds its place,
  each `EnqueueSubtitle` is a push, after a test of `threads_started_`.  For the medium's own subtitles `ReadStream` decodes a
  packet and `PushFromStream` pushes one after another of what was in it, without the mutex, whatever is queued and whether a
  seek is under way or not; `Push` drops what finds the queue full.
* Packet reader: `SeekFlush` empties the queue, `SeekFlushDone` waits for the mutex, `SeekInSync` ends the seek.
  A seek is accepted while the one before still waits for its sync.  Only what a seek does to subtitles is here, the protocol is `PipelineSeek`.
* Audio callback: `AdjustTime` sets the clock to any time, whenever a medium plays, as the sound it plays may be of before a
  seek.
* Play handler: `CloseMedium` and `OpenMedium`; the container and the time of the clock stay from one medium to the next, as in
  the code.
  `OpenMedium` waits for the reader's pass to end: of the two threads' race at a stream that did not stop in time
  `ThreadControl` speaks.

`passed` and `settled` are history: how often reader and UI thread had their turn since the clock advanced, and
whether the queue may hold anything of before the last change.  `DueSubtitleShown` needs both.  The reader
begins each pass at the last subtitle before now, so the queue may be full of copies of the one before; the one
that is due then comes only with the second turn.  `BoundsAssumption` asks for a read-ahead of at least three, which
is what subtitle_reader_thread.h:52 has.  With two the property is false: a pass that
begins while the queue still holds one old subtitle has room for only one more, which may be old as well, and each
of the two turns may be such a pass.

### ThreadControl

`running`, `started` and `paused` are the flags of pipeline_threads that the
controller stores; `is_running` and `is_stopped` are what each worker stores of
them.  A worker goes round `loop`, `ack`, `enter` and its work; `ack` and
`enter` each load `threads_started_`, and a start may fall between them.
all_threads_stopped reads the flags of the threads one by one (`ReadFlag`, in
any order); the audio callback is no thread and answers with the controller's own flag.
A wait ends when all flags were set or when its time is up (`EndWait`), and nobody looks which
it was: `all_set` keeps it for the properties.

The UI thread and the play handler are one controller here: a start does not
overlap a close (Player models where it does).  Work is a place (`work`, `fill`, `frame`) that
uses the stream; what it does there is PipelineSeek.  `spin` is the head of the resampler's inner
loop.  `overtaken` is a history variable: the workers that a start caught between `ack` and the
test.  `thread_is_paused_` is stored and never read by the player, so it is left out.

### PieceRanges and TorrentFile

`PieceRanges` has the functions of `torrent` as operators.  A range is what pieces_range_t is:
begin, end and where the bytes begin in the first piece.  Bytes are named by their place in the
torrent, so that `Copied` can say which bytes a read returns.  A read is not cut at the end of
the file: past it come the bytes of the next file, as in the code; the demuxer asks for the size.

`TorrentFile` has one torrent with one open file and three parties:

* the reader (`pc`, `call`): `Open` and the wait for metadata; then read and seek.  A call goes
  through `begin`, `request` (one piece a step, because the cache is locked for each), and the wait
  `look`, `try`, `sleep`; a seek requests what comes after it first (`seek_ahead`), a read that
  succeeded afterwards (`read_ahead`).  A seek moves `offset` before it knows whether
  it is valid, and leaves it there when it fails, as the code does.
* the alert thread: `HandlePieceFinished` and `HandlePieceRead`, each one critical section.
* whoever cancels: `AbortIo` is av_format_context's flag, which the progress callback
  returns; `CancelCurrentIoOperation` is the call of `torrent`.  That call sets one flag of the torrent and
  one of its cache; they are one variable here, because each wait clears its own when it begins.

`cache`, `downloaded` and `requested` are the sets of streaming_cache, each as the pieces in it;
the cache never evicts.  libtorrent is external: `have` grows in any order, a piece with a
deadline is read when it is there, each asked read is answered once or, when it was asked twice, perhaps again,
and a read of a piece that does not exist fails (`Answered`).
`failures` and `result` are history.  io_yield_time_ and the timeouts are steps that
may come at any time.

A read may be of any size, and the offset anywhere: FFmpeg reads past its io buffer of 4096 bytes when it wants more, and a refused
seek leaves a negative offset or one past the file.  C++ divides towards zero (`TowardsZero`), so that a place in front of the torrent is piece 0
with a negative start.  The request loop tests `piece != piece_end` (streaming_cache.cpp:159).  A read that is longer than a piece and begins
at or past the end of the torrent gets a range that is cut to an end before its begin, and its loop is never left:
`RequestRunsAway`.  The model stops there ("runaway"); what such a loop asks for is left out.  `LoopsEnd` says that it is the only case.

## Runs

| Run | Checks | Bounds |
|---|---|---|
| `srsw_fifo` | types, `NoDataRace`, `PushAfterRoomSucceeds`, `FlushTerminates`, `ImplementsFifo` | 4 slots, 2 values, 1 reader: the ring fills, wraps and empties with every call in progress |
| `mutex_fifo` | `PushSucceeds`, `ImplementsFifo` | 2 slots that grow to 4 and to 10: two growths, from every position of the indices; the values are symmetric |
| `subtitles_queue_two_readers` | violation of `FrontSubtitleWasQueued` | 3 slots, 1 value |
| `seek` | types, `FlushingIsExclusive`, `StaleSoundBounded`, `StalePictureBounded`, `SeekSettles`, `ClockFollowsSeek` | 2 seeks, so that the second meets every stage of the first, each of which may fail to move the file; a fill level, an audio queue and a samples queue of 1, each of which fills and empties; decoders that both keep 1 packet back, so that old frames come out after a flush |
| `seek_request_overwritten` | violation of `RequestNotOverwritten` | 2 seeks |
| `player` | types of `Player` (those of `PlayerTime` are proved), `LastOpenWins`, `PlayingIsStarted`, `StartedHasStream`, `WindowKeepsPaused`, `OpensSettle` | 3 opens, 2 closes, 2 pauses, resumes or windows, at any time |
| `player_aborted_media_started` | violation of `AbortedMediaNotStarted` | 2 opens |
| `player_window_resumed_under` | violation of `WindowIsPaused` | 1 open, 1 window |
| `subtitles` | types, `PassFits`, `GenerationsInOrder`, `DueSubtitleShown`, `LastFileArrives` | two subtitles that touch (with these one turn would not be enough) and a time at which none is due; an offset; 2 choices, so that one may overtake the other everywhere (a job queue has room for both and never fills here: the order is proved for any room, that the rest arrives past a full one is not checked); 2 seeks and 2 media at any time; the code's read-ahead of 3 in a queue of 4, which the stream fills, with up to 2 subtitles from a packet |
| `thread_control` | types, `ReplacedWhileQuiet`, `TerminatedIsQuiet`, `StopIsAcknowledged`, `ResamplerPassesEnd`, `ThreadsEnd`, `WaitsEnd` | packet reader and resampler (the subtitle reader only has less to do, and the safety properties are proved for any workers); no counters, so no bound |
| `torrent_file` | types, `ReadIsExact`, `NoRequestLost`, `LoopsEnd`, `CancelEndsWait`, `DataEndsWait`, `CallsEnd` | three pieces of 2 bytes, the last one shorter; a file that begins inside a piece; reads of 3 bytes, longer than a piece, which cross pieces and the end of the file; streaming; seeks into the middle, to the end and in front of the file and of the torrent, the last two refused; one piece may be on disk, another may fail |
| `torrent_tail_lost` | violation of `DataReadyIsReturned` | one seek to the last byte |

Every property of a passing run has a mutant in `PROJECT.json`: an operator
defined just before the one it replaces, marked "Mutant", with which TLC finds
the property violated.  They are bugs the code could plausibly have: a
forgotten signal, a queue that is not flushed, a plain store for a
compare-exchange.

The runs of the player and of the subtitles do not check deadlock: the user's calls are bounded, and when
they are used up the threads wait for jobs that do not come.  Nor do the runs of
ThreadControl, where all threads have ended after a terminate.

### What the violations show

* **Two readers of the subtitles queue.**  srsw_fifo is for a single reader
  (srsw_fifo.hpp:16), but the UI thread pops the subtitles queue and the packet
  reader flushes it (pipeline_threads.cpp:249).
* **A seek request is lost.**  The timeout fallback stores ready over a request
  that came after its test (packet_reader_thread.cpp:116).
* **Aborted media is started.**  player.cpp:72 says that open_media aborts media
  that is being opened; its open_command stores open over the abort
  (player.cpp:666), and the UI thread starts it.  There is a second way to lose the abort, which the model
  has as well (`OpenBegin`): av_format_context::open clears the flag that the abort has just set
  (av_format_context.cpp:50), and the open goes on until it succeeds or its I/O times out.
* **A window over a running player.**  player.h:293 says that the player is paused while a window is on top of it.
  ui_window_active_set pauses first and disables the player's events after that; the play handler, which tested the events before and
  resumes after, lets clock and threads run under the window (player.cpp:511).
* **The tail of a torrent.**  ensure_piece_range_valid cuts a range to the index of the
  last piece, not one past it (torrent.cpp:261).  A range that begins in the last piece and
  reaches past it becomes empty, and the wait, which torrent.cpp:304 says ends when the data is ready, runs
  its full two minutes with the data in the cache.

`LoopsEnd` and `CallsEnd` except the request loop that runs away, as described above.

`StopIsAcknowledged` and `ThreadsEnd` hold with an exception that is part of
the properties: a resampler that a stop catches inside its loop
(audio_resampler_thread.cpp:57) goes round without doing anything, because resample_frame returns
with `add_samples` still true.  It does not acknowledge, so each such close waits its full 2 s, and
after a terminate it never ends.  `ReplacedWhileQuiet` has an exception as well: a worker that was
started between its acknowledgement and its test keeps the acknowledgement up while it works, and
a stop right after that start does not wait for it.

### Fairness

* `SrswFifo`: weak fairness of the steps of a call in progress.  The writer
  has none, and nothing obliges a reader to begin a call.
* `PipelineSeek`: weak fairness of each worker thread (they loop with a sleep),
  of the sound device's callback, of the timer, and of the rest of a UI call that has
  begun.  Strong fairness that the callback uses up a buffer: a buffer is finite, so callbacks
  that keep copying finish it.  Both properties assume what they need of the
  user (started, for the clock also not paused and that samples keep coming).
* `Player`: both threads go on; the UI handles events in each frame; the I/O of an open ends, because
  waiting for meta data and for pieces has a timeout (custom_io_base.h:52,
  torrent/file.h:25).  The user need not do anything.
* `PlayerTime`: the same, with the actions as they are composed; that each thread gets on with a pause or resume it has begun, and a
  window with its opening or closing.
* `Subtitles`: the downloader ends each download, well or not (it has a timeout); the UI thread, which draws frames,
  activates what was downloaded and starts a medium that is open; the reader ends its passes.  Nothing is assumed of the clock or the user, nor that
  the reader begins a pass.  `DueSubtitleShown` is about safety: that both threads have their turn within one unit of
  the clock is in `Tick`, since the reader sleeps 1 ms and the UI thread draws each frame.
* `ThreadControl`: weak fairness of each thread and of the controller's unfinished calls; strong
  fairness that a wait's time runs out (a monotonic clock) and that a resampler which may go on
  runs out of frames or of room (its queue is bounded).  A worker's pass ends because the I/O in
  it does.  Nothing obliges the user to start, pause, stop or terminate.
* `TorrentFile`: weak fairness of the reader inside a call, of the end of its sleeps, and that alerts
  that were posted are handled, disk reads that were asked for being answered one way or the other, for each piece and, together, for
  what is asked of pieces that do not exist.  Nothing is assumed of the network:
  no piece need ever come.  `CallsEnd` assumes, in the property, that a timeout that is
  tested again and again runs out (a monotonic clock); the other two hold without it.

`DataEndsWait` excepts a wait in which a read fails: nothing asks for the piece again
until the next call (streaming_cache.cpp:213), so that wait runs to its timeout.

## Proofs

About `SrswFifo`, for any number of slots, any set of elements:

* `TypeCorrect`: `Spec => []TypeOK`, for any set of readers.
* `SlotsSafe`: with at most one reader, `NoDataRace`, `FrontIsElement` and
  `PushAfterRoomSucceeds` always hold.  None is inductive: that no slot is read
  and written at once rests on where the two threads are in their calls.  The
  inductive invariant is `SafetyInv == TypeOK /\ WriterInv /\ ReaderInv /\ SlotsInv`: past its
  check the writer has a free slot behind the write index, and it keeps it since only
  the reader moves the read index, away from it (`WriterInv`); a reader
  that saw an element still has one, since only the writer moves the write index (`ReaderInv`);
  and each slot from the read index up to the write index holds an element, except a front that was
  moved out and not popped (`SlotsInv`).
* `RefinesFifo`: with exactly one reader, `Spec => ImplementsFifo`.  The lemmas
  `RingPush`, `RingPop`, `RingStore` and `RingTake` say what the sequence of occupied slots
  becomes when an index moves or a slot is overwritten; each step of writer and reader
  is then a step of `Fifo` or a stutter.

* `RoomStays` (`PushAfterRoomSucceeds`), from the writer's part of the same invariant.

These assume only that the queue has at least one slot and that the
value of an empty slot is not an element.  `SingleReader` is a hypothesis,
and `SubtitlesQueue` shows that it is needed.

About `RingOps` and `MutexFifo`, for any initial size of at least two slots, any elements and any number of growths:

* `ResizeKeeps`: draining a ring, adding slots and filling it again gives a ring with the same contents in the same order.
  The fill is a recursive function, and what it does for every length is shown by a least
  counterexample (`LeastNumber`, `SetInduction`): a set of numbers, not an operator, is what the argument is about.
* `TypeCorrect`, `NeverRefuses` (`PushSucceeds`), `PopsElements`, and `RefinesFifo`: each call is the
  one step of the abstract queue, whether the ring has to grow for it or not.  `HoldsElements` says that what is held was pushed.

About `ThreadControl`, for any set of workers that has a packet reader and a resampler:

* `TypeCorrect`, `StreamSafe` (`ReplacedWhileQuiet`) and `TerminationSafe` (`TerminatedIsQuiet`).
  The invariant is `IInv == TypeOK /\ StopInv /\ EndInv`.  `StopInv`: an acknowledgement that is up while its
  worker is past the test means the worker was overtaken; from stop to the end of the wait the threads are not started, so an
  acknowledgement that has been read stays up.  `EndInv`: once running is false no worker begins
  another pass, so one that was seen outside its loop stays outside.

About `Player`, for any number of calls:

* `TypeCorrect` and `LastOpenStays` (`LastOpenWins`).  The invariant adds `OpenInv`: the calls made are those
  queued, plus one while open_media is between its close and its push; and an idle handler's stream
  is that of its job.
* `PlayingStaysStarted` (`PlayingIsStarted`) and `ThreadsHaveStream` (`StartedHasStream`), for a user who lets each
  open settle before the next call.  `PatientInv` adds that such a user never finds a job queued behind one that is
  being served, so the handler's stores to the state and the UI thread's do not overlap.

About `PlayerTime`, for any number of calls, pauses and windows:

* `ImplementsPlayer`: with the pause flags and the window left out every step is one of `Player` or a stutter, so what is
  proved of `Player` holds here as well (`LastOpenStaysInTime`).
* `TimeTypeCorrect`: types, and that a thread which has tested the events, or is done with both stores, is at a place where the
  player pauses or resumes.
* `WindowPausesPlayer` (`WindowKeepsPaused`).  Its invariant `WindowInv` says that a window which
  was opened in peace finds no pause or resume of the handler under way, that both stores of its own are made before the events are
  disabled, and that after that no thread gets past its test of them until the window is closed.

About `PipelineSeek`, for any number of seeks, any sizes of the queues and any delay of the decoders:

* `TypeCorrect` and `FlushingExclusive`.  `ControlInv` holds the control state together; its
  counting part, `gen + Pending <= calls`, says that a seek is performed once for each accepted request at most.
* `StaleSoundIsBounded` and `StalePictureIsBounded`.  `QueuesNow`: but for the moment between the seek and the flush
  only packets of the present position are queued.  `SoundNow`: behind the first
  `AudioDelay + 1` places of the sound path there is only new sound, and no step moves a place back.
  `PictureInv`: the last place of the video decoder holds a new frame as soon as one frame has come out
  after the flush, which is what the flush-done flag waits for.

All of them rest on `ReadFramePlaces`, which says where in decoder and queue each result of read_frame comes
from, whether a frame comes out or a packet is refused.

About `TorrentFile`, for any torrent, any file in it, reads of any size and any offset:

* `TypeCorrect`, `RequestLoopsEnd` (`LoopsEnd`), `ReadsExact` (`ReadIsExact`) and `RequestsKept` (`NoRequestLost`).  The invariant is
  `IInv == TypeOK /\ CallInv /\ RequestInv /\ ReadIsExact`.  `CallInv`: a range ends no earlier than it begins, and the request loop is inside
  it, but for the read past the end (`Past`); the range of a wait is that of the offset, which does not move before the data is there.
  `RequestInv`: what has been requested so far in this call is in the cache, failed, or on its way, so data that leaves
  one of these sets has to enter another; when the loop is done that is `NoRequestLost`.  All rest on
  the lemmas about ranges at the head of the module (`TowardsZeroFacts` to `CopiedFacts`).  The cut of torrent.cpp:261 is inside these
  proofs: a read may be short by it, never wrong.

About `Subtitles`, for any subtitle file sorted by begin, any number of choices, seeks and media and any sizes of the queues:

* `TypeCorrect` and `FilePassFits` (`PassFits`).  The queue stays within its room because `Push` drops what does not fit; for a file's
  subtitles it never has to: a pass begins only below the read-ahead and counts down what it may still push, and nobody else pushes during it, the
  stream being read by the same thread.
* `FilesStayInOrder` (`GenerationsInOrder`).  `FrontInv` (screen, queue, reader, container) and `BackInv` (container to chooser)
  meet at the container: nothing before it is newer, nothing behind it older, and a pass keeps the container it began with
  because of the mutex.
* `DueIsShown` (`DueSubtitleShown`), in two invariants.  `ComingInv`: the queue is made of runs of the file, each of which begins no later
  than with something that is due, and goes on where the screen is; so what a frame takes from the queue is never past
  what is due.  `TurnsInv` counts the turns: after the first pass the queue holds what is due, or it is
  full of what has ended or almost empty; the frame after it empties it; so the second pass has room for at least two, and what is due is among
  the first two from where a pass begins (`LastBefore`); the second frame shows it.

Of the constants the module assumes that the subtitles are sorted by when they begin, as the binary search of
find_first_after needs it, and subtitles_read_ahead_size as it is, three or more.  `DueIsShown` has one more hypothesis, `WellTimed`: subtitles may
overlap, but none outlives one that begins after it.  The parser accepts files where one does, and for them the property is
false (TLC shows it with a subtitle from 0 to 3 and one from 1 to 2): after the shorter one the longer one does not come back.

Only model-checked: every liveness property (the prover handles neither fairness nor ENABLED), which is what
keeps `FlushTerminates`, `SeekSettles`, `ClockFollowsSeek`, `OpensSettle`, `LastFileArrives` and those of `ThreadControl` and
`TorrentFile` with TLC.  The violations are about single behaviours, so TLC shows them.  Every safety invariant that a
passing run checks is also a theorem.

## Plan

1. `Player` composed with `ThreadControl`: the real waits inside close_media on both threads, starts that
   overlap a close, terminate while an open is under way, the codec contexts.
2. Removing a torrent while alerts for it are handled, and the map of torrents, which has no lock.
3. `AvSamplesQueue` with `MediaStreamTime`: copying, skipping and stretching at buffer
   boundaries, and a flush between the unlocked calls; the clock's positions over several media and its separate stores.
4. Packet queues that grow while a decoder pops them.
5. A seek across open_command: `Player` and `PipelineSeek` composed, with the targets of seeks.
6. Proofs: what the abstract specification of a seek would promise, implemented by `PipelineSeek`.

## Not modelled

Decoding, resampling and drawing (data only); parsing and formatting; user interface;
stream selection; the contents of torrents' storage; everything outside the player.  The target of a seek, and where the
clock stands apart from `Subtitles`.  What a request loop that runs away asks for, and what is copied from in front of a torrent.
Races on plain memory that are not about a value the model has (the stream pointer, strings
in records) are listed as hazards in `PROJECT.json`, as is most of the above that has no property yet.  The clock's separate stores
are not: a wrong value is gone with the next call, and nothing in the code keeps it.
