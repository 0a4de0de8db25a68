------------------------------ MODULE Subtitles ------------------------------
(***************************************************************************)
(* Subtitles from the user's choice to the screen                          *)
(* (cpaf_libs/gui/video: player, subtitle_downloader_thread,               *)
(* subtitle_reader_thread, video_render_thread; cpaf_libs/video/io:        *)
(* subtitle_container).  Four threads hand them on: the UI thread chooses, *)
(* activates what was downloaded and shows; the downloader fetches one     *)
(* file at a time; the subtitle reader keeps a few subtitles queued ahead; *)
(* the packet reader flushes the queue at a seek.  The play handler opens  *)
(* another medium.  Choices are numbered: a file, the container made of it *)
(* and its subtitles carry the number of the choice.                       *)
(***************************************************************************)
EXTENDS Naturals, Sequences, FiniteSets

CONSTANTS Times,       \* presentation_time and presentation_time_end
          Offsets,     \* subtitle_adjust_offset of the files
          MaxTime,     \* bound on the media clock
          InSize,      \* room in queue_in_ and in queue_out_
          ReadAhead,   \* subtitles_read_ahead_size
          QueueSize,   \* room in subtitles_queue_
          StreamSubtitles,   \* of Times: what the medium's own subtitles have
          StreamBatch, \* bound on what read_subtitles decodes from one packet
          MaxChoices, MaxSeeks, MaxOpens   \* bounds on what the user does

(* The binary search of find_first_after asks for the order by begin.      *)
ASSUME TimesAssumption ==
    /\ Times \in Seq(Nat \X Nat)
    /\ \A m, n \in DOMAIN Times : m < n => Times[m][1] <= Times[n][1]
ASSUME BoundsAssumption ==
    /\ Offsets \subseteq Nat /\ MaxTime \in Nat /\ InSize \in Nat \ {0} /\ ReadAhead \in Nat \ 0 .. 2
    /\ QueueSize \in Nat /\ ReadAhead <= QueueSize /\ StreamBatch \in Nat
    /\ StreamSubtitles \subseteq DOMAIN Times
    /\ MaxChoices \in Nat /\ MaxSeeks \in Nat /\ MaxOpens \in Nat

VARIABLES
    medium,                 \* "closed", "open" or "playing"; threads_started_ while playing
    now,                    \* cur_media_time()
    choice,                 \* how many choices were made
    source, offset,         \* subtitle_source_, subtitles_adjust_offset_
    queue_in, downloading, queue_out,   \* the downloader thread
    arriving, container,    \* dequeued by the UI thread; subtitle_container_
    reader,                 \* the subtitle reader: idle, asking, or between two pushes
    queue, shown,           \* subtitles_queue_, current_subtitle_frame_
    seek,                   \* seek_state_: "ready", "flushing" or "sync"
    opens, seeks,           \* how often the user opened and sought
    passed,                 \* at this time of the clock: passes of the reader and, in turn, frames drawn
    settled,                \* history: "leftovers" queued of before a change, "clean", "calm" a tick later
    fetched                 \* history: the last file that was downloaded

player   == <<medium, now, choice, source, offset, opens>>
download == <<queue_in, downloading, queue_out, fetched>>
screen   == <<queue, shown>>
history  == <<passed, settled>>
vars == <<player, download, arriving, container, reader, screen, seek, seeks, history>>

NoFile  == [nr |-> 0, offset |-> 0]
NoFrame == [nr |-> 0, n |-> 0]
Idle    == [nr |-> 0, n |-> 0, left |-> 0]
Asking  == [nr |-> 0, n |-> 0, left |-> 1]   \* has seen a file chosen and no seek, not yet locked
Streaming(left) == [nr |-> 0, n |-> 1, left |-> left]   \* pushes what it decoded, unlocked

Files  == [nr : 1 .. MaxChoices, offset : Offsets]
Frames == [nr : 0 .. MaxChoices, n : DOMAIN Times]   \* nr 0: of the medium's own subtitle stream

SubTime == now + offset     \* subtitles_time_pos()

Within(f) == f # NoFrame /\ Times[f.n][1] <= SubTime /\ SubTime <= Times[f.n][2]
TooOld(f) == Times[f.n][2] < SubTime

TypeOK ==
    /\ medium \in {"closed", "open", "playing"} /\ now \in 0 .. MaxTime
    /\ choice \in 0 .. MaxChoices /\ opens \in 0 .. MaxOpens /\ seeks \in 0 .. MaxSeeks
    /\ source \in {"none", "text_file", "stream"} /\ offset \in Offsets \cup {0}
    /\ queue_in \in Seq(Files) /\ Len(queue_in) <= InSize /\ downloading \in Files \cup {NoFile}
    /\ queue_out \in Seq(Files) /\ Len(queue_out) <= InSize /\ fetched \in 0 .. MaxChoices
    /\ arriving \in Files \cup {NoFile} /\ container \in Files \cup {NoFile}
    /\ reader \in [nr : 1 .. MaxChoices, n : 1 .. (Len(Times) + 1), left : 0 .. ReadAhead]
                  \cup {Idle, Asking} \cup {Streaming(left) : left \in 1 .. StreamBatch}
    /\ queue \in Seq(Frames) /\ Len(queue) <= QueueSize /\ shown \in Frames \cup {NoFrame}
    /\ seek \in {"ready", "flushing", "sync"} /\ passed \in 0 .. 4
    /\ settled \in {"leftovers", "clean", "calm"}

Init ==
    /\ medium = "closed" /\ now = 0 /\ choice = 0 /\ source = "none" /\ offset = 0
    /\ queue_in = <<>> /\ downloading = NoFile /\ queue_out = <<>> /\ fetched = 0
    /\ arriving = NoFile /\ container = NoFile /\ reader = Idle
    /\ queue = <<>> /\ shown = NoFrame /\ seek = "ready" /\ opens = 0 /\ seeks = 0
    /\ passed = 0 /\ settled = "clean"

(* A change after which the queue may hold subtitles of before it. *)
Disturb(leftovers) ==
    /\ settled' = IF leftovers # <<>> \/ reader # Idle THEN "leftovers" ELSE "clean"
    /\ UNCHANGED passed

ReaderPassed == passed' = (IF passed \in {0, 2} THEN passed + 1 ELSE passed)

(* The reader does not hold subtitle_container_mutex_. *)
Unlocked == reader.nr = 0
-----------------------------------------------------------------------------
(* The UI thread chooses.  It is busy while it hands over a container.     *)

UIFree == arriving = NoFile

(* subtitle_source_ is none, stream or text_file at once: the file is only *)
(* asked for.  A full queue_in_ drops the job.                             *)
SelectFile(off) ==
    /\ choice < MaxChoices /\ choice' = choice + 1
    /\ source' = "text_file"
    /\ queue_in' = IF Len(queue_in) < InSize
                   THEN Append(queue_in, [nr |-> choice + 1, offset |-> off])
                   ELSE queue_in
    /\ UNCHANGED <<offset, downloading, queue_out, fetched>>

SelectStream(off) ==
    /\ choice < MaxChoices /\ choice' = choice + 1
    /\ source' = "stream" /\ offset' = off
    /\ UNCHANGED download

(* Also an entry without a path, and "Subtitles disabled". *)
SelectNone ==
    /\ choice < MaxChoices /\ choice' = choice + 1
    /\ source' = "none"
    /\ UNCHANGED <<offset, download>>

SubtitleSelect ==
    \/ \E off \in Offsets : SelectFile(off) \/ SelectStream(off)
    \/ SelectNone

Choose ==
    /\ medium = "playing" /\ UIFree
    /\ SubtitleSelect
    /\ Disturb(queue)
    /\ UNCHANGED <<medium, now, opens, arriving, container, reader, screen, seek, seeks>>
-----------------------------------------------------------------------------
(* The downloader thread. *)

TakeJobNewest ==
    /\ downloading = NoFile /\ queue_in # <<>>
    /\ downloading' = queue_in[Len(queue_in)]
    /\ queue_in' = SubSeq(queue_in, 1, Len(queue_in) - 1)
    /\ UNCHANGED <<player, queue_out, fetched, arriving, container, reader, screen, seek, seeks, history>>

TakeJob ==
    /\ downloading = NoFile /\ queue_in # <<>>
    /\ downloading' = Head(queue_in) /\ queue_in' = Tail(queue_in)
    /\ UNCHANGED <<player, queue_out, fetched, arriving, container, reader, screen, seek, seeks, history>>

(* A full queue_out_ drops the container. *)
Downloaded ==
    /\ downloading # NoFile /\ downloading' = NoFile
    /\ IF Len(queue_out) < InSize
       THEN queue_out' = Append(queue_out, downloading) /\ fetched' = downloading.nr
       ELSE UNCHANGED <<queue_out, fetched>>
    /\ UNCHANGED <<player, queue_in, arriving, container, reader, screen, seek, seeks, history>>

DownloadFails ==
    /\ downloading # NoFile /\ downloading' = NoFile
    /\ UNCHANGED <<player, queue_in, queue_out, fetched, arriving, container, reader, screen,
                   seek, seeks, history>>
-----------------------------------------------------------------------------
(* The UI thread activates what was downloaded: source and offset first,   *)
(* then the container, for which it waits until the reader has let go of   *)
(* the old one (subtitle_container_mutex_).                                *)

ActivateOncePerChoice ==
    /\ medium = "playing" /\ UIFree /\ queue_out # <<>> /\ Head(queue_out).nr = choice
    /\ arriving' = Head(queue_out) /\ queue_out' = Tail(queue_out)
    /\ source' = "text_file" /\ offset' = Head(queue_out).offset
    /\ Disturb(queue)
    /\ UNCHANGED <<medium, now, choice, opens, queue_in, downloading, fetched, container, reader,
                   screen, seek, seeks>>

Activate ==
    /\ medium = "playing" /\ UIFree /\ queue_out # <<>>
    /\ arriving' = Head(queue_out) /\ queue_out' = Tail(queue_out)
    /\ source' = "text_file" /\ offset' = Head(queue_out).offset
    /\ Disturb(queue)
    /\ UNCHANGED <<medium, now, choice, opens, queue_in, downloading, fetched, container, reader,
                   screen, seek, seeks>>

SetContainer ==
    /\ arriving # NoFile /\ Unlocked
    /\ container' = arriving /\ arriving' = NoFile
    /\ Disturb(queue)
    /\ UNCHANGED <<player, download, reader, screen, seek, seeks>>
-----------------------------------------------------------------------------
(* The subtitle reader thread. *)

FindFirstAfter(ts) == Cardinality({n \in DOMAIN Times : Times[n][1] < ts}) + 1

FindLastBeforeNot(ts) == FindFirstAfter(ts)

FindLastBefore(ts) ==
    IF FindFirstAfter(ts) > 1 THEN FindFirstAfter(ts) - 1 ELSE FindFirstAfter(ts)

(* source and seek_state_ are tested before the mutex is taken: both may   *)
(* have changed, and the container been replaced, when the pass begins.    *)
AskContainer ==
    /\ medium = "playing" /\ reader = Idle /\ source = "text_file" /\ seek = "ready"
    /\ reader' = Asking
    /\ UNCHANGED <<player, download, arriving, container, screen, seek, seeks, history>>

ReadContainerFull ==
    /\ reader = Asking
    /\ LET n == FindLastBefore(SubTime)
       IN  reader' = IF container # NoFile /\ Len(queue) < ReadAhead /\ n \in DOMAIN Times
                     THEN [nr |-> container.nr, n |-> n, left |-> ReadAhead]
                     ELSE Idle
    /\ IF reader' = Idle THEN ReaderPassed ELSE UNCHANGED passed
    /\ UNCHANGED <<player, download, arriving, container, screen, seek, seeks, settled>>

(* A pass over the container begins at the last subtitle before now,       *)
(* whatever is queued already, and pushes as many as there is room for.    *)
ReadContainer ==
    /\ reader = Asking
    /\ LET n == FindLastBefore(SubTime)
       IN  reader' = IF container # NoFile /\ Len(queue) < ReadAhead /\ n \in DOMAIN Times
                     THEN [nr |-> container.nr, n |-> n, left |-> ReadAhead - Len(queue)]
                     ELSE Idle
    /\ IF reader' = Idle THEN ReaderPassed ELSE UNCHANGED passed
    /\ UNCHANGED <<player, download, arriving, container, screen, seek, seeks, settled>>

PushUnchecked(f) == queue' = Append(queue, f)

(* A push that finds the queue full is dropped. *)
Push(f) == queue' = IF Len(queue) < QueueSize THEN Append(queue, f) ELSE queue

(* threads_started_ is tested before each push; pushes of a pass that a    *)
(* flush interrupts go on into the flushed queue.                          *)
EnqueueSubtitle ==
    /\ ~Unlocked
    /\ IF medium = "playing" /\ reader.n \in DOMAIN Times /\ reader.left > 0
       THEN /\ Push([nr |-> reader.nr, n |-> reader.n])
            /\ reader' = [reader EXCEPT !.n = @ + 1, !.left = @ - 1]
            /\ UNCHANGED passed
       ELSE /\ reader' = Idle /\ ReaderPassed
            /\ UNCHANGED queue
    /\ UNCHANGED <<player, download, arriving, container, shown, seek, seeks, settled>>

(* A packet of the medium's own subtitles is decoded, whatever is queued,  *)
(* old or still to come, and during a seek too.                            *)
ReadStream ==
    /\ medium = "playing" /\ reader = Idle /\ source = "stream"
    /\ \E left \in 1 .. StreamBatch : reader' = Streaming(left)
    /\ UNCHANGED <<player, download, arriving, container, screen, seek, seeks, history>>

(* Nothing here depends on the times the decoder finds. *)
PushFromStream ==
    /\ Unlocked /\ reader \notin {Idle, Asking}
    /\ IF medium = "playing" THEN \E n \in StreamSubtitles : Push([nr |-> 0, n |-> n])
                             ELSE UNCHANGED queue
    /\ IF medium = "playing" /\ reader.left > 1
       THEN reader' = Streaming(reader.left - 1) /\ UNCHANGED passed
       ELSE reader' = Idle /\ ReaderPassed
    /\ UNCHANGED <<player, download, arriving, container, shown, seek, seeks, settled>>

(* No source, no packet of the stream, or a seek. *)
ReadNothing ==
    /\ medium = "playing" /\ reader = Idle
    /\ source = "text_file" => seek # "ready"
    /\ ReaderPassed
    /\ UNCHANGED <<player, download, arriving, container, reader, screen, seek, seeks, settled>>
-----------------------------------------------------------------------------
(* The UI thread draws a frame (update_current_subtitle). *)

LeadingOld == Cardinality({i \in DOMAIN queue : \A j \in 1 .. i : TooOld(queue[j])})

Drawn ==
    /\ passed' = (IF passed \in {1, 3} THEN passed + 1 ELSE passed)
    /\ settled' = (IF settled = "leftovers" /\ queue' = <<>> /\ reader = Idle
                   THEN "clean" ELSE settled)

UpdateSubtitleKeepingOld ==
    /\ medium = "playing" /\ UIFree
    /\ IF queue # <<>> /\ Within(Head(queue))
       THEN shown' = Head(queue) /\ queue' = Tail(queue)
       ELSE shown' = (IF Within(shown) THEN shown ELSE NoFrame) /\ queue' = queue
    /\ Drawn
    /\ UNCHANGED <<player, download, arriving, container, reader, seek, seeks>>

UpdateSubtitle ==
    /\ medium = "playing" /\ UIFree
    /\ LET rest == SubSeq(queue, LeadingOld + 1, Len(queue))
       IN  IF rest # <<>> /\ Within(Head(rest))
           THEN shown' = Head(rest) /\ queue' = Tail(rest)
           ELSE shown' = (IF Within(shown) THEN shown ELSE NoFrame) /\ queue' = rest
    /\ Drawn
    /\ UNCHANGED <<player, download, arriving, container, reader, seek, seeks>>

(* Both threads run many times within the shortest time a subtitle is      *)
(* shown for (1 ms for the reader, a frame for the UI thread): within one  *)
(* unit of the clock a pass and then a frame, twice.                       *)
Tick ==
    /\ medium = "playing" /\ now < MaxTime /\ passed = 4 /\ reader = Idle
    /\ now' = now + 1 /\ passed' = 0
    /\ settled' = (IF settled = "clean" THEN "calm" ELSE settled)
    /\ UNCHANGED <<medium, choice, source, offset, opens, download, arriving, container, reader,
                   screen, seek, seeks>>
-----------------------------------------------------------------------------
(* The packet reader flushes at a seek, which it accepts while the one     *)
(* before still waits for sync; flush_done waits for the mutex.            *)

SeekFlush ==
    /\ medium = "playing" /\ seek # "flushing" /\ seeks < MaxSeeks
    /\ seek' = "flushing" /\ seeks' = seeks + 1
    /\ queue' = <<>>
    /\ Disturb(<<>>)
    /\ UNCHANGED <<player, download, arriving, container, reader, shown>>

SeekFlushDone ==
    /\ seek = "flushing" /\ Unlocked
    /\ seek' = "sync"
    /\ UNCHANGED <<player, download, arriving, container, reader, screen, seeks, history>>

(* The audio callback finds the clock near the position, or time is up.    *)
SeekInSync ==
    /\ medium = "playing" /\ seek = "sync"
    /\ seek' = "ready"
    /\ Disturb(queue)
    /\ UNCHANGED <<player, download, arriving, container, reader, screen, seeks>>

(* The audio callback sets the clock to the sound it plays: after a seek,  *)
(* or where the next medium begins.                                        *)
AdjustTime(t) ==
    /\ medium = "playing" /\ now' = t
    /\ Disturb(queue)
    /\ UNCHANGED <<medium, choice, source, offset, opens, download, arriving, container, reader,
                   screen, seek, seeks>>
-----------------------------------------------------------------------------
(* The play handler closes, and opens the next medium: queues and choice   *)
(* are reset, the container and the time of the clock stay.  The UI thread *)
(* starts it.                                                              *)

CloseMedium ==
    /\ medium = "playing" /\ opens < MaxOpens
    /\ medium' = "closed"
    /\ UNCHANGED <<now, choice, source, offset, opens, download, arriving, container, reader, screen,
                   seek, seeks, history>>

OpenMedium ==
    /\ medium = "closed" /\ reader = Idle /\ opens < MaxOpens
    /\ medium' = "open" /\ opens' = opens + 1
    /\ source' = "none" /\ queue' = <<>>
    /\ Disturb(<<>>)
    /\ UNCHANGED <<now, choice, offset, download, arriving, container, reader, shown, seek, seeks>>

StartPlaying ==
    /\ medium = "open" /\ UIFree
    /\ medium' = "playing" /\ shown' = NoFrame
    /\ SubtitleSelect
    /\ Disturb(<<>>)
    /\ UNCHANGED <<now, opens, arriving, container, reader, queue, seek, seeks>>
-----------------------------------------------------------------------------
UI == Activate \/ SetContainer \/ UpdateSubtitle
Reader ==
    \/ AskContainer \/ ReadContainer \/ EnqueueSubtitle
    \/ ReadStream \/ PushFromStream \/ ReadNothing

Next ==
    \/ Choose \/ UI
    \/ TakeJob \/ Downloaded \/ DownloadFails
    \/ Reader \/ Tick
    \/ SeekFlush \/ SeekFlushDone \/ SeekInSync \/ \E t \in 0 .. MaxTime : AdjustTime(t)
    \/ CloseMedium \/ OpenMedium \/ StartPlaying

Spec == Init /\ [][Next]_vars

(* The downloader, the UI thread's frames and the reader's passes go on by *)
(* themselves.  Nothing is assumed of the user or of the clock.            *)
Fairness ==
    /\ WF_vars(TakeJob) /\ WF_vars(Downloaded \/ DownloadFails)
    /\ WF_vars(Activate) /\ WF_vars(SetContainer) /\ WF_vars(ReadContainer \/ EnqueueSubtitle)
    /\ WF_vars(StartPlaying)

FairSpec == Spec /\ Fairness
-----------------------------------------------------------------------------
(* A pass over a file never queues more than the read-ahead, so that none   *)
(* of its subtitles is dropped at a full queue, although the medium's own   *)
(* subtitles were queued without any limit, the UI thread pops and a seek   *)
(* flushes meanwhile.                                                       *)
PassFits == ~Unlocked => Len(queue) + reader.left <= ReadAhead

(* What carries the number of a choice, from the screen back to the        *)
(* chooser.                                                                *)
Stages == << <<shown>>, queue, <<reader>>, <<container>>, <<arriving>>,
             queue_out, <<downloading>>, queue_in >>

(* Nothing in s is of a file chosen after that of something behind it in s, *)
(* or of something in t.                                                    *)
InOrder(s) == \A i, j \in DOMAIN s : i < j /\ s[j].nr > 0 => s[i].nr <= s[j].nr
NotAfter(s, t) == \A i \in DOMAIN s, j \in DOMAIN t : t[j].nr > 0 => s[i].nr <= t[j].nr

(* Files reach the screen in the order they were chosen, however long a    *)
(* download takes and whichever thread is ahead: nothing of a file is      *)
(* shown, queued or read after something of a file chosen later.           *)
GenerationsInOrder ==
    \A m, n \in DOMAIN Stages :
        /\ InOrder(Stages[m])
        /\ m < n => NotAfter(Stages[m], Stages[n])

(* Subtitles may overlap, but none outlives a later one: a pass begins at   *)
(* the last one that has begun, whether it has ended or not.                *)
WellTimed ==
    /\ \A n \in DOMAIN Times : Times[n][1] <= Times[n][2]
    /\ \A m, n \in DOMAIN Times : m < n => Times[m][2] <= Times[n][2]

(* While a file's subtitles are shown and neither the choice nor the       *)
(* position has changed since the clock last advanced, a subtitle that is  *)
(* due is on the screen once reader and UI thread have each had two turns, *)
(* however often the same subtitles were queued again.  One turn is not    *)
(* enough: the queue may be full of copies of the one before.  (In a file  *)
(* that is WellTimed.)                                                     *)
DueSubtitleShown ==
    ( /\ medium = "playing" /\ source = "text_file" /\ seek = "ready" /\ container # NoFile
      /\ passed = 4 /\ settled = "calm" )
    => ( (\E n \in DOMAIN Times : Within([nr |-> container.nr, n |-> n])) =>
         Within(shown) /\ shown.nr = container.nr )

(* What was downloaded comes to be what is read, the last file last: no    *)
(* container is left behind in a queue while a medium with video plays.    *)
LastFileArrives ==
    <>[](medium = "playing" => fetched <= container.nr)
=============================================================================
