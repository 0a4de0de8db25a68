---------------------------- MODULE PipelineSeek ----------------------------
(***************************************************************************)
(* The seek protocol of the playing pipeline (cpaf_libs/gui/video/         *)
(* pipeline_threads).  Four threads share the atomic seek_state_ and the   *)
(* packet and sample queues, and no lock covers a whole seek:              *)
(*                                                                         *)
(*   UI thread       pause, resume, seek_position, and video_frame_update  *)
(*   packet reader   serves a requested seek and fills the packet queues   *)
(*   resampler       turns an audio packet into a sample buffer            *)
(*   audio callback  plays sample buffers and sets the media clock         *)
(*                                                                         *)
(* Packets, frames and sample buffers are abstracted to the number of the  *)
(* seek after which they were read from the file (their generation).       *)
(* Where a seek goes is left out, and with it the store of the target that *)
(* follows the request (packet_reader_thread::seek_position).              *)
(***************************************************************************)
EXTENDS Naturals, Sequences, FiniteSets

CONSTANTS MaxSeeks,     \* bound on the seek_position calls of a behaviour
          FillLevel,    \* primary_queue_fill_level_ of the packet reader
          MaxAudio,     \* most audio packets queued at once
          MaxSamples,   \* most sample buffers queued at once
          VideoDelay,   \* packets the video decoder keeps before a frame comes out
          AudioDelay,   \* and the audio decoder
          None          \* an invalid frame

ASSUME BoundsAssumption ==
    /\ MaxSeeks \in Nat /\ FillLevel \in Nat \ {0}
    /\ MaxAudio \in Nat \ {0} /\ MaxSamples \in Nat \ {0}
    /\ VideoDelay \in Nat /\ AudioDelay \in Nat
    /\ None \notin Nat

VARIABLES
    seek_state,         \* pipeline_threads::seek_state_
    threads_started, threads_paused,
    calls,              \* seek_position calls made
    ui_pc,              \* where the UI thread is
    reader_pc,          \* where the packet reader is
    timer_expired,      \* more than 2 s since flush_done_time_point_
    gen,                \* seeks of the file that succeeded
    audio, video,       \* the packet queues
    adec, vdec,         \* what is inside the audio and the video decoder
    hand,               \* the frame the resampler is working on, or None
    samples,            \* audio_samples_queue_
    cb_pc,              \* where the audio callback is
    clock,              \* cur_media_time_: generation it was last adjusted to
    handle_flush_done,  \* video_render_thread::handle_flush_done_
    frame               \* the current video frame, or None

control == <<seek_state, threads_started, threads_paused>>
request == <<calls, ui_pc>>
reader  == <<reader_pc, timer_expired, gen>>
queues  == <<audio, video, samples>>
codecs  == <<adec, vdec>>
sound   == <<hand, cb_pc, clock>>
picture == <<handle_flush_done, frame>>
vars == <<control, request, reader, queues, codecs, sound, picture>>

SeekStates == {"ready", "requested", "flushing", "flush_done", "waiting_for_sync"}

(* The places of the packet reader between its CAS to flushing and its      *)
(* store of flush_done.                                                     *)
FlushPcs == {"signal_start", "fill_old", "seek", "flush_packets", "flush_samples",
             "fill_new", "signal_done", "store_done"}
ReaderPcs == FlushPcs \cup {"loop", "check", "store_waiting", "completed", "fallback",
                            "in_sync", "fill"}

Gens == 0 .. MaxSeeks

TypeOK ==
    /\ seek_state \in SeekStates
    /\ threads_started \in BOOLEAN /\ threads_paused \in BOOLEAN
    /\ calls \in Gens
    /\ ui_pc \in {"idle", "cas_ready", "cas_waiting", "clear"}
    /\ reader_pc \in ReaderPcs
    /\ timer_expired \in BOOLEAN
    /\ gen \in Gens
    /\ audio \in Seq(Gens) /\ Len(audio) <= MaxAudio
    /\ video \in Seq(Gens) /\ Len(video) <= FillLevel + 1
    /\ samples \in Seq(Gens) /\ Len(samples) <= MaxSamples
    /\ adec \in Seq(Gens) /\ Len(adec) <= AudioDelay
    /\ vdec \in Seq(Gens) /\ Len(vdec) <= VideoDelay
    /\ hand \in Gens \cup {None}
    /\ cb_pc \in {"idle", "adjust", "sync", "copy"}
    /\ clock \in Gens
    /\ handle_flush_done \in BOOLEAN
    /\ frame \in Gens \cup {None}

Init ==
    /\ seek_state = "ready"
    /\ threads_started = FALSE /\ threads_paused = FALSE
    /\ calls = 0 /\ ui_pc = "idle"
    /\ reader_pc = "loop" /\ timer_expired = TRUE /\ gen = 0
    /\ audio = << >> /\ video = << >> /\ samples = << >>
    /\ adec = << >> /\ vdec = << >>
    /\ hand = None /\ cb_pc = "idle" /\ clock = 0
    /\ handle_flush_done = FALSE /\ frame = None

-----------------------------------------------------------------------------
(* UI thread *)

StartStop ==
    /\ ui_pc = "idle"
    /\ threads_started' = ~threads_started
    /\ UNCHANGED <<seek_state, threads_paused, request, reader, queues, codecs, sound, picture>>

PauseResume ==
    /\ ui_pc = "idle"
    /\ threads_paused' = ~threads_paused
    /\ UNCHANGED <<seek_state, threads_started, request, reader, queues, codecs, sound, picture>>

(* player::seek_position resumes playback and forwards to the packet reader. *)
SeekBegin ==
    /\ ui_pc = "idle"
    /\ calls < MaxSeeks
    /\ calls' = calls + 1
    /\ threads_paused' = FALSE
    /\ ui_pc' = "cas_ready"
    /\ UNCHANGED <<seek_state, threads_started, reader, queues, codecs, sound, picture>>

(* Mutant: a plain store instead of a compare-exchange. *)
SeekCasAlways(expected, elsewhere) ==
    /\ seek_state' = "requested" /\ ui_pc' = "idle"
    /\ UNCHANGED <<threads_started, threads_paused, calls, reader, queues, codecs, sound, picture>>

(* One compare_exchange_strong(expected, requested); elsewhere on failure. *)
SeekCas(expected, elsewhere) ==
    /\ IF seek_state = expected
       THEN seek_state' = "requested" /\ ui_pc' = "idle"
       ELSE ui_pc' = elsewhere /\ UNCHANGED seek_state
    /\ UNCHANGED <<threads_started, threads_paused, calls, reader, queues, codecs, sound, picture>>

SeekCasReady == ui_pc = "cas_ready" /\ SeekCas("ready", "cas_waiting")

SeekCasWaiting == ui_pc = "cas_waiting" /\ SeekCas("waiting_for_sync", "idle")

(***************************************************************************)
(* av_codec_context::read_frame: packets are popped and sent to the        *)
(* decoder until a frame comes out or the queue is empty; a packet that    *)
(* cannot be sent ends the call without a frame.  The decoder gives the    *)
(* oldest frame once it holds more than delay packets, and nothing in the  *)
(* code ever empties it (no avcodec_flush_buffers).                        *)
(***************************************************************************)
Decoded(decoder, queue, delay) ==
    LET all == decoder \o queue
    IN  IF Len(all) > delay
        THEN [frame   |-> Head(all),
              decoder |-> SubSeq(all, 2, delay + 1),
              queue   |-> SubSeq(all, delay + 2, Len(all))]
        ELSE [frame |-> None, decoder |-> all, queue |-> << >>]

(* The k-th packet is refused: those before it went into the decoder. *)
Refused(decoder, queue, k) ==
    [frame   |-> None,
     decoder |-> decoder \o SubSeq(queue, 1, k - 1),
     queue   |-> SubSeq(queue, k + 1, Len(queue))]

ReadFrame(decoder, queue, delay) ==
    {Decoded(decoder, queue, delay)} \cup
    {Refused(decoder, queue, k) :
        k \in {i \in DOMAIN queue : i + Len(decoder) <= delay + 1}}

ReadVideoFrame ==
    \E result \in ReadFrame(vdec, video, VideoDelay) :
        frame' = result.frame /\ vdec' = result.decoder /\ video' = result.queue

(* video_frame_do_render when the flush-done flag is up: read, render, and *)
(* then lower the flag in a step of its own.                               *)
RenderAfterFlush ==
    /\ ui_pc = "idle"
    /\ threads_started /\ seek_state = "ready" /\ handle_flush_done
    /\ ReadVideoFrame
    /\ ui_pc' = "clear"
    /\ UNCHANGED <<control, calls, reader, audio, samples, adec, sound, handle_flush_done>>

RenderClear ==
    /\ ui_pc = "clear"
    /\ handle_flush_done' = FALSE
    /\ ui_pc' = "idle"
    /\ UNCHANGED <<control, calls, reader, queues, codecs, sound, frame>>

(* The frame is due, or more than 5 s away: the next one is read. *)
RenderNext ==
    /\ ui_pc = "idle"
    /\ threads_started /\ seek_state = "ready" /\ ~handle_flush_done
    /\ ReadVideoFrame
    /\ UNCHANGED <<control, request, reader, audio, samples, adec, sound, handle_flush_done>>

UI == \/ StartStop \/ PauseResume
      \/ SeekBegin \/ SeekCasReady \/ SeekCasWaiting
      \/ RenderAfterFlush \/ RenderClear \/ RenderNext

-----------------------------------------------------------------------------
(* Packet reader *)

ReaderLoop ==
    /\ reader_pc = "loop"
    /\ threads_started
    /\ reader_pc' = "check"
    /\ UNCHANGED <<control, request, timer_expired, gen, queues, codecs, sound, picture>>

CheckSeekPosition ==
    /\ reader_pc = "check"
    /\ IF seek_state = "requested"
       THEN seek_state' = "flushing" /\ reader_pc' = "signal_start"
       ELSE reader_pc' = "completed" /\ UNCHANGED seek_state
    /\ UNCHANGED <<threads_started, threads_paused, request, timer_expired, gen, queues, codecs, sound, picture>>

(* signal_flush_start raises flags that no thread acts on. *)
SignalFlushStart ==
    /\ reader_pc = "signal_start"
    /\ reader_pc' = "fill_old"
    /\ UNCHANGED <<control, request, timer_expired, gen, queues, codecs, sound, picture>>

(***************************************************************************)
(* read_packets_to_queues(primary, fill): nothing when the primary (video) *)
(* queue holds fill packets; otherwise packets of both streams are queued  *)
(* until it does or the file ends.                                         *)
(***************************************************************************)
Fresh(n) == [k \in 1 .. n |-> gen]

ReadPacketsToQueues(fill) ==
    IF Len(video) >= fill
    THEN UNCHANGED <<audio, video>>
    ELSE \E a \in 0 .. MaxAudio - Len(audio), v \in 0 .. fill - Len(video) :
            audio' = audio \o Fresh(a) /\ video' = video \o Fresh(v)

FillOld ==
    /\ reader_pc = "fill_old"
    /\ ReadPacketsToQueues(FillLevel + 1)
    /\ reader_pc' = "seek"
    /\ UNCHANGED <<control, request, timer_expired, gen, samples, codecs, sound, picture>>

(* av_seek_frame may fail; nobody looks at the result, and the flush goes  *)
(* on at the position where the file is.                                   *)
SeekTimePos ==
    /\ reader_pc = "seek"
    /\ gen' \in {gen, gen + 1}
    /\ reader_pc' = "flush_packets"
    /\ UNCHANGED <<control, request, timer_expired, queues, codecs, sound, picture>>

(* Mutant: only the primary stream's queue is flushed. *)
FlushVideoQueueOnly ==
    /\ reader_pc = "flush_packets"
    /\ video' = << >>
    /\ reader_pc' = "flush_samples"
    /\ UNCHANGED <<control, request, timer_expired, gen, audio, samples, codecs, sound, picture>>

(* pipeline_threads::flush_queues: first the packets ... *)
FlushPacketQueues ==
    /\ reader_pc = "flush_packets"
    /\ audio' = << >> /\ video' = << >>
    /\ reader_pc' = "flush_samples"
    /\ UNCHANGED <<control, request, timer_expired, gen, samples, codecs, sound, picture>>

(* ... then the samples. *)
FlushSamplesQueue ==
    /\ reader_pc = "flush_samples"
    /\ samples' = << >>
    /\ reader_pc' = "fill_new"
    /\ UNCHANGED <<control, request, timer_expired, gen, audio, video, codecs, sound, picture>>

FillNew ==
    /\ reader_pc = "fill_new"
    /\ ReadPacketsToQueues(FillLevel)
    /\ reader_pc' = "signal_done"
    /\ UNCHANGED <<control, request, timer_expired, gen, samples, codecs, sound, picture>>

(* Mutant: the render thread is not told. *)
SignalFlushDoneForgotten ==
    /\ reader_pc = "signal_done"
    /\ reader_pc' = "store_done"
    /\ UNCHANGED <<control, request, timer_expired, gen, queues, codecs, sound, picture>>

SignalFlushDone ==
    /\ reader_pc = "signal_done"
    /\ handle_flush_done' = TRUE
    /\ reader_pc' = "store_done"
    /\ UNCHANGED <<control, request, timer_expired, gen, queues, codecs, sound, frame>>

StoreFlushDone ==
    /\ reader_pc = "store_done"
    /\ seek_state' = "flush_done"
    /\ timer_expired' = FALSE
    /\ reader_pc' = "store_waiting"
    /\ UNCHANGED <<threads_started, threads_paused, request, gen, queues, codecs, sound, picture>>

StoreWaiting ==
    /\ reader_pc = "store_waiting"
    /\ seek_state' = "waiting_for_sync"
    /\ reader_pc' = "completed"
    /\ UNCHANGED <<threads_started, threads_paused, request, timer_expired, gen, queues, codecs, sound, picture>>

(* Mutant: no timeout fallback. *)
CheckSeekCompletedNoFallback ==
    /\ reader_pc = "completed"
    /\ reader_pc' = "fill"
    /\ UNCHANGED <<control, request, timer_expired, gen, queues, codecs, sound, picture>>

(* check_seek_completed: the state is loaded and tested here ... *)
CheckSeekCompleted ==
    /\ reader_pc = "completed"
    /\ reader_pc' = IF seek_state = "waiting_for_sync" /\ timer_expired
                    THEN "fallback" ELSE "fill"
    /\ UNCHANGED <<control, request, timer_expired, gen, queues, codecs, sound, picture>>

(* ... and overwritten by a plain store here. *)
FallbackStore ==
    /\ reader_pc = "fallback"
    /\ seek_state' = "ready"
    /\ reader_pc' = "in_sync"
    /\ UNCHANGED <<threads_started, threads_paused, request, timer_expired, gen, queues, codecs, sound, picture>>

(* compare_exchange_strong(waiting_for_sync, ready) *)
CheckSetSeekInSync ==
    seek_state' = IF seek_state = "waiting_for_sync" THEN "ready" ELSE seek_state

FallbackInSync ==
    /\ reader_pc = "in_sync"
    /\ CheckSetSeekInSync
    /\ reader_pc' = "fill"
    /\ UNCHANGED <<threads_started, threads_paused, request, timer_expired, gen, queues, codecs, sound, picture>>

FillQueues ==
    /\ reader_pc = "fill"
    /\ IF threads_paused
       THEN UNCHANGED <<audio, video>>
       ELSE ReadPacketsToQueues(FillLevel)
    /\ reader_pc' = "loop"
    /\ UNCHANGED <<control, request, timer_expired, gen, samples, codecs, sound, picture>>

PacketReader ==
    \/ ReaderLoop \/ CheckSeekPosition \/ SignalFlushStart \/ FillOld \/ SeekTimePos
    \/ FlushPacketQueues \/ FlushSamplesQueue \/ FillNew \/ SignalFlushDone
    \/ StoreFlushDone \/ StoreWaiting \/ CheckSeekCompleted \/ FallbackStore
    \/ FallbackInSync \/ FillQueues

(* Two seconds pass. *)
TimerExpires ==
    /\ ~timer_expired
    /\ timer_expired' = TRUE
    /\ UNCHANGED <<control, request, reader_pc, gen, queues, codecs, sound, picture>>

-----------------------------------------------------------------------------
(* Resampler: a frame is read, and its samples pushed later. *)

ReadAudioFrame ==
    \E result \in ReadFrame(adec, audio, AudioDelay) :
        hand' = result.frame /\ adec' = result.decoder /\ audio' = result.queue

(* Mutant: a full samples queue is not noticed. *)
ResampleTakeUnbounded ==
    /\ hand = None
    /\ ~threads_paused /\ threads_started
    /\ audio # << >>
    /\ ReadAudioFrame
    /\ UNCHANGED <<control, request, reader, video, samples, vdec, cb_pc, clock, picture>>

ResampleTake ==
    /\ hand = None
    /\ ~threads_paused /\ threads_started
    /\ Len(samples) < MaxSamples
    /\ audio # << >>
    /\ ReadAudioFrame
    /\ UNCHANGED <<control, request, reader, video, samples, vdec, cb_pc, clock, picture>>

ResamplePush ==
    /\ hand # None
    /\ samples' = Append(samples, hand)
    /\ hand' = None
    /\ UNCHANGED <<control, request, reader, audio, video, codecs, cb_pc, clock, picture>>

Resampler == ResampleTake \/ ResamplePush

-----------------------------------------------------------------------------
(* Audio callback.  When it renders silence it changes nothing. *)

CallbackBegin ==
    /\ cb_pc = "idle"
    /\ threads_started /\ ~threads_paused
    /\ seek_state # "flushing"
    /\ samples # << >>
    /\ cb_pc' = "adjust"
    /\ UNCHANGED <<control, request, reader, queues, codecs, hand, clock, picture>>

(* Mutant: the clock is set once per seek, by the first buffer after it. *)
CallbackAdjustOnce ==
    /\ cb_pc = "adjust"
    /\ clock' = IF samples = << >> \/ seek_state # "waiting_for_sync" THEN clock ELSE Head(samples)
    /\ cb_pc' = "sync"
    /\ UNCHANGED <<control, request, reader, queues, codecs, hand, picture>>

(* adjust_time ignores the invalid time of a queue that was flushed meanwhile. *)
CallbackAdjust ==
    /\ cb_pc = "adjust"
    /\ clock' = IF samples = << >> THEN clock ELSE Head(samples)
    /\ cb_pc' = "sync"
    /\ UNCHANGED <<control, request, reader, queues, codecs, hand, picture>>

CallbackSync ==
    /\ cb_pc = "sync"
    /\ CheckSetSeekInSync
    /\ cb_pc' = "copy"
    /\ UNCHANGED <<threads_started, threads_paused, request, reader, queues, codecs, hand, clock, picture>>

(* copy_audio_samples uses up or skips some of the buffers, or only part of *)
(* the first one.                                                           *)
CallbackCopy ==
    /\ cb_pc = "copy"
    /\ \E n \in 0 .. Len(samples) : samples' = SubSeq(samples, n + 1, Len(samples))
    /\ cb_pc' = "idle"
    /\ UNCHANGED <<control, request, reader, audio, video, codecs, hand, clock, picture>>

AudioCallback == CallbackBegin \/ CallbackAdjust \/ CallbackSync \/ CallbackCopy

-----------------------------------------------------------------------------
Next == UI \/ PacketReader \/ TimerExpires \/ Resampler \/ AudioCallback

Spec == Init /\ [][Next]_vars

(* The worker threads are scheduled, time passes and the sound device calls *)
(* back; a UI call that has begun returns.  A sample buffer is finite, so   *)
(* callbacks that keep copying from it use it up.  The user need not do     *)
(* anything.                                                                *)
Fairness ==
    /\ WF_vars(PacketReader)
    /\ WF_vars(TimerExpires)
    /\ WF_vars(Resampler)
    /\ WF_vars(AudioCallback)
    /\ SF_vars(CallbackCopy /\ samples' # samples)
    /\ WF_vars(SeekCasReady \/ SeekCasWaiting \/ RenderClear)

FairSpec == Spec /\ Fairness

-----------------------------------------------------------------------------
(* Properties *)

(* seek_state_ says flushing exactly while the packet reader is between its *)
(* compare-exchange and its store of flush_done, so the audio callback is   *)
(* silent for the whole flush and no other thread ends it early.            *)
FlushingIsExclusive == seek_state = "flushing" <=> reader_pc \in FlushPcs

(* What will be played, in playing order: the queued sample buffers, the    *)
(* frame in the resampler's hand and the contents of the audio decoder.     *)
InHand == IF hand = None THEN << >> ELSE <<hand>>
SoundPath == samples \o InHand \o adec
Stale(s) == {k \in DOMAIN s : s[k] \notin {gen, None}}

(* After a flush no packet of before the seek is queued, and the sound that *)
(* can still be played from before it is bounded: what the decoder kept and *)
(* the one frame the resampler was working on, whose samples are pushed     *)
(* into the queue that was just flushed (pipeline_threads::flush_queues).   *)
StaleSoundBounded ==
    seek_state # "flushing" =>
        /\ Stale(audio) = {} /\ Stale(video) = {}
        /\ Cardinality(Stale(SoundPath)) <= AudioDelay + 1

(* Once the UI thread has lowered handle_flush_done_ the picture of before  *)
(* the seek is gone, but for what the video decoder still held: the current *)
(* frame and the decoder together hold at most VideoDelay stale frames.     *)
StalePictureBounded ==
    seek_state = "ready" /\ ui_pc = "idle" /\ ~handle_flush_done =>
        Cardinality(Stale(<<frame>> \o vdec)) <= VideoDelay

(* A seek always ends: from any state seek_state_ returns to ready, through *)
(* the audio callback or the 2 s fallback, while the threads stay started.  *)
SeekSettles ==
    <>[]threads_started => []<>(seek_state = "ready")

(* The media clock ends up on samples of the last seek while playing goes   *)
(* on and samples keep coming, even if a stale buffer was played first.     *)
ClockFollowsSeek ==
    (<>[](threads_started /\ ~threads_paused) /\ []<>(samples # << >>)) => <>[](clock = gen)

(* "If current seek state is seek_state_t::waiting_for_sync then next state *)
(* will be seek_state_t::ready [...] Otherwise no change in seek state": a  *)
(* requested seek is never declared in sync (pipeline_threads.cpp:113).     *)
RequestNotOverwritten ==
    [][seek_state = "requested" => seek_state' # "ready"]_vars
=============================================================================
