------------------------------- MODULE Player -------------------------------
(***************************************************************************)
(* Opening, starting and closing media (cpaf_libs/gui/video/player.cpp     *)
(* with pipeline_threads/play_handler_thread.cpp).  Two threads drive the  *)
(* atomic primary_stream_state_: the UI thread, through open_media,        *)
(* close_current_media and the events of frame_update, and the play        *)
(* handler thread, which serves the queued open jobs.  Only the state      *)
(* variable, the job queue and the flags below are shared; there is no     *)
(* lock, so every store is a step.                                         *)
(*                                                                         *)
(* A medium is the number of the open_media call that named it, so the     *)
(* last one asked for is opens.                                            *)
(***************************************************************************)
EXTENDS Naturals, Sequences

CONSTANTS MaxOpens,   \* bound on open_media calls
          MaxCloses,  \* bound on close_current_media calls
          None        \* no medium

ASSUME PlayerAssumption ==
    MaxOpens \in Nat /\ MaxCloses \in Nat /\ None \notin Nat

VARIABLES
    stream_state,     \* primary_stream_state_
    close_requested,  \* close_media_requested_
    threads_started,  \* pipeline_threads::threads_started_
    stream,           \* primary_source_stream_: the medium it was made for
    cancel,           \* cancel_current_io_ of that stream
    jobs,             \* job_queue_, an unbounded fifo (MutexFifo)
    job,              \* current_job_
    opens, closes,    \* calls made
    patient,          \* history: each open came after the last one had settled
    pc                \* where the two threads are

shared == <<stream_state, close_requested, threads_started, stream, cancel>>
calls  == <<opens, closes, patient>>
vars   == <<shared, jobs, job, calls, pc>>

Media == 1 .. MaxOpens
StreamStates == {"inactive", "opening", "open", "start_playing", "playing"}

(* close_media is called from both threads. *)
ClosePcs   == {"close_stop", "close_cancel", "close_inactive"}
UiPcs      == ClosePcs \cup {"idle", "push", "start", "playing"}
HandlerPcs == ClosePcs \cup {"idle", "reset", "clear", "opening", "stop", "new",
                             "open", "io", "opened", "failed"}

TypeOK ==
    /\ stream_state \in StreamStates
    /\ close_requested \in BOOLEAN /\ threads_started \in BOOLEAN /\ cancel \in BOOLEAN
    /\ stream \in Media \cup {None} /\ job \in Media \cup {None}
    /\ pc.handler # "idle" => job \in Media
    /\ jobs \in Seq(Media)
    /\ opens \in 0 .. MaxOpens /\ closes \in 0 .. MaxCloses /\ patient \in BOOLEAN
    /\ pc \in [ui : UiPcs, handler : HandlerPcs]

Init ==
    /\ stream_state = "inactive"
    /\ close_requested = FALSE /\ threads_started = FALSE
    /\ stream = None /\ cancel = FALSE
    /\ jobs = << >> /\ job = None
    /\ opens = 0 /\ closes = 0 /\ patient = TRUE
    /\ pc = [ui |-> "idle", handler |-> "idle"]

At(thread, place)   == pc[thread] = place
Goto(thread, place) == pc' = [pc EXCEPT ![thread] = place]

-----------------------------------------------------------------------------
(* Mutant: close_media leaves the threads running. *)
CloseStopForgotten(t) ==
    /\ At(t, "close_stop")
    /\ Goto(t, "close_cancel")
    /\ UNCHANGED <<shared, jobs, job, calls>>

(***************************************************************************)
(* close_media, up to its last store.  The wait for the worker threads     *)
(* between cancelling and going inactive may time out, and its result is   *)
(* not used.                                                               *)
(***************************************************************************)
CloseStop(t) ==
    /\ At(t, "close_stop")
    /\ threads_started' = FALSE
    /\ Goto(t, "close_cancel")
    /\ UNCHANGED <<stream_state, close_requested, stream, cancel, jobs, job, calls>>

CloseCancel(t) ==
    /\ At(t, "close_cancel")
    /\ cancel' = (cancel \/ stream # None)
    /\ Goto(t, "close_inactive")
    /\ UNCHANGED <<stream_state, close_requested, threads_started, stream, jobs, job, calls>>

CloseInactive(t, next) ==
    /\ At(t, "close_inactive")
    /\ stream_state' = "inactive"
    /\ Goto(t, next)
    /\ UNCHANGED <<close_requested, threads_started, stream, cancel, jobs, job, calls>>

-----------------------------------------------------------------------------
(* UI thread *)

(* Everything asked for so far has been opened and started, or has failed. *)
Settled ==
    /\ jobs = << >> /\ At("handler", "idle")
    /\ stream_state \in {"inactive", "playing"}

(* open_media closes what there is and then queues the job. *)
OpenMedia ==
    /\ At("ui", "idle")
    /\ opens < MaxOpens
    /\ opens' = opens + 1 /\ patient' = (patient /\ Settled)
    /\ Goto("ui", "close_stop")
    /\ UNCHANGED <<shared, jobs, job, closes>>

(* A close_media that belongs to an open_media is the one whose job is not *)
(* queued yet.                                                             *)
Queued == IF jobs # << >> THEN jobs[Len(jobs)] ELSE IF job = None THEN 0 ELSE job

CloseMediaUI ==
    \/ CloseStop("ui") \/ CloseCancel("ui")
    \/ CloseInactive("ui", IF Queued < opens THEN "push" ELSE "idle")

(* play_handler_thread::open_async *)
OpenAsync ==
    /\ At("ui", "push")
    /\ jobs' = Append(jobs, opens)
    /\ Goto("ui", "idle")
    /\ UNCHANGED <<shared, job, calls>>

CloseCurrentMedia ==
    /\ At("ui", "idle")
    /\ closes < MaxCloses
    /\ closes' = closes + 1
    /\ close_requested' = TRUE
    /\ UNCHANGED <<stream_state, threads_started, stream, cancel, jobs, job, opens, patient, pc>>

(* handle_internal_events: a requested close goes before a start. *)
HandleCloseMedia ==
    /\ At("ui", "idle")
    /\ close_requested
    /\ close_requested' = FALSE
    /\ Goto("ui", "close_stop")
    /\ UNCHANGED <<stream_state, threads_started, stream, cancel, jobs, job, calls>>

(* Mutant: the threads are started as soon as the stream is being opened. *)
HandleStreamStateEarly ==
    /\ At("ui", "idle")
    /\ ~close_requested
    /\ stream_state \in {"opening", "open"}
    /\ stream_state' = "start_playing"
    /\ Goto("ui", "start")
    /\ UNCHANGED <<close_requested, threads_started, stream, cancel, jobs, job, calls>>

(* handle_stream_state: compare_exchange_strong(open, start_playing) *)
HandleStreamState ==
    /\ At("ui", "idle")
    /\ ~close_requested
    /\ stream # None /\ stream_state = "open"
    /\ stream_state' = "start_playing"
    /\ Goto("ui", "start")
    /\ UNCHANGED <<close_requested, threads_started, stream, cancel, jobs, job, calls>>

(* start_playing starts the threads and then says that it plays. *)
StartThreads ==
    /\ At("ui", "start")
    /\ threads_started' = TRUE
    /\ Goto("ui", "playing")
    /\ UNCHANGED <<stream_state, close_requested, stream, cancel, jobs, job, calls>>

SetPlaying ==
    /\ At("ui", "playing")
    /\ stream_state' = "playing"
    /\ Goto("ui", "idle")
    /\ UNCHANGED <<close_requested, threads_started, stream, cancel, jobs, job, calls>>

UI == \/ OpenMedia \/ CloseMediaUI \/ OpenAsync \/ CloseCurrentMedia
      \/ HandleCloseMedia \/ HandleStreamState \/ StartThreads \/ SetPlaying

-----------------------------------------------------------------------------
(* Play handler thread: open_command, which begins with close_command *)

(* Mutant: a job is taken whether there is one or not. *)
PopJobUnchecked ==
    /\ At("handler", "idle")
    /\ job' = IF jobs = << >> THEN None ELSE Head(jobs)
    /\ jobs' = IF jobs = << >> THEN jobs ELSE Tail(jobs)
    /\ Goto("handler", "close_stop")
    /\ UNCHANGED <<shared, calls>>

(* Mutant: the newest job is taken first. *)
PopJobNewest ==
    /\ At("handler", "idle")
    /\ jobs # << >>
    /\ job' = jobs[Len(jobs)]
    /\ jobs' = SubSeq(jobs, 1, Len(jobs) - 1)
    /\ Goto("handler", "close_stop")
    /\ UNCHANGED <<shared, calls>>

PopJob ==
    /\ At("handler", "idle")
    /\ jobs # << >>
    /\ job' = Head(jobs)
    /\ jobs' = Tail(jobs)
    /\ Goto("handler", "close_stop")
    /\ UNCHANGED <<shared, calls>>

CloseMediaHandler ==
    CloseStop("handler") \/ CloseCancel("handler") \/ CloseInactive("handler", "reset")

(* reset_primary_stream(): av_format_context::close, then no stream. *)
ResetPrimaryStream ==
    /\ At("handler", "reset")
    /\ stream_state' = IF stream = None THEN stream_state ELSE "inactive"
    /\ stream' = None /\ cancel' = FALSE
    /\ Goto("handler", "clear")
    /\ UNCHANGED <<close_requested, threads_started, jobs, job, calls>>

ClearCloseRequest ==
    /\ At("handler", "clear")
    /\ close_requested' = FALSE
    /\ Goto("handler", "opening")
    /\ UNCHANGED <<stream_state, threads_started, stream, cancel, jobs, job, calls>>

SetOpening ==
    /\ At("handler", "opening")
    /\ stream_state' = "opening"
    /\ Goto("handler", "stop")
    /\ UNCHANGED <<close_requested, threads_started, stream, cancel, jobs, job, calls>>

StopThreads ==
    /\ At("handler", "stop")
    /\ threads_started' = FALSE
    /\ Goto("handler", "new")
    /\ UNCHANGED <<stream_state, close_requested, stream, cancel, jobs, job, calls>>

NewPrimaryStream ==
    /\ At("handler", "new")
    /\ stream' = job /\ cancel' = FALSE
    /\ Goto("handler", "open")
    /\ UNCHANGED <<stream_state, close_requested, threads_started, jobs, job, calls>>

(* av_format_context::open forgets an earlier cancel and then does its I/O. *)
OpenBegin ==
    /\ At("handler", "open")
    /\ cancel' = FALSE
    /\ Goto("handler", "io")
    /\ UNCHANGED <<stream_state, close_requested, threads_started, stream, jobs, job, calls>>

(* The I/O of open ends, well or not; its callbacks poll cancel.          *)
OpenEnd ==
    /\ At("handler", "io")
    /\ \E outcome \in {"opened", "failed"} : Goto("handler", outcome)
    /\ UNCHANGED <<shared, jobs, job, calls>>

SetOpen ==
    /\ At("handler", "opened")
    /\ stream_state' = "open"
    /\ Goto("handler", "idle")
    /\ UNCHANGED <<close_requested, threads_started, stream, cancel, jobs, job, calls>>

(* Mutant: a failed open is not reported. *)
SetFailedForgotten ==
    /\ At("handler", "failed")
    /\ Goto("handler", "idle")
    /\ UNCHANGED <<shared, jobs, job, calls>>

SetFailed ==
    /\ At("handler", "failed")
    /\ stream_state' = "inactive"
    /\ Goto("handler", "idle")
    /\ UNCHANGED <<close_requested, threads_started, stream, cancel, jobs, job, calls>>

HandlerStep ==
    \/ PopJob \/ CloseMediaHandler \/ ResetPrimaryStream \/ ClearCloseRequest
    \/ SetOpening \/ StopThreads \/ NewPrimaryStream \/ OpenBegin \/ SetOpen \/ SetFailed

-----------------------------------------------------------------------------
Next == UI \/ HandlerStep \/ OpenEnd

Spec == Init /\ [][Next]_vars

(* Both threads run on; the user need not act.  The I/O of an open ends:    *)
(* waiting for meta data or pieces has a timeout (custom_io_base.h:52,      *)
(* torrent/file.h:25).                                                      *)
Fairness ==
    /\ WF_vars(CloseMediaUI \/ OpenAsync \/ StartThreads \/ SetPlaying)
    /\ WF_vars(HandleCloseMedia) /\ WF_vars(HandleStreamState)
    /\ WF_vars(HandlerStep) /\ WF_vars(OpenEnd)

FairSpec == Spec /\ Fairness

-----------------------------------------------------------------------------
(* Properties *)

AllIdle == At("ui", "idle") /\ At("handler", "idle") /\ jobs = << >>

(* However open and close calls interleave with the handler, the stream     *)
(* that remains is the one asked for last (open_command).                   *)
LastOpenWins == AllIdle => stream = IF opens = 0 THEN None ELSE opens

(* A patient user never sees "playing" without running threads: the store   *)
(* of "playing" and the start of the threads are never overtaken by the     *)
(* stop of another open or close.                                           *)
PlayingIsStarted == patient /\ AllIdle /\ stream_state = "playing" => threads_started

(* With such a user the threads run only for a stream that is being         *)
(* started, plays, or is being closed: otherwise they would read a stream   *)
(* that open replaces.                                                      *)
StartedHasStream ==
    patient /\ threads_started =>
        /\ stream # None
        /\ \/ stream_state \in {"start_playing", "playing"}
           \/ pc.ui \in ClosePcs \/ pc.handler \in ClosePcs

(* Every open settles: it plays, or it is inactive because it failed or was *)
(* closed; it is never left in opening, open or start_playing.              *)
OpensSettle == <>[](AllIdle /\ stream_state \in {"playing", "inactive"})

(* "Abort any current media that might be opening" (player.cpp:72): media   *)
(* that a later open_media call aborted is not started any more.            *)
AbortedMediaNotStarted ==
    [][~threads_started /\ threads_started' => stream = opens]_vars
=============================================================================
