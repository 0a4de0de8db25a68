---------------------------- MODULE ThreadControl ----------------------------
(***************************************************************************)
(* Starting, stopping and ending the worker threads of the player          *)
(* (cpaf_libs/gui/video/pipeline_threads and the callers in player.cpp).   *)
(* There is no lock and no message: the controller stores three flags, and *)
(* each worker loops, stores what it saw of them as an acknowledgement,    *)
(* and then looks at the flags AGAIN to decide whether to work.  Closing   *)
(* waits for the acknowledgements before the stream is replaced.           *)
(*                                                                         *)
(* The controller is the UI thread and the play handler taken as one: a    *)
(* start does not overlap a close.  (Player shows when it does.)           *)
(***************************************************************************)
CONSTANTS Workers,             \* the threads, among them these two that differ from the rest:
          Reader, Resampler,   \* packet reader and audio resampler
          AudioRender          \* the sound device's callback: it answers, but is no thread

ASSUME WorkersAssumption ==
    Reader \in Workers /\ Resampler \in Workers \ {Reader} /\ AudioRender \notin Workers

Threads == Workers \cup {AudioRender}

VARIABLES
    running, started, paused,   \* threads_running_, threads_started_, threads_paused_
    is_running, is_stopped,     \* thread_is_running_, thread_is_stopped_ of each worker
    pc,                         \* where each worker is in thread_function
    ctl,                        \* where the controller is
    opened,                     \* the stream has been opened and can be started
    unread,                     \* all_threads_...: threads whose flag is still to be read
    all_set,                    \* ... and whether those read so far were set
    overtaken                   \* history: workers started after their acknowledgement

flags   == <<running, started, paused>>
workers == <<is_running, is_stopped, pc>>
control == <<ctl, opened, unread, all_set>>
vars    == <<flags, workers, control, overtaken>>

(* Inside a pass that has passed the test of work_function. *)
AtWork   == {"work", "fill", "spin", "frame"}
InLoop   == AtWork \cup {"ack", "enter"}

(* Places where a worker uses the stream. *)
UsesStream(w) == pc[w] \in {"work", "fill", "frame"}

WaitStopped    == {"stopped?", "read_stopped"}
WaitTerminated == {"terminated?", "read_terminated"}

TypeOK ==
    /\ running \in BOOLEAN /\ started \in BOOLEAN /\ paused \in BOOLEAN
    /\ is_running \in [Workers -> BOOLEAN] /\ is_stopped \in [Workers -> BOOLEAN]
    /\ pc \in [Workers -> InLoop \cup {"new", "loop", "exit", "done"}]
    /\ ctl \in WaitStopped \cup WaitTerminated \cup
               {"idle", "resume", "replace", "t_started", "t_running", "gone"}
    /\ opened \in BOOLEAN /\ all_set \in BOOLEAN
    /\ unread \subseteq Threads /\ overtaken \subseteq Workers
    /\ \A w \in Workers : is_running[w] <=> pc[w] \notin {"new", "done"}

(* The player's constructor stops the threads that it then runs. *)
Init ==
    /\ running = TRUE /\ started = FALSE /\ paused = FALSE
    /\ is_running = [w \in Workers |-> FALSE]
    /\ is_stopped = [w \in Workers |-> FALSE]
    /\ pc = [w \in Workers |-> "new"]
    /\ ctl = "idle" /\ opened = FALSE
    /\ unread = {} /\ all_set = FALSE
    /\ overtaken = {}

-----------------------------------------------------------------------------
(* Worker threads *)

Goto(w, place) == pc' = [pc EXCEPT ![w] = place]

(* Mutant: the thread does not say that it runs. *)
BeginSilently(w) ==
    /\ pc[w] = "new"
    /\ Goto(w, "loop")
    /\ UNCHANGED <<flags, is_running, is_stopped, control, overtaken>>

Begin(w) ==
    /\ pc[w] = "new"
    /\ is_running' = [is_running EXCEPT ![w] = TRUE]
    /\ Goto(w, "loop")
    /\ UNCHANGED <<flags, is_stopped, control, overtaken>>

(* Mutant: the thread loops for ever. *)
LoopForever(w) ==
    /\ pc[w] = "loop"
    /\ Goto(w, "ack")
    /\ UNCHANGED <<flags, is_running, is_stopped, control, overtaken>>

(* while(threads_running_) *)
Loop(w) ==
    /\ pc[w] = "loop"
    /\ Goto(w, IF running THEN "ack" ELSE "exit")
    /\ UNCHANGED <<flags, is_running, is_stopped, control, overtaken>>

(* Mutant: an acknowledgement is never taken back. *)
AcknowledgeOnce(w) ==
    /\ pc[w] = "ack"
    /\ is_stopped' = [is_stopped EXCEPT ![w] = @ \/ ~started]
    /\ overtaken' = overtaken \ {w}
    /\ Goto(w, "enter")
    /\ UNCHANGED <<flags, is_running, control>>

(* Mutant: the wrong flag is acknowledged. *)
AcknowledgePaused(w) ==
    /\ pc[w] = "ack"
    /\ is_stopped' = [is_stopped EXCEPT ![w] = paused]
    /\ overtaken' = overtaken \ {w}
    /\ Goto(w, "enter")
    /\ UNCHANGED <<flags, is_running, control>>

(* thread_is_stopped_ = threads_started_ == false; nothing in the player    *)
(* reads thread_is_paused_, which is stored just before it.                 *)
Acknowledge(w) ==
    /\ pc[w] = "ack"
    /\ is_stopped' = [is_stopped EXCEPT ![w] = ~started]
    /\ overtaken' = overtaken \ {w}
    /\ Goto(w, "enter")
    /\ UNCHANGED <<flags, is_running, control>>

(* The test at the head of work_function; the packet reader works while     *)
(* paused, as far as seeking goes.                                          *)
Enter(w) ==
    /\ pc[w] = "enter"
    /\ Goto(w, IF ~started \/ (paused /\ w # Reader) THEN "loop"
               ELSE IF w = Resampler THEN "spin" ELSE "work")
    /\ UNCHANGED <<flags, is_running, is_stopped, control, overtaken>>

(* The packet reader has seen to seeks; it fills the queues unless paused. *)
ReaderSeeks ==
    /\ pc[Reader] = "work"
    /\ Goto(Reader, IF paused THEN "loop" ELSE "fill")
    /\ UNCHANGED <<flags, is_running, is_stopped, control, overtaken>>

EndPass(w) ==
    /\ pc[w] = IF w = Reader THEN "fill" ELSE "work"
    /\ Goto(w, "loop")
    /\ UNCHANGED <<flags, is_running, is_stopped, control, overtaken>>

(* resample_frame, called while add_samples.  When the threads are paused   *)
(* or stopped it returns with add_samples still true, so that the loop goes *)
(* round without doing anything.                                            *)
ResampleTests ==
    /\ pc[Resampler] = "spin"
    /\ started /\ ~paused
    /\ Goto(Resampler, "frame")
    /\ UNCHANGED <<flags, is_running, is_stopped, control, overtaken>>

(* A frame has been resampled and there is room for more. *)
ResamplePushes ==
    /\ pc[Resampler] = "frame"
    /\ Goto(Resampler, "spin")
    /\ UNCHANGED <<flags, is_running, is_stopped, control, overtaken>>

(* Mutant: add_samples stays true. *)
ResampleEndsForgotten ==
    /\ pc[Resampler] = "frame"
    /\ Goto(Resampler, "spin")
    /\ UNCHANGED <<flags, is_running, is_stopped, control, overtaken>>

(* No frame or no room, or enough has been read ahead. *)
ResampleEnds ==
    /\ pc[Resampler] = "frame"
    /\ Goto(Resampler, "loop")
    /\ UNCHANGED <<flags, is_running, is_stopped, control, overtaken>>

Exit(w) ==
    /\ pc[w] = "exit"
    /\ is_running' = [is_running EXCEPT ![w] = FALSE]
    /\ Goto(w, "done")
    /\ UNCHANGED <<flags, is_stopped, control, overtaken>>

Worker(w) ==
    \/ Begin(w) \/ Loop(w) \/ Acknowledge(w) \/ Enter(w) \/ Exit(w)
    \/ w # Resampler /\ EndPass(w)

Resampling == ResampleTests \/ ResamplePushes \/ ResampleEnds

-----------------------------------------------------------------------------
(* The controller: start_playing, pausing, close_media, terminate *)

(* start_playing stores started and then resumes, which does nothing while  *)
(* the player's events are disabled.                                        *)
Start ==
    /\ ctl = "idle" /\ opened /\ ~started
    /\ started' = TRUE
    /\ overtaken' = overtaken \cup {w \in Workers : pc[w] = "enter"}
    /\ ctl' = "resume"
    /\ UNCHANGED <<running, paused, workers, opened, unread, all_set>>

Resume ==
    /\ ctl = "resume"
    /\ paused' \in {FALSE, paused}
    /\ ctl' = "idle"
    /\ UNCHANGED <<running, started, workers, opened, unread, all_set, overtaken>>

PauseResume ==
    /\ ctl = "idle"
    /\ paused' = ~paused
    /\ UNCHANGED <<running, started, workers, control, overtaken>>

(* close_media: stop, and wait for the acknowledgements. *)
Stop ==
    /\ ctl = "idle"
    /\ started' = FALSE
    /\ ctl' = "stopped?"
    /\ UNCHANGED <<running, paused, workers, opened, unread, all_set, overtaken>>

(* all_threads_stopped and all_threads_terminated answer at once when       *)
(* threads_running_ has the wrong value for their question, and read every  *)
(* thread's flag otherwise.                                                 *)
BeginPoll ==
    /\ \/ ctl = "stopped?"    /\ ctl' = "read_stopped"    /\ unread' = IF running THEN Threads ELSE {}
       \/ ctl = "terminated?" /\ ctl' = "read_terminated" /\ unread' = IF running THEN {} ELSE Threads
    /\ all_set' = TRUE
    /\ UNCHANGED <<flags, workers, opened, overtaken>>

Stopped(t)    == IF t = AudioRender THEN ~started ELSE is_stopped[t]
Terminated(t) == IF t = AudioRender THEN ~running ELSE ~is_running[t]

Answer(t) == IF ctl = "read_stopped" THEN Stopped(t) ELSE Terminated(t)

ReadFlag(t) ==
    /\ ctl \in {"read_stopped", "read_terminated"} /\ t \in unread
    /\ all_set' = (all_set /\ Answer(t))
    /\ unread' = unread \ {t}
    /\ UNCHANGED <<flags, workers, ctl, opened, overtaken>>

(* Not all of them: sleep and ask again. *)
PollAgain ==
    /\ ctl \in {"read_stopped", "read_terminated"} /\ unread = {} /\ ~all_set
    /\ ctl' = IF ctl = "read_stopped" THEN "stopped?" ELSE "terminated?"
    /\ UNCHANGED <<flags, workers, opened, unread, all_set, overtaken>>

(* Mutant: there is no limit to the wait. *)
EndWaitUnlimited ==
    /\ ctl \in {"read_stopped", "read_terminated"} /\ unread = {} /\ all_set
    /\ ctl' = IF ctl = "read_stopped" THEN "replace" ELSE "gone"
    /\ UNCHANGED <<flags, workers, opened, unread, all_set, overtaken>>

(* All of them, or the time is up.  Nobody uses the result: all_set says    *)
(* which it was.                                                            *)
EndWait ==
    /\ ctl \in {"read_stopped", "read_terminated"} /\ unread = {}
    /\ ctl' = IF ctl = "read_stopped" THEN "replace" ELSE "gone"
    /\ UNCHANGED <<flags, workers, opened, unread, all_set, overtaken>>

(* What follows close_media: reset_primary_stream, and possibly an open,    *)
(* which pauses (if events are enabled) and may succeed.                    *)
ReplaceStream ==
    /\ ctl = "replace"
    /\ opened' \in BOOLEAN
    /\ paused' \in {paused, TRUE}
    /\ ctl' = "idle"
    /\ UNCHANGED <<running, started, workers, unread, all_set, overtaken>>

(* terminate, after a close: three stores in this order. *)
TerminatePaused ==
    /\ ctl = "idle" /\ ~opened /\ ~started
    /\ paused' = TRUE
    /\ ctl' = "t_started"
    /\ UNCHANGED <<running, started, workers, opened, unread, all_set, overtaken>>

TerminateStarted ==
    /\ ctl = "t_started"
    /\ started' = FALSE
    /\ ctl' = "t_running"
    /\ UNCHANGED <<running, paused, workers, opened, unread, all_set, overtaken>>

(* Mutant: the threads are only stopped. *)
TerminateRunningForgotten ==
    /\ ctl = "t_running"
    /\ ctl' = "terminated?"
    /\ UNCHANGED <<flags, workers, opened, unread, all_set, overtaken>>

TerminateRunning ==
    /\ ctl = "t_running"
    /\ running' = FALSE
    /\ ctl' = "terminated?"
    /\ UNCHANGED <<started, paused, workers, opened, unread, all_set, overtaken>>

Waiting ==
    \/ BeginPoll \/ (\E t \in Threads : ReadFlag(t)) \/ PollAgain \/ EndWait

Terminate == TerminatePaused \/ TerminateStarted \/ TerminateRunning

Controller == Start \/ Resume \/ PauseResume \/ Stop \/ Waiting \/ ReplaceStream \/ Terminate

-----------------------------------------------------------------------------
Next == Controller \/ (\E w \in Workers : Worker(w)) \/ ReaderSeeks \/ Resampling

Spec == Init /\ [][Next]_vars

(* The threads are scheduled; the time of a wait runs out; and the samples  *)
(* queue is bounded, so a resampler that goes on runs out of work.  The     *)
(* user need not do anything.                                               *)
Fairness ==
    /\ \A w \in Workers : WF_vars(Worker(w))
    /\ WF_vars(ReaderSeeks) /\ WF_vars(Resampling) /\ SF_vars(ResampleEnds)
    /\ WF_vars(Waiting) /\ SF_vars(EndWait)
    /\ WF_vars(Resume \/ ReplaceStream \/ TerminateStarted \/ TerminateRunning)

FairSpec == Spec /\ Fairness

-----------------------------------------------------------------------------
(* Properties *)

(* When the wait of close_media succeeds and the stream is replaced, no     *)
(* worker is using it, unless a start overtook that worker between its      *)
(* acknowledgement and its test: such a worker is at work with its          *)
(* acknowledgement still up, and the wait does not notice it.               *)
ReplacedWhileQuiet ==
    ctl = "replace" /\ all_set => \A w \in Workers \ overtaken : ~UsesStream(w)

(* When the wait of terminate succeeds, no worker uses the stream or will:  *)
(* also not one that had not begun when it was asked.                       *)
TerminatedIsQuiet ==
    ctl = "gone" /\ all_set => \A w \in Workers : pc[w] \notin InLoop

(* Threads that stay stopped acknowledge it, all but a resampler that was   *)
(* inside its loop (audio_resampler_thread.cpp:65).                         *)
StopIsAcknowledged ==
    \A w \in Workers :
        <>[](running /\ ~started) => <>[](is_stopped[w] \/ (w = Resampler /\ pc[w] = "spin"))

(* That resampler is not lost: while playing its passes end.                *)
ResamplerPassesEnd ==
    <>[](started /\ ~paused) => []<>(pc[Resampler] = "loop")

(* Terminated threads end, with the same exception.                         *)
ThreadsEnd ==
    \A w \in Workers : <>[](~running) => <>[](pc[w] = "done" \/ (w = Resampler /\ pc[w] = "spin"))

(* A close or terminate ends, whatever the threads do.                      *)
WaitsEnd == ctl \in WaitStopped \cup WaitTerminated ~> ctl \in {"idle", "gone"}
=============================================================================
