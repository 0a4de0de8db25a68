----------------------------- MODULE PlayerTime -----------------------------
(***************************************************************************)
(* Who lets time go on: the player's opening and closing (Player) composed *)
(* with pause and resume and with the window that is shown on top of the   *)
(* player (cpaf_libs/gui/video/player.cpp).  The play handler pauses and   *)
(* resumes while it opens, the UI thread while the user presses keys,      *)
(* opens the window and starts a medium.  Pausing is two stores, the       *)
(* clock's and then the pipeline's, and no lock keeps the two threads      *)
(* apart.                                                                  *)
(*                                                                         *)
(* Of the clock only time_is_paused_ is kept: close_media resets a clock   *)
(* that nobody uses (line 719 constructs one), so the position goes on     *)
(* from one medium to the next until the audio callback adjusts it.        *)
(***************************************************************************)
EXTENDS Player

CONSTANT MaxCommands     \* bound on pause, resume and the window's opening

ASSUME CommandsAssumption == MaxCommands \in Nat

VARIABLES
    clock_paused,     \* media_stream_time::time_is_paused_ of cur_media_time_
    threads_paused,   \* pipeline_threads::threads_paused_
    setting,          \* how far each thread is with pause_playback or resume_playback
    window,           \* ui_window_active_ and ui_events_enabled_
    saved,            \* save_playback_is_paused_state_
    commands,         \* pause, resume and window commands so far
    undisturbed       \* history: none of them came while an open was on its way

ui_time  == <<window, saved, commands, undisturbed>>
timing   == <<clock_paused, threads_paused, setting, ui_time>>
all_vars == <<vars, timing>>

Threads == {"ui", "handler"}

TimeTypeOK ==
    /\ clock_paused \in BOOLEAN /\ threads_paused \in BOOLEAN /\ saved \in BOOLEAN
    /\ setting \in [Threads -> {"no", "tested", "pausing", "resuming", "done"}]
    /\ window \in {"closed", "opening", "open", "closing"}
    /\ commands \in 0 .. MaxCommands /\ undisturbed \in BOOLEAN

TimeInit ==
    /\ Init
    /\ clock_paused = FALSE /\ threads_paused = FALSE /\ saved = FALSE
    /\ setting = [t \in Threads |-> "no"]
    /\ window = "closed" /\ commands = 0 /\ undisturbed = TRUE
-----------------------------------------------------------------------------
(* The two stores of internal_paused_set. *)

SetTo(t, progress) == setting' = [setting EXCEPT ![t] = progress]

SetClockPaused(t, is_paused) ==
    /\ clock_paused' = is_paused
    /\ SetTo(t, IF is_paused THEN "pausing" ELSE "resuming")

(* Where open_command and start_playing pause and resume. *)
PlayerPauses(t) ==
    IF t = "ui" THEN At("ui", "playing") ELSE pc.handler \in {"new", "opened"}

SetThreadsPaused(t) ==
    /\ setting[t] \in {"pausing", "resuming"}
    /\ threads_paused' = (setting[t] = "pausing")
    /\ SetTo(t, IF PlayerPauses(t) THEN "done" ELSE "no")
    /\ UNCHANGED <<vars, clock_paused, ui_time>>
-----------------------------------------------------------------------------
(* The user *)

(* ui_events_enabled_ is cleared after the window has paused, and set again *)
(* after it has restored.                                                   *)
EventsEnabled == window \in {"closed", "opening"}

(* The UI thread is inside no call of the window's or of pause and resume. *)
UIFree == window \in {"closed", "open"} /\ setting["ui"] = "no"

Command ==
    /\ At("ui", "idle") /\ UIFree
    /\ commands < MaxCommands /\ commands' = commands + 1
    /\ undisturbed' = (undisturbed /\ Settled)

(* pause_playback, resume_playback, toggle_pause_playback *)
PauseOrResume ==
    /\ Command /\ window = "closed"
    /\ \E is_paused \in BOOLEAN : SetClockPaused("ui", is_paused)
    /\ UNCHANGED <<vars, threads_paused, window, saved>>

(* push_paused *)
WindowPauses ==
    /\ Command /\ window = "closed" /\ window' = "opening"
    /\ saved' = threads_paused
    /\ SetClockPaused("ui", TRUE)
    /\ UNCHANGED <<vars, threads_paused>>

(* pop_paused *)
WindowRestores ==
    /\ At("ui", "idle") /\ UIFree
    /\ window = "open" /\ window' = "closing"
    /\ undisturbed' = (undisturbed /\ Settled)
    /\ SetClockPaused("ui", saved)
    /\ UNCHANGED <<vars, threads_paused, saved, commands>>

(* ui_events_enabled_set *)
WindowSetsEvents ==
    /\ setting["ui"] = "no"
    /\ \/ window = "opening" /\ window' = "open"
       \/ window = "closing" /\ window' = "closed"
    /\ UNCHANGED <<vars, clock_paused, threads_paused, setting, saved, commands, undisturbed>>
-----------------------------------------------------------------------------
(* What the player's own steps do to them. *)

(* Mutant: the window does not disable the events. *)
TestEventsNot(t) ==
    /\ PlayerPauses(t) /\ setting[t] = "no"
    /\ SetTo(t, "tested")
    /\ UNCHANGED <<vars, clock_paused, threads_paused, ui_time>>

(* pause_playback and resume_playback do nothing if the events are disabled *)
(* (nor does open_command's seek_position, which resumes).                  *)
TestEvents(t) ==
    /\ PlayerPauses(t) /\ setting[t] = "no"
    /\ SetTo(t, IF EventsEnabled THEN "tested" ELSE "done")
    /\ UNCHANGED <<vars, clock_paused, threads_paused, ui_time>>

(* open_command pauses before it makes the new stream, and resumes in       *)
(* seek_position(start_time); start_playing resumes.                        *)
SetTested(t) ==
    /\ setting[t] = "tested"
    /\ SetClockPaused(t, At("handler", "new") /\ t = "handler")
    /\ UNCHANGED <<vars, threads_paused, ui_time>>

(* ... and then both go on. *)
GoOn(t) ==
    /\ setting[t] = "done" /\ SetTo(t, "no")
    /\ IF t = "ui" THEN SetPlaying ELSE NewPrimaryStream \/ SetOpen
    /\ UNCHANGED <<clock_paused, threads_paused, ui_time>>

PlayerSets(t) == TestEvents(t) \/ SetTested(t) \/ GoOn(t)

OtherUI ==
    \/ CloseMediaUI \/ OpenMedia \/ OpenAsync \/ CloseCurrentMedia
    \/ HandleCloseMedia \/ HandleStreamState \/ StartThreads

OtherHandler ==
    \/ CloseMediaHandler
    \/ PopJob \/ ResetPrimaryStream \/ ClearCloseRequest \/ SetOpening \/ StopThreads
    \/ OpenBegin \/ OpenEnd \/ SetFailed

Elsewhere == ((UIFree /\ OtherUI) \/ OtherHandler) /\ UNCHANGED timing

TimeNext ==
    \/ PauseOrResume \/ WindowPauses \/ WindowRestores \/ WindowSetsEvents
    \/ \E t \in Threads : SetThreadsPaused(t) \/ PlayerSets(t)
    \/ Elsewhere

TimeSpec == TimeInit /\ [][TimeNext]_all_vars

(* As in Player; a call that has begun gets on.                             *)
TimeFairness ==
    /\ WF_all_vars(TimeNext /\ (CloseMediaUI \/ OpenAsync \/ StartThreads))
    /\ WF_all_vars(TimeNext /\ HandleCloseMedia) /\ WF_all_vars(TimeNext /\ HandleStreamState)
    /\ WF_all_vars(TimeNext /\ HandlerStep) /\ WF_all_vars(TimeNext /\ OpenEnd)
    /\ \A t \in Threads : WF_all_vars(SetThreadsPaused(t) \/ PlayerSets(t))
    /\ WF_all_vars(WindowSetsEvents)

FairTimeSpec == TimeSpec /\ TimeFairness
-----------------------------------------------------------------------------
(* Properties. *)

(* The window was opened while no open was on its way: then the player      *)
(* stays paused under it, clock and threads, whatever is opened and started *)
(* meanwhile, because pause_playback and resume_playback test               *)
(* ui_events_enabled_.                                                      *)
WindowKeepsPaused ==
    undisturbed /\ window = "open" => clock_paused /\ threads_paused

(* "When showing i UI window on top [...] we want to ensure player is       *)
(* paused while window is active" (player.h:293), whenever it is opened.    *)
WindowIsPaused ==
    window = "open" => clock_paused /\ threads_paused
=============================================================================
