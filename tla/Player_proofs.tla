---------------------------- MODULE Player_proofs ----------------------------
(***************************************************************************)
(* Proofs about Player and PlayerTime, for any number of calls.  What is   *)
(* proved of opening and closing carries over to the composition, because  *)
(* pausing, the window and the clock interfere with no step of it.         *)
(***************************************************************************)
EXTENDS PlayerTime, TLAPS

(* Every call is queued by the end of its open_media, in order; and what    *)
(* the handler leaves behind when it is idle is the stream of its job.      *)
OpenInv ==
    /\ opens = Queued \/ (opens = Queued + 1 /\ pc.ui \in ClosePcs \cup {"push"})
    /\ pc.ui = "push" => opens = Queued + 1
    /\ pc.handler \in {"idle", "open", "io", "opened", "failed"} => stream = job

IInv == TypeOK /\ OpenInv

(* The job queue: what is popped first and what was pushed last             *)
(* (play_handler_thread::open_async, thread_function).                      *)
LEMMA QueueEnds ==
    ASSUME NEW S, NEW s \in Seq(S), NEW e \in S
    PROVE  /\ Append(s, e) \in Seq(S) /\ Append(s, e) # << >>
           /\ Append(s, e)[Len(Append(s, e))] = e
           /\ s # << >> => /\ Head(s) \in S /\ Tail(s) \in Seq(S)
                           /\ s[Len(s)] \in S
                           /\ Tail(s) = << >> => s[Len(s)] = Head(s)
                           /\ Tail(s) # << >> => Tail(s)[Len(Tail(s))] = s[Len(s)]
<1>1. /\ Append(s, e) \in Seq(S) /\ Append(s, e) # << >>
      /\ Append(s, e)[Len(Append(s, e))] = e
  OBVIOUS
<1>2. ASSUME s # << >>
      PROVE  Head(s) \in S /\ Tail(s) \in Seq(S) /\ s[Len(s)] \in S
  BY <1>2
<1>3. ASSUME s # << >>, Tail(s) = << >>
      PROVE  s[Len(s)] = Head(s)
  <2>1. Len(Tail(s)) = 0
    <3>1. Len(<< >>) = 0
      OBVIOUS
    <3> QED BY <1>3, <3>1, Zenon
  <2>2. Len(Tail(s)) = Len(s) - 1
    BY <1>3
  <2>3. Len(s) = 1
    BY <2>1, <2>2
  <2> QED BY <1>3, <2>3
<1>4. ASSUME s # << >>, Tail(s) # << >>
      PROVE  Tail(s)[Len(Tail(s))] = s[Len(s)]
  <2>1. Len(Tail(s)) = Len(s) - 1 /\ Len(Tail(s)) \in 1 .. Len(Tail(s))
    BY <1>4
  <2> QED BY <1>4, <2>1
<1> QED BY <1>1, <1>2, <1>3, <1>4

(* Nothing is open and nothing asked for at first (player::player).         *)
LEMMA InitIInv == Init => IInv
<1> SUFFICES ASSUME Init PROVE IInv
  OBVIOUS
<1>1. jobs \in Seq(Media)
  BY DEF Init
<1>2. TypeOK
  <2>1. /\ stream_state \in StreamStates
        /\ opens \in 0 .. MaxOpens /\ closes \in 0 .. MaxCloses
    BY PlayerAssumption DEF Init, StreamStates
  <2>2. /\ close_requested \in BOOLEAN /\ threads_started \in BOOLEAN /\ cancel \in BOOLEAN
        /\ patient \in BOOLEAN
    BY DEF Init
  <2>3. /\ pc \in [ui : UiPcs, handler : HandlerPcs]
        /\ pc.handler # "idle" => job \in Media
    BY DEF Init, UiPcs, HandlerPcs
  <2>4. stream \in Media \cup {None} /\ job \in Media \cup {None}
    BY DEF Init
  <2> QED BY <1>1, <2>1, <2>2, <2>3, <2>4 DEF TypeOK
<1>3. OpenInv
  BY DEF Init, OpenInv, Queued
<1> QED BY <1>2, <1>3 DEF IInv

(* close_media, called from either thread, keeps the invariant.             *)
LEMMA CloseStep ==
    ASSUME IInv, CloseMediaUI \/ CloseMediaHandler
    PROVE  IInv'
<1> USE DEF IInv, OpenInv, TypeOK, Queued, UiPcs, HandlerPcs, ClosePcs, At, Goto, calls,
            StreamStates
<1>1. ASSUME NEW t \in {"ui", "handler"}, CloseStop(t) PROVE IInv'
  <2>1. pc' \in [ui : UiPcs, handler : HandlerPcs] /\ (pc'.handler # "idle" => job' \in Media)
    BY <1>1 DEF CloseStop
  <2>2. TypeOK'
    BY <1>1, <2>1 DEF CloseStop
  <2>3. OpenInv'
    BY <1>1 DEF CloseStop
  <2> QED BY <2>2, <2>3
<1>2. ASSUME NEW t \in {"ui", "handler"}, CloseCancel(t) PROVE IInv'
  BY <1>2 DEF CloseCancel
<1>3. CASE CloseInactive("ui", IF Queued < opens THEN "push" ELSE "idle")
  BY <1>3, PlayerAssumption DEF CloseInactive, Media
<1>4. CASE CloseInactive("handler", "reset")
  BY <1>4 DEF CloseInactive
<1> QED BY <1>1, <1>2, <1>3, <1>4 DEF CloseMediaUI, CloseMediaHandler

(* So do the other calls and events of the UI thread.                       *)
LEMMA UIStep ==
    ASSUME IInv, OpenMedia \/ OpenAsync \/ CloseCurrentMedia \/ HandleCloseMedia
                 \/ HandleStreamState \/ StartThreads \/ SetPlaying
    PROVE  IInv'
<1> USE DEF IInv, OpenInv, TypeOK, UiPcs, HandlerPcs, ClosePcs, At, Goto, calls, shared,
            StreamStates
<1>1. CASE OpenMedia
  BY <1>1, PlayerAssumption DEF OpenMedia, Queued
<1>2. CASE OpenAsync
  <2>1. opens \in Media
    BY <1>2, PlayerAssumption DEF OpenAsync, Media, Queued
  <2>2. jobs' \in Seq(Media) /\ Queued' = opens
    BY <1>2, <2>1, QueueEnds DEF OpenAsync, Queued
  <2> QED BY <1>2, <2>2 DEF OpenAsync
<1>3. CASE CloseCurrentMedia
  BY <1>3, PlayerAssumption DEF CloseCurrentMedia, Queued
<1>4. CASE HandleCloseMedia
  BY <1>4, ZenonT(40) DEF HandleCloseMedia, Queued
<1>5. CASE HandleStreamState
  BY <1>5 DEF HandleStreamState, Queued
<1>6. CASE StartThreads
  BY <1>6 DEF StartThreads, Queued
<1>7. CASE SetPlaying
  BY <1>7 DEF SetPlaying, Queued
<1> QED BY <1>1, <1>2, <1>3, <1>4, <1>5, <1>6, <1>7

(* So does open_command.                                                    *)
LEMMA OpenCommandStep ==
    ASSUME IInv, PopJob \/ ResetPrimaryStream \/ ClearCloseRequest \/ SetOpening \/ StopThreads
                 \/ NewPrimaryStream \/ OpenBegin \/ OpenEnd \/ SetOpen \/ SetFailed
    PROVE  IInv'
<1> USE DEF IInv, OpenInv, TypeOK, UiPcs, HandlerPcs, ClosePcs, At, Goto, calls, shared,
            StreamStates
<1>1. CASE PopJob
  <2>1. job' \in Media /\ jobs' \in Seq(Media)
    BY <1>1, QueueEnds DEF PopJob
  <2>2. Queued' = Queued
    BY <1>1, <2>1, QueueEnds, PlayerAssumption DEF PopJob, Queued, Media
  <2> QED BY <1>1, <2>1, <2>2 DEF PopJob
<1>2. CASE ResetPrimaryStream
  BY <1>2 DEF ResetPrimaryStream, Queued
<1>3. CASE ClearCloseRequest
  BY <1>3, ZenonT(40) DEF ClearCloseRequest, Queued
<1>4. CASE SetOpening
  BY <1>4 DEF SetOpening, Queued
<1>5. CASE StopThreads
  BY <1>5 DEF StopThreads, Queued
<1>6. CASE NewPrimaryStream
  BY <1>6 DEF NewPrimaryStream, Queued
<1>7. CASE OpenBegin
  BY <1>7 DEF OpenBegin, Queued
<1>8. CASE OpenEnd
  BY <1>8 DEF OpenEnd, Queued
<1>9. CASE SetOpen
  BY <1>9 DEF SetOpen, Queued
<1>10. CASE SetFailed
  BY <1>10 DEF SetFailed, Queued
<1> QED BY <1>1, <1>2, <1>3, <1>4, <1>5, <1>6, <1>7, <1>8, <1>9, <1>10

(* Every step of the two threads keeps the invariant.                       *)
LEMMA StepIInv == IInv /\ [Next]_vars => IInv'
<1> SUFFICES ASSUME IInv, [Next]_vars PROVE IInv'
  OBVIOUS
<1>1. CASE UI
  BY <1>1, CloseStep, UIStep DEF UI
<1>2. CASE HandlerStep \/ OpenEnd
  BY <1>2, CloseStep, OpenCommandStep DEF HandlerStep
<1>3. CASE UNCHANGED vars
  BY <1>3 DEF vars, shared, calls, IInv, OpenInv, TypeOK, Queued
<1> QED BY <1>1, <1>2, <1>3 DEF Next

(* The invariant holds however the two threads interleave.                  *)
LEMMA Inductive == Spec => []IInv
  BY InitIInv, StepIInv, PTL DEF Spec

(* Type correctness: in particular the handler never opens without a job.   *)
THEOREM TypeCorrect == Spec => []TypeOK
<1>1. IInv => TypeOK
  BY DEF IInv
<1> QED BY Inductive, <1>1, PTL

(* Whenever both threads are idle and no job is queued, the stream is that  *)
(* of the last open_media call, whatever was asked for, closed or failed    *)
(* before.                                                                  *)
THEOREM LastOpenStays == Spec => []LastOpenWins
<1>1. IInv => LastOpenWins
  BY PlayerAssumption
  DEF IInv, TypeOK, OpenInv, Queued, LastOpenWins, AllIdle, At, ClosePcs, Media
<1> QED BY Inductive, <1>1, PTL
-----------------------------------------------------------------------------
(* A user who waits for each open to settle: while a job is queued or       *)
(* served nothing plays and no thread runs, and nobody asks for another.    *)
Asking == pc.ui = "push" \/ Queued < opens
Serving == jobs # << >> \/ pc.handler # "idle"

PatientInv ==
    patient =>
        /\ Asking => ~Serving /\ stream_state \in {"inactive", "playing"}
        /\ pc.ui = "push" => stream_state = "inactive"
        /\ Len(jobs) <= 1 /\ (pc.handler # "idle" => jobs = << >>)
        /\ Serving => stream_state \in {"inactive", "opening"} /\ ~threads_started
        /\ pc.ui \in {"start", "playing"} => stream_state = "start_playing" /\ stream # None
        /\ pc.ui = "playing" => threads_started
        /\ threads_started => /\ stream # None /\ pc.ui \in {"idle", "close_stop", "playing"}
                              /\ pc.ui = "idle" => stream_state = "playing"
        /\ stream_state = "playing" => threads_started \/ pc.ui \in {"close_cancel", "close_inactive"}

(* The UI thread's part: it starts the threads only of a stream that        *)
(* nobody replaces (handle_stream_state, start_playing).                    *)
LEMMA PatientUI ==
    ASSUME IInv, PatientInv, UI
    PROVE  PatientInv'
<1> USE DEF IInv, OpenInv, TypeOK, PatientInv, Asking, Serving, Queued,
            UiPcs, HandlerPcs, ClosePcs, At, Goto, calls, shared
<1>1. CASE OpenMedia
  BY <1>1, PlayerAssumption DEF OpenMedia, Settled
<1>2. CASE CloseStop("ui")
  BY <1>2 DEF CloseStop
<1>3. CASE CloseCancel("ui")
  BY <1>3 DEF CloseCancel
<1>4. CASE CloseInactive("ui", IF Queued < opens THEN "push" ELSE "idle")
  BY <1>4 DEF CloseInactive
<1>5. CASE OpenAsync
  <2>1. opens \in Media
    BY <1>5, PlayerAssumption DEF OpenAsync, Media
  <2>2. jobs' # << >> /\ jobs'[Len(jobs')] = opens
    BY <1>5, <2>1, QueueEnds DEF OpenAsync
  <2>3. patient => Len(jobs') = 1
    BY <1>5, <2>1 DEF OpenAsync
  <2> QED BY <1>5, <2>1, <2>2, <2>3, PlayerAssumption DEF OpenAsync, Media
<1>6. CASE CloseCurrentMedia
  BY <1>6 DEF CloseCurrentMedia
<1>7. CASE HandleCloseMedia
  BY <1>7 DEF HandleCloseMedia
<1>8. CASE HandleStreamState
  BY <1>8 DEF HandleStreamState
<1>9. CASE StartThreads
  BY <1>9 DEF StartThreads
<1>10. CASE SetPlaying
  BY <1>10 DEF SetPlaying
<1> QED BY <1>1, <1>2, <1>3, <1>4, <1>5, <1>6, <1>7, <1>8, <1>9, <1>10 DEF UI, CloseMediaUI

(* The handler's part: it serves only while nothing plays (open_command).   *)
LEMMA PatientHandler ==
    ASSUME IInv, PatientInv, HandlerStep \/ OpenEnd
    PROVE  PatientInv'
<1> USE DEF IInv, OpenInv, TypeOK, PatientInv, Asking, Serving, Queued,
            UiPcs, HandlerPcs, ClosePcs, At, Goto, calls, shared
<1>1. CASE PopJob
  <2>1. Queued' = Queued
    BY <1>1, QueueEnds, PlayerAssumption DEF PopJob, Media
  <2>2. Len(jobs') = Len(jobs) - 1 /\ (Len(jobs') = 0 => jobs' = << >>)
    BY <1>1 DEF PopJob
  <2> QED BY <1>1, <2>1, <2>2 DEF PopJob
<1>2. CASE CloseStop("handler")
  BY <1>2 DEF CloseStop
<1>3. CASE CloseCancel("handler")
  BY <1>3 DEF CloseCancel
<1>4. CASE CloseInactive("handler", "reset")
  BY <1>4 DEF CloseInactive
<1>5. CASE ResetPrimaryStream
  BY <1>5 DEF ResetPrimaryStream
<1>6. CASE ClearCloseRequest \/ SetOpening \/ StopThreads
  BY <1>6 DEF ClearCloseRequest, SetOpening, StopThreads
<1>7. CASE NewPrimaryStream \/ OpenBegin \/ OpenEnd
  BY <1>7 DEF NewPrimaryStream, OpenBegin, OpenEnd
<1>8. CASE SetOpen \/ SetFailed
  BY <1>8 DEF SetOpen, SetFailed
<1> QED BY <1>1, <1>2, <1>3, <1>4, <1>5, <1>6, <1>7, <1>8 DEF HandlerStep, CloseMediaHandler

(* It holds however the threads' steps interleave.                          *)
LEMMA PatientInductive == Spec => []PatientInv
<1>1. Init => PatientInv
  BY DEF Init, PatientInv, Asking, Serving, Queued
<1>2. IInv /\ PatientInv /\ [Next]_vars => PatientInv'
  <2> SUFFICES ASSUME IInv, PatientInv, [Next]_vars PROVE PatientInv'
    OBVIOUS
  <2>1. CASE UNCHANGED vars
    BY <2>1 DEF vars, shared, calls, PatientInv, Asking, Serving, Queued
  <2> QED BY <2>1, PatientUI, PatientHandler DEF Next
<1> QED BY Inductive, <1>1, <1>2, PTL DEF Spec

(* When all is quiet and the player says that it plays, its threads run     *)
(* (start_playing), for a user who waits for each open to settle.           *)
THEOREM PlayingStaysStarted == Spec => []PlayingIsStarted
<1>1. PatientInv => PlayingIsStarted
  BY DEF PatientInv, PlayingIsStarted, AllIdle, At
<1> QED BY PatientInductive, <1>1, PTL

(* And for such a user the threads run only on a stream that is not being   *)
(* replaced (open_command, reset_primary_stream).                           *)
THEOREM ThreadsHaveStream == Spec => []StartedHasStream
<1>1. PatientInv => StartedHasStream
  BY DEF PatientInv, StartedHasStream, Serving, ClosePcs
<1> QED BY PatientInductive, <1>1, PTL
-----------------------------------------------------------------------------
(* Pausing and the window *)

(* Every step of the composition is a step of the player, or none.          *)
LEMMA StepImplements == [TimeNext]_all_vars => [Next]_vars
<1> SUFFICES ASSUME [TimeNext]_all_vars PROVE [Next]_vars
    OBVIOUS
<1>1. CASE UNCHANGED all_vars
    BY <1>1 DEF all_vars
<1>2. CASE PauseOrResume \/ WindowPauses \/ WindowRestores \/ WindowSetsEvents
    BY <1>2 DEF PauseOrResume, WindowPauses, WindowRestores, WindowSetsEvents
<1>3. CASE \E t \in Threads : SetThreadsPaused(t) \/ TestEvents(t) \/ SetTested(t)
    BY <1>3 DEF SetThreadsPaused, TestEvents, SetTested
<1>4. CASE \E t \in Threads : GoOn(t)
    BY <1>4 DEF GoOn, Next, UI, HandlerStep
<1>5. CASE Elsewhere
    BY <1>5 DEF Elsewhere, OtherUI, OtherHandler, Next, UI, HandlerStep
<1> QED
    BY <1>1, <1>2, <1>3, <1>4, <1>5 DEF TimeNext, PlayerSets

(* The composition implements Player (player.cpp): pausing and the window   *)
(* interfere with no step of open_media, close_media or open_command.       *)
THEOREM ImplementsPlayer == TimeSpec => Spec
<1>1. TimeInit => Init
    BY DEF TimeInit
<1> QED
    BY <1>1, StepImplements, PTL DEF TimeSpec, Spec

(* The stream that remains is the one asked for last (open_command), also   *)
(* with pausing and the window in between.                                  *)
THEOREM LastOpenStaysInTime == TimeSpec => []LastOpenWins
    BY ImplementsPlayer, LastOpenStays, PTL
-----------------------------------------------------------------------------
(* Only one thread's progress changes at a time.                            *)
LEMMA SetToType ==
    ASSUME TimeTypeOK, NEW t \in Threads,
           NEW progress \in {"no", "tested", "pausing", "resuming", "done"}, SetTo(t, progress)
    PROVE  /\ setting' \in [Threads -> {"no", "tested", "pausing", "resuming", "done"}]
           /\ setting'[t] = progress
           /\ \A u \in Threads \ {t} : setting'[u] = setting[u]
    BY DEF TimeTypeOK, SetTo

(* The first store of internal_paused_set is the clock's.                   *)
LEMMA SetClockType ==
    ASSUME TimeTypeOK, NEW t \in Threads, NEW is_paused \in BOOLEAN, SetClockPaused(t, is_paused)
    PROVE  /\ setting' \in [Threads -> {"no", "tested", "pausing", "resuming", "done"}]
           /\ setting'[t] = IF is_paused THEN "pausing" ELSE "resuming"
           /\ \A u \in Threads \ {t} : setting'[u] = setting[u]
           /\ clock_paused' = is_paused
    BY SetToType DEF SetClockPaused

(* Every step of the composition keeps flags, window and progress well      *)
(* typed.                                                                   *)
LEMMA StepTimeType ==
    ASSUME TypeOK, TimeTypeOK, [TimeNext]_all_vars
    PROVE  TimeTypeOK'
<1> USE DEF ui_time
<1>1. CASE UNCHANGED all_vars
    BY <1>1 DEF all_vars, timing, TimeTypeOK
<1>2. CASE PauseOrResume
    <2>1. PICK is_paused \in BOOLEAN : SetClockPaused("ui", is_paused)
        BY <1>2 DEF PauseOrResume
    <2>2. /\ setting' \in [Threads -> {"no", "tested", "pausing", "resuming", "done"}]
          /\ clock_paused' \in BOOLEAN
        BY <2>1, SetClockType DEF Threads
    <2> QED
        BY <1>2, <2>2, CommandsAssumption DEF PauseOrResume, Command, TimeTypeOK
<1>3. CASE WindowPauses
    <2>1. /\ setting' \in [Threads -> {"no", "tested", "pausing", "resuming", "done"}]
          /\ clock_paused' \in BOOLEAN
        BY <1>3, SetClockType DEF WindowPauses, Threads
    <2> QED
        BY <1>3, <2>1, CommandsAssumption DEF WindowPauses, Command, TimeTypeOK
<1>4. CASE WindowRestores
    <2>1. /\ setting' \in [Threads -> {"no", "tested", "pausing", "resuming", "done"}]
          /\ clock_paused' \in BOOLEAN
        BY <1>4, SetClockType DEF WindowRestores, Threads, TimeTypeOK
    <2> QED
        BY <1>4, <2>1 DEF WindowRestores, TimeTypeOK
<1>5. CASE WindowSetsEvents
    BY <1>5 DEF WindowSetsEvents, TimeTypeOK
<1>6. ASSUME NEW t \in Threads, SetThreadsPaused(t)
      PROVE  TimeTypeOK'
    <2>1. setting' \in [Threads -> {"no", "tested", "pausing", "resuming", "done"}]
        BY <1>6, SetToType DEF SetThreadsPaused
    <2> QED
        BY <1>6, <2>1 DEF SetThreadsPaused, TimeTypeOK
<1>7. ASSUME NEW t \in Threads, TestEvents(t) \/ GoOn(t)
      PROVE  TimeTypeOK'
    <2>1. setting' \in [Threads -> {"no", "tested", "pausing", "resuming", "done"}]
        BY <1>7, SetToType DEF TestEvents, GoOn
    <2> QED
        BY <1>7, <2>1 DEF TestEvents, GoOn, TimeTypeOK
<1>8. ASSUME NEW t \in Threads, SetTested(t)
      PROVE  TimeTypeOK'
    <2>1. (At("handler", "new") /\ t = "handler") \in BOOLEAN
        OBVIOUS
    <2>2. /\ setting' \in [Threads -> {"no", "tested", "pausing", "resuming", "done"}]
          /\ clock_paused' \in BOOLEAN
        BY <1>8, <2>1, SetClockType DEF SetTested
    <2> QED
        BY <1>8, <2>2 DEF SetTested, TimeTypeOK
<1>9. CASE Elsewhere
    BY <1>9 DEF Elsewhere, timing, TimeTypeOK
<1> QED
    BY <1>1, <1>2, <1>3, <1>4, <1>5, <1>6, <1>7, <1>8, <1>9 DEF TimeNext, PlayerSets

(* Flags, window and progress are well typed in every reachable state.      *)
LEMMA TimeTypeInductive == TimeSpec => [](TypeOK /\ TimeTypeOK)
<1>1. TimeInit => TimeTypeOK
    <2> SUFFICES ASSUME TimeInit PROVE TimeTypeOK
        OBVIOUS
    <2>1. commands \in 0 .. MaxCommands
        BY CommandsAssumption DEF TimeInit
    <2>2. setting \in [Threads -> {"no", "tested", "pausing", "resuming", "done"}]
        BY DEF TimeInit
    <2> QED
        BY <2>1, <2>2 DEF TimeInit, TimeTypeOK
<1>2. TypeOK /\ TimeTypeOK /\ [TimeNext]_all_vars => TimeTypeOK'
    BY StepTimeType
<1>3. TimeSpec => []TypeOK
    BY ImplementsPlayer, TypeCorrect, PTL
<1> QED
    BY <1>1, <1>2, <1>3, PTL DEF TimeSpec
-----------------------------------------------------------------------------
(* A window that was opened while nothing was on its way finds neither      *)
(* thread between its test of the events and its two stores, and neither    *)
(* gets there until the window restores.                                    *)
WindowInv ==
    /\ setting["handler"] # "no" => pc.handler \in {"new", "opened"}
    /\ setting["ui"] \in {"tested", "done"} => At("ui", "playing")
    /\ undisturbed /\ window = "opening" =>
           /\ jobs = << >> /\ At("handler", "idle") /\ At("ui", "idle") /\ clock_paused
           /\ setting["ui"] = "pausing" \/ (setting["ui"] = "no" /\ threads_paused)
    /\ undisturbed /\ window = "open" =>
           /\ clock_paused /\ threads_paused
           /\ setting["ui"] \in {"no", "done"} /\ setting["handler"] \in {"no", "done"}

(* The player's other steps are at none of the places where it pauses, and  *)
(* the handler's begin with a job.                                          *)
LEMMA OtherSteps ==
    ASSUME TypeOK, WindowInv, Elsewhere
    PROVE  WindowInv'
<1>1. CASE UIFree /\ OtherUI
    <2>1. pc'.handler = pc.handler
        BY <1>1 DEF OtherUI, CloseMediaUI, CloseStop, CloseCancel, CloseInactive, OpenMedia,
           OpenAsync, CloseCurrentMedia, HandleCloseMedia, HandleStreamState, StartThreads,
           Goto, TypeOK
    <2>2. UNCHANGED timing /\ setting["ui"] = "no" /\ window \in {"closed", "open"}
        BY <1>1 DEF Elsewhere, UIFree
    <2> QED
        BY <2>1, <2>2 DEF WindowInv, timing, ui_time
<1>2. CASE OtherHandler
    <2>1. /\ ~(jobs = << >> /\ At("handler", "idle")) /\ pc.handler \notin {"new", "opened"}
          /\ pc'.ui = pc.ui
        BY <1>2 DEF OtherHandler, CloseMediaHandler, CloseStop, CloseCancel, CloseInactive, PopJob,
           ResetPrimaryStream, ClearCloseRequest, SetOpening, StopThreads, OpenBegin, OpenEnd,
           SetFailed, At, Goto, TypeOK
    <2>2. UNCHANGED timing
        BY DEF Elsewhere
    <2> QED
        BY <2>1, <2>2 DEF WindowInv, timing, ui_time, At
<1> QED
    BY <1>1, <1>2 DEF Elsewhere

(* Each store and each test of the events keeps it, in either thread.       *)
LEMMA StoresKeepWindow ==
    ASSUME TypeOK, TimeTypeOK, WindowInv, NEW t \in Threads, SetThreadsPaused(t) \/ PlayerSets(t)
    PROVE  WindowInv'
<1> USE DEF ui_time, Threads
<1>1. CASE SetThreadsPaused(t)
    <2>1. /\ setting'[t] = IF PlayerPauses(t) THEN "done" ELSE "no"
          /\ \A u \in Threads \ {t} : setting'[u] = setting[u]
        BY <1>1, SetToType DEF SetThreadsPaused
    <2>2. /\ setting[t] \in {"pausing", "resuming"} /\ threads_paused' = (setting[t] = "pausing")
          /\ UNCHANGED <<vars, clock_paused, ui_time>>
        BY <1>1 DEF SetThreadsPaused
    <2> QED
        BY <2>1, <2>2 DEF WindowInv, PlayerPauses, At, vars
<1>2. CASE TestEvents(t)
    <2>1. /\ setting'[t] = IF EventsEnabled THEN "tested" ELSE "done"
          /\ \A u \in Threads \ {t} : setting'[u] = setting[u]
        BY <1>2, SetToType DEF TestEvents
    <2>2. /\ PlayerPauses(t) /\ setting[t] = "no"
          /\ UNCHANGED <<vars, clock_paused, threads_paused, ui_time>>
        BY <1>2 DEF TestEvents
    <2> QED
        BY <2>1, <2>2 DEF WindowInv, PlayerPauses, EventsEnabled, At, vars
<1>3. CASE SetTested(t)
    <2>1. (At("handler", "new") /\ t = "handler") \in BOOLEAN
        OBVIOUS
    <2>2. /\ setting'[t] \in {"pausing", "resuming"}
          /\ \A u \in Threads \ {t} : setting'[u] = setting[u]
        BY <1>3, <2>1, SetClockType DEF SetTested
    <2>3. setting[t] = "tested" /\ UNCHANGED <<vars, threads_paused, ui_time>>
        BY <1>3 DEF SetTested
    <2> QED
        BY <2>2, <2>3 DEF WindowInv, At, vars
<1>4. CASE GoOn(t)
    <2>1. setting'[t] = "no" /\ \A u \in Threads \ {t} : setting'[u] = setting[u]
        BY <1>4, SetToType DEF GoOn
    <2>2. setting[t] = "done" /\ UNCHANGED <<clock_paused, threads_paused, ui_time>>
        BY <1>4 DEF GoOn
    <2>3. /\ t = "ui" => pc'.handler = pc.handler
          /\ t = "handler" => pc'.ui = pc.ui
        BY <1>4 DEF GoOn, SetPlaying, NewPrimaryStream, SetOpen, Goto, TypeOK
    <2>4. ~(undisturbed /\ window = "opening")
        BY <2>2 DEF WindowInv, At
    <2> QED
        BY <2>1, <2>2, <2>3, <2>4 DEF WindowInv, At
<1> QED
    BY <1>1, <1>2, <1>3, <1>4 DEF PlayerSets

(* Every step of the window, of pausing and of the player keeps it.         *)
LEMMA StepWindow ==
    ASSUME TypeOK, TimeTypeOK, WindowInv, [TimeNext]_all_vars
    PROVE  WindowInv'
<1> USE DEF ui_time, Threads
<1>1. CASE UNCHANGED all_vars
    BY <1>1 DEF all_vars, timing, vars, WindowInv, At
<1>2. CASE PauseOrResume
    <2>1. PICK is_paused \in BOOLEAN : SetClockPaused("ui", is_paused)
        BY <1>2 DEF PauseOrResume
    <2>2. setting'["ui"] \in {"pausing", "resuming"} /\ setting'["handler"] = setting["handler"]
        BY <2>1, SetClockType
    <2> QED
        BY <1>2, <2>2 DEF PauseOrResume, Command, vars, WindowInv, At
<1>3. CASE WindowPauses
    <2>1. /\ setting'["ui"] = "pausing" /\ setting'["handler"] = setting["handler"]
          /\ clock_paused' = TRUE
        BY <1>3, SetClockType DEF WindowPauses
    <2> QED
        BY <1>3, <2>1 DEF WindowPauses, Command, Settled, vars, WindowInv, At
<1>4. CASE WindowRestores
    <2>1. setting'["ui"] \in {"pausing", "resuming"} /\ setting'["handler"] = setting["handler"]
        BY <1>4, SetClockType DEF WindowRestores, TimeTypeOK
    <2> QED
        BY <1>4, <2>1 DEF WindowRestores, vars, WindowInv, At
<1>5. CASE WindowSetsEvents
    BY <1>5 DEF WindowSetsEvents, vars, WindowInv, At
<1>6. ASSUME NEW t \in Threads, SetThreadsPaused(t) \/ PlayerSets(t)
      PROVE  WindowInv'
    BY <1>6, StoresKeepWindow
<1>7. CASE Elsewhere
    BY <1>7, OtherSteps
<1> QED
    BY <1>1, <1>2, <1>3, <1>4, <1>5, <1>6, <1>7 DEF TimeNext

(* The invariant holds however the two threads' stores interleave.          *)
LEMMA WindowInductive == TimeSpec => []WindowInv
<1>1. TimeInit => WindowInv
    BY DEF TimeInit, WindowInv, Threads
<1>2. TypeOK /\ TimeTypeOK /\ WindowInv /\ [TimeNext]_all_vars => WindowInv'
    BY StepWindow
<1> QED
    BY <1>1, <1>2, TimeTypeInductive, PTL DEF TimeSpec

(* Flags, window and progress are well typed, and a thread that is on its   *)
(* way from its test of the events to its stores is still where the player  *)
(* pauses or resumes: the handler in open_command before the new stream or  *)
(* before "open", the UI thread in start_playing (internal_paused_set).     *)
THEOREM TimeTypeCorrect ==
    TimeSpec => [](TimeTypeOK /\ \A t \in Threads : setting[t] \in {"tested", "done"} => PlayerPauses(t))
<1>1. TimeTypeOK /\ WindowInv =>
          TimeTypeOK /\ \A t \in Threads : setting[t] \in {"tested", "done"} => PlayerPauses(t)
    BY DEF WindowInv, PlayerPauses, Threads
<1> QED
    BY <1>1, TimeTypeInductive, WindowInductive, PTL

(* The player is paused while a window is open that was opened in peace,    *)
(* whatever is opened and started under it, and however the two stores of   *)
(* each pause and resume interleave (player.h:293, ui_window_active_set,    *)
(* pause_playback).                                                         *)
THEOREM WindowPausesPlayer == TimeSpec => []WindowKeepsPaused
<1>1. WindowInv => WindowKeepsPaused
    BY DEF WindowInv, WindowKeepsPaused
<1> QED
    BY <1>1, WindowInductive, PTL
=============================================================================
