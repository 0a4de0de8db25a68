------------------------- MODULE ThreadControl_proofs -------------------------
(***************************************************************************)
(* Proofs about ThreadControl, for any set of worker threads.              *)
(***************************************************************************)
EXTENDS ThreadControl, TLAPS

(* Stopping.  A worker whose acknowledgement is up found the threads        *)
(* stopped when it stored it; it can be at work only if they were started   *)
(* before its test.  From the stop to the end of the wait nobody starts     *)
(* them, so an acknowledgement that was read stays up.                      *)
StopInv ==
    /\ \A w \in Workers : pc[w] = "enter" /\ is_stopped[w] /\ started => w \in overtaken
    /\ \A w \in Workers : pc[w] \in AtWork /\ is_stopped[w] => w \in overtaken
    /\ ctl \in WaitStopped \cup {"replace"} => ~started
    /\ ctl = "read_stopped" /\ all_set => \A w \in Workers \ unread : is_stopped[w]
    /\ ctl = "replace" /\ all_set => \A w \in Workers : is_stopped[w]

(* Ending.  Once running is false no worker begins another pass, so one     *)
(* that was seen outside its loop stays outside.                            *)
EndInv ==
    /\ running <=> ctl \notin WaitTerminated \cup {"gone"}
    /\ ctl = "read_terminated" /\ all_set => \A w \in Workers \ unread : pc[w] \notin InLoop
    /\ ctl = "gone" /\ all_set => \A w \in Workers : pc[w] \notin InLoop

IInv == TypeOK /\ StopInv /\ EndInv

(* The player's constructor leaves the threads stopped, none of them begun. *)
LEMMA InitIInv == Init => IInv
<1> SUFFICES ASSUME Init PROVE IInv
  OBVIOUS
<1>1. TypeOK
  BY DEF Init, TypeOK, InLoop, AtWork, WaitStopped, WaitTerminated
<1>2. StopInv
  BY DEF Init, StopInv, AtWork, WaitStopped
<1>3. EndInv
  BY DEF Init, EndInv, WaitTerminated
<1> QED BY <1>1, <1>2, <1>3 DEF IInv

(* Beginning, looping, acknowledging and ending (thread_function) keep the   *)
(* invariant.                                                               *)
LEMMA HeadStep ==
    ASSUME IInv, NEW w \in Workers, Begin(w) \/ Loop(w) \/ Acknowledge(w) \/ Exit(w)
    PROVE  IInv'
<1>1. CASE Begin(w)
  BY <1>1, SMT DEF Begin, Goto, flags, control, IInv, TypeOK, StopInv, EndInv, InLoop, AtWork,
                   WaitStopped, WaitTerminated
<1>2. CASE Loop(w)
  BY <1>2, SMT DEF Loop, Goto, flags, control, IInv, TypeOK, StopInv, EndInv, InLoop, AtWork,
                   WaitStopped, WaitTerminated
<1>3. CASE Acknowledge(w)
  <2>1. TypeOK'
    BY <1>3 DEF Acknowledge, Goto, flags, control, IInv, TypeOK, InLoop, AtWork
  <2>2. StopInv'
    BY <1>3 DEF Acknowledge, Goto, flags, control, IInv, TypeOK, StopInv, AtWork, WaitStopped
  <2>3. EndInv'
    BY <1>3 DEF Acknowledge, Goto, flags, control, IInv, TypeOK, EndInv, InLoop, WaitTerminated
  <2> QED BY <2>1, <2>2, <2>3 DEF IInv
<1>4. CASE Exit(w)
  BY <1>4, SMT DEF Exit, Goto, flags, control, IInv, TypeOK, StopInv, EndInv, InLoop, AtWork,
                   WaitStopped, WaitTerminated
<1> QED BY <1>1, <1>2, <1>3, <1>4

(* So does everything a worker does in work_function.                       *)
LEMMA WorkStep ==
    ASSUME IInv, NEW w \in Workers, Enter(w) \/ EndPass(w) \/ ReaderSeeks \/ Resampling
    PROVE  IInv'
<1>1. CASE Enter(w)
  BY <1>1, SMT DEF Enter, Goto, flags, control, IInv, TypeOK, StopInv, EndInv, InLoop, AtWork,
                   WaitStopped, WaitTerminated
<1>2. CASE EndPass(w)
  BY <1>2, SMT DEF EndPass, Goto, flags, control, IInv, TypeOK, StopInv, EndInv, InLoop, AtWork,
                   WaitStopped, WaitTerminated
<1>3. CASE ReaderSeeks
  BY <1>3, WorkersAssumption, SMT
  DEF ReaderSeeks, Goto, flags, control, IInv, TypeOK, StopInv, EndInv, InLoop, AtWork,
      WaitStopped, WaitTerminated
<1>4. CASE Resampling
  BY <1>4, WorkersAssumption, SMT
  DEF Resampling, ResampleTests, ResamplePushes, ResampleEnds, Goto, flags, control,
      IInv, TypeOK, StopInv, EndInv, InLoop, AtWork, WaitStopped, WaitTerminated
<1> QED BY <1>1, <1>2, <1>3, <1>4

(* So do starting, pausing, stopping, replacing the stream and terminating. *)
LEMMA ControlStep ==
    ASSUME IInv, Start \/ Resume \/ PauseResume \/ Stop \/ ReplaceStream \/ Terminate
    PROVE  IInv'
<1> USE DEF workers, IInv, TypeOK, StopInv, EndInv, InLoop, AtWork, WaitStopped, WaitTerminated
<1>1. CASE Start
  BY <1>1, SMT DEF Start
<1>2. CASE Resume
  <2>1. TypeOK'
    BY <1>2 DEF Resume
  <2>2. StopInv'
    BY <1>2 DEF Resume
  <2>3. EndInv'
    BY <1>2 DEF Resume
  <2> QED BY <2>1, <2>2, <2>3
<1>3. CASE PauseResume
  BY <1>3, SMT DEF PauseResume, control
<1>4. CASE Stop
  <2>1. TypeOK'
    BY <1>4 DEF Stop
  <2>2. StopInv'
    BY <1>4 DEF Stop
  <2>3. EndInv'
    BY <1>4 DEF Stop
  <2> QED BY <2>1, <2>2, <2>3
<1>5. CASE ReplaceStream
  <2>1. TypeOK'
    BY <1>5 DEF ReplaceStream
  <2>2. StopInv'
    BY <1>5 DEF ReplaceStream
  <2>3. EndInv'
    BY <1>5 DEF ReplaceStream
  <2> QED BY <2>1, <2>2, <2>3
<1>6. CASE TerminatePaused
  <2>1. TypeOK'
    BY <1>6 DEF TerminatePaused
  <2>2. StopInv'
    BY <1>6 DEF TerminatePaused
  <2>3. EndInv'
    BY <1>6 DEF TerminatePaused
  <2> QED BY <2>1, <2>2, <2>3
<1>7. CASE TerminateStarted
  <2>1. TypeOK'
    BY <1>7 DEF TerminateStarted
  <2>2. StopInv'
    BY <1>7 DEF TerminateStarted
  <2>3. EndInv'
    BY <1>7 DEF TerminateStarted
  <2> QED BY <2>1, <2>2, <2>3
<1>8. CASE TerminateRunning
  <2>1. TypeOK'
    BY <1>8 DEF TerminateRunning
  <2>2. StopInv'
    BY <1>8 DEF TerminateRunning
  <2>3. EndInv'
    BY <1>8 DEF TerminateRunning
  <2> QED BY <2>1, <2>2, <2>3
<1> QED BY <1>1, <1>2, <1>3, <1>4, <1>5, <1>6, <1>7, <1>8 DEF Terminate

(* So does each step of wait_for_all_stopped and wait_for_all_terminated.    *)
LEMMA WaitStep == ASSUME IInv, Waiting PROVE IInv'
<1> USE DEF workers, flags, IInv, TypeOK, StopInv, EndInv, InLoop, AtWork, WaitStopped, WaitTerminated
<1>1. CASE BeginPoll
  BY <1>1, SMT DEF BeginPoll, Threads
<1>2. ASSUME NEW t \in Threads, ReadFlag(t) PROVE IInv'
  <2>1. CASE t = AudioRender
    BY <1>2, <2>1, WorkersAssumption, SMT DEF ReadFlag, Threads, Answer, Stopped, Terminated
  <2>2. CASE t \in Workers
    BY <1>2, <2>2, WorkersAssumption, SMT DEF ReadFlag, Threads, Answer, Stopped, Terminated
  <2> QED BY <2>1, <2>2 DEF Threads
<1>3. CASE PollAgain
  BY <1>3, SMT DEF PollAgain
<1>4. CASE EndWait
  BY <1>4, SMT DEF EndWait
<1> QED BY <1>1, <1>2, <1>3, <1>4 DEF Waiting

(* Every step of the threads and of the controller keeps the invariant.      *)
LEMMA StepIInv == IInv /\ [Next]_vars => IInv'
<1> SUFFICES ASSUME IInv, [Next]_vars PROVE IInv'
  OBVIOUS
<1>1. CASE Controller
  BY <1>1, ControlStep, WaitStep DEF Controller
<1>2. ASSUME NEW w \in Workers, Worker(w) PROVE IInv'
  BY <1>2, HeadStep, WorkStep DEF Worker
<1>3. CASE ReaderSeeks \/ Resampling
  BY <1>3, WorkStep, WorkersAssumption
<1>4. CASE UNCHANGED vars
  BY <1>4, SMT DEF vars, flags, workers, control, IInv, TypeOK, StopInv, EndInv
<1> QED BY <1>1, <1>2, <1>3, <1>4 DEF Next

(* The invariant holds at all times, however threads and controller interleave. *)
LEMMA Inductive == Spec => []IInv
  BY InitIInv, StepIInv, PTL DEF Spec

(* Type correctness: in particular thread_is_running_ of a worker is up     *)
(* exactly while it is inside thread_function.                              *)
THEOREM TypeCorrect == Spec => []TypeOK
<1>1. IInv => TypeOK
  BY DEF IInv
<1> QED BY Inductive, <1>1, PTL

(* After a wait for the workers to stop has succeeded, the stream is        *)
(* replaced (player::reset_primary_stream) with no worker at it, unless a   *)
(* start had overtaken that worker.                                         *)
THEOREM StreamSafe == Spec => []ReplacedWhileQuiet
<1>1. IInv => ReplacedWhileQuiet
  BY DEF IInv, StopInv, ReplacedWhileQuiet, UsesStream, AtWork
<1> QED BY Inductive, <1>1, PTL

(* After a wait for the workers to end has succeeded, none of them is or    *)
(* will be in its loop.                                                     *)
THEOREM TerminationSafe == Spec => []TerminatedIsQuiet
<1>1. IInv => TerminatedIsQuiet
  BY DEF IInv, EndInv, TerminatedIsQuiet
<1> QED BY Inductive, <1>1, PTL
=============================================================================
