------------------------ MODULE PipelineSeek_proofs ------------------------
(***************************************************************************)
(* Proofs about PipelineSeek, for any number of seeks, any sizes of the    *)
(* queues and any delay of the decoders.                                   *)
(***************************************************************************)
EXTENDS PipelineSeek, FiniteSetTheorems, TLAPS

(* The i-th packet of a decoder and the queue in front of it.               *)
Nth(decoder, queue, i) ==
    IF i <= Len(decoder) THEN decoder[i] ELSE queue[i - Len(decoder)]

(* Nth numbers the places of the concatenation.                             *)
LEMMA NthOfConcatenation ==
    ASSUME NEW S, NEW decoder \in Seq(S), NEW queue \in Seq(S)
    PROVE  /\ Len(decoder \o queue) = Len(decoder) + Len(queue)
           /\ decoder \o queue \in Seq(S)
           /\ \A i \in 1 .. Len(decoder) + Len(queue) :
                  /\ (decoder \o queue)[i] = Nth(decoder, queue, i)
                  /\ Nth(decoder, queue, i) \in S
<1>1. Len(decoder \o queue) = Len(decoder) + Len(queue) /\ decoder \o queue \in Seq(S)
  OBVIOUS
<1>2. ASSUME NEW i \in 1 .. Len(decoder) + Len(queue)
      PROVE  (decoder \o queue)[i] = Nth(decoder, queue, i) /\ Nth(decoder, queue, i) \in S
  <2>1. CASE i <= Len(decoder)
    BY <2>1 DEF Nth
  <2>2. CASE ~(i <= Len(decoder))
    <3>1. i - Len(decoder) \in 1 .. Len(queue)
      BY <2>2
    <3> QED BY <2>2, <3>1 DEF Nth
  <2> QED BY <2>1, <2>2
<1> QED BY <1>1, <1>2

(* A frame comes out: the packets move on by one.                           *)
FrameOut(r, decoder, queue, delay) ==
    /\ Len(decoder) + Len(queue) > delay
    /\ r.frame = Nth(decoder, queue, 1)
    /\ Len(r.decoder) = delay
    /\ Len(r.queue) = Len(decoder) + Len(queue) - delay - 1
    /\ \A i \in 1 .. delay : r.decoder[i] = Nth(decoder, queue, i + 1)
    /\ \A i \in 1 .. Len(r.queue) : r.queue[i] = Nth(decoder, queue, delay + 1 + i)

(* No frame comes out, and a packet may have been refused.                  *)
NoFrameOut(r, decoder, queue, delay) ==
    \E k \in 1 .. Len(queue) + 1 :
        /\ r.frame = None
        /\ Len(r.decoder) = Len(decoder) + k - 1 /\ Len(r.decoder) <= delay
        /\ Len(r.queue) = (IF k > Len(queue) THEN 0 ELSE Len(queue) - k)
        /\ \A i \in 1 .. Len(r.decoder) : r.decoder[i] = Nth(decoder, queue, i)
        /\ \A i \in 1 .. Len(r.queue) : r.queue[i] = Nth(decoder, queue, Len(decoder) + k + i)

(* What av_codec_context::read_frame does to decoder and queue.             *)
LEMMA ReadFrameOutcomes ==
    ASSUME NEW S, NEW delay \in Nat, NEW decoder \in Seq(S), NEW queue \in Seq(S),
           Len(decoder) <= delay, NEW r \in ReadFrame(decoder, queue, delay)
    PROVE  /\ r.decoder \in Seq(S) /\ r.queue \in Seq(S)
           /\ FrameOut(r, decoder, queue, delay) \/ NoFrameOut(r, decoder, queue, delay)
<1> DEFINE all == decoder \o queue
<1>1. /\ Len(all) = Len(decoder) + Len(queue) /\ all \in Seq(S)
      /\ \A i \in 1 .. Len(all) : all[i] = Nth(decoder, queue, i)
  BY NthOfConcatenation
<1>2. CASE r = Decoded(decoder, queue, delay) /\ Len(all) > delay
  <2>1. /\ r.frame = Head(all) /\ r.decoder = SubSeq(all, 2, delay + 1)
        /\ r.queue = SubSeq(all, delay + 2, Len(all))
    BY <1>2 DEF Decoded
  <2> HIDE DEF all
  <2>2. /\ r.decoder \in Seq(S) /\ Len(r.decoder) = delay
        /\ \A i \in 1 .. delay : r.decoder[i] = all[i + 1]
    BY <1>1, <1>2, <2>1
  <2>3. /\ r.queue \in Seq(S) /\ Len(r.queue) = Len(all) - delay - 1
        /\ \A i \in 1 .. Len(r.queue) : r.queue[i] = all[delay + 1 + i]
    BY <1>1, <1>2, <2>1
  <2>4. r.frame = all[1] /\ 1 \in 1 .. Len(all)
    BY <1>1, <1>2, <2>1
  <2>5. /\ \A i \in 1 .. delay : i + 1 \in 1 .. Len(all)
        /\ \A i \in 1 .. Len(r.queue) : delay + 1 + i \in 1 .. Len(all)
    BY <1>1, <1>2, <2>3
  <2> QED BY <1>1, <1>2, <2>2, <2>3, <2>4, <2>5 DEF FrameOut
<1>3. CASE r = Decoded(decoder, queue, delay) /\ ~(Len(all) > delay)
  <2>1. r.frame = None /\ r.decoder = all /\ r.queue = << >>
    BY <1>3 DEF Decoded
  <2> HIDE DEF all
  <2>2. r.queue \in Seq(S) /\ Len(r.queue) = 0
    BY <2>1
  <2>3. NoFrameOut(r, decoder, queue, delay)
    <3>1. Len(queue) + 1 \in 1 .. Len(queue) + 1 /\ Len(queue) + 1 > Len(queue)
      OBVIOUS
    <3>2. Len(r.decoder) = Len(decoder) + (Len(queue) + 1) - 1 /\ Len(r.decoder) <= delay
      BY <1>1, <1>3, <2>1
    <3>3. \A i \in 1 .. Len(r.decoder) : r.decoder[i] = Nth(decoder, queue, i)
      BY <1>1, <2>1
    <3>4. \A i \in 1 .. Len(r.queue) : FALSE
      BY <2>2
    <3> QED BY <2>1, <2>2, <3>1, <3>2, <3>3, <3>4 DEF NoFrameOut
  <2> QED BY <1>1, <2>1, <2>2, <2>3
<1>4. ASSUME NEW k \in DOMAIN queue, k + Len(decoder) <= delay + 1,
             r = Refused(decoder, queue, k)
      PROVE  /\ r.decoder \in Seq(S) /\ r.queue \in Seq(S)
             /\ NoFrameOut(r, decoder, queue, delay)
  <2>1. /\ r.frame = None /\ r.decoder = decoder \o SubSeq(queue, 1, k - 1)
        /\ r.queue = SubSeq(queue, k + 1, Len(queue))
    BY <1>4 DEF Refused
  <2>2. /\ SubSeq(queue, 1, k - 1) \in Seq(S) /\ Len(SubSeq(queue, 1, k - 1)) = k - 1
        /\ \A i \in 1 .. k - 1 : SubSeq(queue, 1, k - 1)[i] = queue[i]
    OBVIOUS
  <2>3. /\ r.decoder \in Seq(S) /\ Len(r.decoder) = Len(decoder) + k - 1
        /\ \A i \in 1 .. Len(r.decoder) : r.decoder[i] = Nth(decoder, SubSeq(queue, 1, k - 1), i)
    <3> DEFINE accepted == SubSeq(queue, 1, k - 1)
    <3>1. accepted \in Seq(S) /\ Len(accepted) = k - 1 /\ r.decoder = decoder \o accepted
      BY <2>1, <2>2
    <3> HIDE DEF accepted
    <3>2. /\ r.decoder \in Seq(S) /\ Len(r.decoder) = Len(decoder) + (k - 1)
          /\ \A i \in 1 .. Len(r.decoder) : r.decoder[i] = Nth(decoder, accepted, i)
      BY <3>1, NthOfConcatenation, ZenonT(40)
    <3>3. Len(r.decoder) = Len(decoder) + k - 1
      BY <3>2
    <3> QED BY <3>2, <3>3 DEF accepted
  <2>4. \A i \in 1 .. Len(r.decoder) : r.decoder[i] = Nth(decoder, queue, i)
    <3> SUFFICES ASSUME NEW i \in 1 .. Len(decoder) + (k - 1)
                 PROVE  Nth(decoder, SubSeq(queue, 1, k - 1), i) = Nth(decoder, queue, i)
      BY <2>3
    <3>1. CASE i <= Len(decoder)
      BY <3>1 DEF Nth
    <3>2. CASE ~(i <= Len(decoder))
      <4>1. i - Len(decoder) \in 1 .. k - 1
        BY <3>2
      <4> QED BY <2>2, <3>2, <4>1 DEF Nth
    <3> QED BY <3>1, <3>2
  <2>5. /\ r.queue \in Seq(S) /\ Len(r.queue) = Len(queue) - k
        /\ \A i \in 1 .. Len(r.queue) : r.queue[i] = queue[k + i]
    <3>1. k \in 1 .. Len(queue)
      OBVIOUS
    <3>2. /\ SubSeq(queue, k + 1, Len(queue)) \in Seq(S)
          /\ Len(SubSeq(queue, k + 1, Len(queue))) = Len(queue) - k
      BY ONLY <3>1, queue \in Seq(S)
    <3>3. \A i \in 1 .. Len(queue) - k : SubSeq(queue, k + 1, Len(queue))[i] = queue[k + i]
      BY ONLY <3>1, queue \in Seq(S)
    <3> QED BY <2>1, <3>2, <3>3
  <2>6. \A i \in 1 .. Len(r.queue) : r.queue[i] = Nth(decoder, queue, Len(decoder) + k + i)
    <3> SUFFICES ASSUME NEW i \in 1 .. Len(r.queue)
                 PROVE  queue[k + i] = Nth(decoder, queue, Len(decoder) + k + i)
      BY <2>5
    <3>1. ~(Len(decoder) + k + i <= Len(decoder)) /\ Len(decoder) + k + i - Len(decoder) = k + i
      OBVIOUS
    <3> QED BY <3>1 DEF Nth
  <2>7. k \in 1 .. Len(queue) + 1 /\ ~(k > Len(queue)) /\ Len(decoder) + k - 1 <= delay
    BY <1>4
  <2> QED BY <2>1, <2>3, <2>4, <2>5, <2>6, <2>7 DEF NoFrameOut
<1> QED BY <1>2, <1>3, <1>4 DEF ReadFrame
-----------------------------------------------------------------------------
(* Control: the seek state and the requests.                                *)

(* Seeks that were asked for and are not performed yet.                     *)
Pending ==
    (IF ui_pc \in {"cas_ready", "cas_waiting"} THEN 1 ELSE 0)
    + (IF seek_state = "requested" THEN 1 ELSE 0)
    + (IF reader_pc \in {"signal_start", "fill_old", "seek"} THEN 1 ELSE 0)

ControlInv ==
    /\ seek_state \in SeekStates
    /\ threads_started \in BOOLEAN /\ threads_paused \in BOOLEAN
    /\ calls \in Gens
    /\ ui_pc \in {"idle", "cas_ready", "cas_waiting", "clear"}
    /\ reader_pc \in ReaderPcs
    /\ timer_expired \in BOOLEAN
    /\ gen \in Nat /\ gen + Pending <= calls
    /\ cb_pc \in {"idle", "adjust", "sync", "copy"}
    /\ handle_flush_done \in BOOLEAN
    /\ FlushingIsExclusive
    /\ ui_pc = "clear" => seek_state = "ready"
    /\ reader_pc = "store_waiting" => seek_state = "flush_done"

(* The UI thread's steps keep the control invariant.                        *)
LEMMA ControlUI ==
    ASSUME ControlInv, UI
    PROVE  ControlInv'
<1> USE BoundsAssumption
    DEF ControlInv, FlushingIsExclusive, Pending, SeekStates, ReaderPcs, FlushPcs, Gens,
        control, request, reader
<1>1. CASE StartStop \/ PauseResume
  <2>1. UNCHANGED <<seek_state, request, reader, cb_pc, handle_flush_done>>
    BY <1>1 DEF StartStop, PauseResume, sound, picture
  <2>2. threads_started' \in BOOLEAN /\ threads_paused' \in BOOLEAN
    BY <1>1 DEF StartStop, PauseResume
  <2> QED BY <2>1, <2>2
<1>2. CASE SeekBegin
  <2>1. Pending' = Pending + 1 /\ Pending \in Nat /\ calls' = calls + 1 /\ calls' \in Gens
    BY <1>2 DEF SeekBegin
  <2> HIDE DEF Pending
  <2>2. gen' \in Nat /\ gen' + Pending' <= calls'
    <3>1. gen' = gen /\ gen \in Nat /\ gen + Pending <= calls /\ calls \in Nat
      BY <1>2 DEF SeekBegin
    <3> QED BY ONLY <2>1, <3>1
  <2>3. /\ ui_pc = "idle" /\ ui_pc' = "cas_ready" /\ threads_paused' = FALSE
        /\ UNCHANGED <<seek_state, threads_started, reader, cb_pc, handle_flush_done>>
    BY <1>2 DEF SeekBegin, sound, picture
  <2>4. FlushingIsExclusive'
    BY <2>3
  <2> HIDE DEF FlushingIsExclusive, FlushPcs
  <2> QED BY <2>1, <2>2, <2>3, <2>4, ZenonT(40)
<1>3. CASE SeekCasReady
  BY <1>3 DEF SeekCasReady, SeekCas, sound, picture
<1>4. CASE SeekCasWaiting
  BY <1>4 DEF SeekCasWaiting, SeekCas, sound, picture
<1>5. CASE RenderAfterFlush
  BY <1>5 DEF RenderAfterFlush, sound
<1>6. CASE RenderClear
  BY <1>6 DEF RenderClear, sound
<1>7. CASE RenderNext
  BY <1>7 DEF RenderNext, sound
<1> QED BY <1>1, <1>2, <1>3, <1>4, <1>5, <1>6, <1>7 DEF UI

(* So do the packet reader's ...                                            *)
LEMMA ControlReader ==
    ASSUME ControlInv, PacketReader
    PROVE  ControlInv'
<1> USE BoundsAssumption
    DEF ControlInv, FlushingIsExclusive, Pending, SeekStates, ReaderPcs, FlushPcs, Gens,
        control, request, reader, sound, picture
<1>1. CASE ReaderLoop
  BY <1>1 DEF ReaderLoop
<1>2. CASE CheckSeekPosition
  BY <1>2 DEF CheckSeekPosition
<1>3. CASE SignalFlushStart \/ FillOld
  BY <1>3 DEF SignalFlushStart, FillOld
<1>4. CASE SeekTimePos
  <2>1. /\ reader_pc = "seek" /\ reader_pc' = "flush_packets" /\ gen' \in {gen, gen + 1}
        /\ UNCHANGED <<control, request, timer_expired, cb_pc, handle_flush_done>>
    BY <1>4 DEF SeekTimePos
  <2>2. Pending' = Pending - 1 /\ Pending \in Nat
    BY <2>1
  <2>3. /\ gen \in Nat /\ gen + Pending <= calls /\ calls \in Nat /\ calls' = calls
        /\ gen' = gen \/ gen' = gen + 1
    BY <2>1
  <2> HIDE DEF Pending
  <2>4. gen' \in Nat /\ gen' + Pending' <= calls'
    BY ONLY <2>2, <2>3
  <2> QED BY <2>1, <2>4
<1>5. CASE FlushPacketQueues \/ FlushSamplesQueue \/ FillNew \/ SignalFlushDone
  <2>1. UNCHANGED <<control, request, timer_expired, gen, cb_pc>> /\ Pending' = Pending
    BY <1>5 DEF FlushPacketQueues, FlushSamplesQueue, FillNew, SignalFlushDone
  <2>2. /\ handle_flush_done' \in BOOLEAN
        /\ reader_pc \in {"flush_packets", "flush_samples", "fill_new", "signal_done"}
        /\ reader_pc' \in {"flush_samples", "fill_new", "signal_done", "store_done"}
    BY <1>5 DEF FlushPacketQueues, FlushSamplesQueue, FillNew, SignalFlushDone
  <2> QED BY <2>1, <2>2
<1>6. CASE StoreFlushDone
  BY <1>6 DEF StoreFlushDone
<1>7. CASE StoreWaiting
  BY <1>7 DEF StoreWaiting
<1>8. CASE CheckSeekCompleted
  BY <1>8 DEF CheckSeekCompleted
<1>9. CASE FallbackStore
  BY <1>9 DEF FallbackStore
<1>10. CASE FallbackInSync
  BY <1>10 DEF FallbackInSync, CheckSetSeekInSync
<1>11. CASE FillQueues
  BY <1>11 DEF FillQueues
<1> QED
  BY <1>1, <1>2, <1>3, <1>4, <1>5, <1>6, <1>7, <1>8, <1>9, <1>10, <1>11 DEF PacketReader

(* ... and those of the timer, the resampler and the callback.              *)
LEMMA ControlOthers ==
    ASSUME ControlInv, TimerExpires \/ Resampler \/ AudioCallback \/ UNCHANGED vars
    PROVE  ControlInv'
<1> USE DEF ControlInv, FlushingIsExclusive, Pending, SeekStates, ReaderPcs, FlushPcs, Gens,
        control, request, reader
<1>1. CASE TimerExpires \/ UNCHANGED vars
  <2>1. UNCHANGED <<control, request, reader_pc, gen, cb_pc, handle_flush_done>>
    BY <1>1 DEF TimerExpires, vars, sound, picture
  <2>2. timer_expired' \in BOOLEAN
    BY <1>1 DEF TimerExpires, vars
  <2> QED BY <2>1, <2>2
<1>2. CASE Resampler
  BY <1>2 DEF Resampler, ResampleTake, ResamplePush, picture
<1>3. CASE CallbackBegin \/ CallbackAdjust \/ CallbackCopy
  BY <1>3, SMTT(30) DEF CallbackBegin, CallbackAdjust, CallbackCopy, picture
<1>4. CASE CallbackSync
  BY <1>4 DEF CallbackSync, CheckSetSeekInSync, picture
<1> QED BY <1>1, <1>2, <1>3, <1>4 DEF AudioCallback

(* Every step keeps the control invariant.                                  *)
LEMMA ControlStep == ControlInv /\ [Next]_vars => ControlInv'
  BY ControlUI, ControlReader, ControlOthers DEF Next

(* The control invariant holds in every reachable state.                    *)
LEMMA ControlInductive == Spec => []ControlInv
<1>1. Init => ControlInv
  <2> SUFFICES ASSUME Init PROVE ControlInv
    OBVIOUS
  <2>1. Pending = 0
    BY DEF Init, Pending
  <2>2. 0 \in Gens /\ gen + Pending <= calls
    BY <2>1, BoundsAssumption DEF Init, Gens
  <2>3. FlushingIsExclusive /\ reader_pc \in ReaderPcs /\ seek_state \in SeekStates
    BY DEF Init, FlushingIsExclusive, SeekStates, ReaderPcs, FlushPcs
  <2> QED BY <2>2, <2>3 DEF Init, ControlInv
<1> QED BY <1>1, ControlStep, PTL DEF Spec

(* seek_state_ says flushing exactly while the packet reader flushes        *)
(* (packet_reader_thread::check_seek_position).                             *)
THEOREM FlushingExclusive == Spec => []FlushingIsExclusive
<1>1. ControlInv => FlushingIsExclusive
  BY DEF ControlInv
<1> QED BY ControlInductive, <1>1, PTL
-----------------------------------------------------------------------------
(* Data: what is queued, decoded and in hand.                               *)

DataInv ==
    /\ audio \in Seq(Gens) /\ Len(audio) <= MaxAudio
    /\ video \in Seq(Gens) /\ Len(video) <= FillLevel + 1
    /\ samples \in Seq(Gens) /\ Len(samples) <= MaxSamples
    /\ adec \in Seq(Gens) /\ Len(adec) <= AudioDelay
    /\ vdec \in Seq(Gens) /\ Len(vdec) <= VideoDelay
    /\ hand \in Gens \cup {None} /\ clock \in Gens /\ frame \in Gens \cup {None}
    /\ hand # None => Len(samples) < MaxSamples

(* No more seeks are performed than were asked for.                         *)
LEMMA GenInRange == ControlInv => gen \in Gens
  BY BoundsAssumption DEF ControlInv, Pending, Gens

(* Packets of the present position are put behind those that are queued.    *)
Filled(new, old, limit) ==
    /\ new \in Seq(Gens) /\ Len(old) <= Len(new) /\ Len(new) <= limit
    /\ \A i \in 1 .. Len(new) : IF i <= Len(old) THEN new[i] = old[i] ELSE new[i] = gen

(* Appending packets of the present position fills a queue in this sense.   *)
LEMMA FillOutcome ==
    ASSUME gen \in Gens, NEW old \in Seq(Gens), NEW n \in Nat, NEW limit \in Nat,
           Len(old) + n <= limit
    PROVE  Filled(old \o Fresh(n), old, limit)
<1> DEFINE fresh == Fresh(n)
<1>1. fresh \in Seq(Gens) /\ Len(fresh) = n /\ \A i \in 1 .. n : fresh[i] = gen
  BY DEF Fresh
<1> HIDE DEF fresh
<1>2. /\ old \o fresh \in Seq(Gens) /\ Len(old \o fresh) = Len(old) + n
      /\ \A i \in 1 .. Len(old) + n : (old \o fresh)[i] = Nth(old, fresh, i)
  BY <1>1, NthOfConcatenation
<1>3. ASSUME NEW i \in 1 .. Len(old) + n
      PROVE  IF i <= Len(old) THEN (old \o fresh)[i] = old[i] ELSE (old \o fresh)[i] = gen
  <2>1. CASE i <= Len(old)
    BY <1>2, <2>1 DEF Nth
  <2>2. CASE ~(i <= Len(old))
    <3>1. i - Len(old) \in 1 .. n
      BY <2>2
    <3> QED BY <1>1, <1>2, <2>2, <3>1 DEF Nth
  <2> QED BY <2>1, <2>2
<1>4. Filled(old \o fresh, old, limit)
  BY <1>2, <1>3 DEF Filled
<1> QED BY <1>4 DEF fresh

(* read_packets_to_queues fills both queues, within their limits.           *)
LEMMA ReadPackets ==
    ASSUME gen \in Gens, DataInv, NEW fill \in Nat, fill <= FillLevel + 1,
           ReadPacketsToQueues(fill)
    PROVE  Filled(audio', audio, MaxAudio) /\ Filled(video', video, FillLevel + 1)
<1>1. CASE Len(video) >= fill
  BY <1>1 DEF ReadPacketsToQueues, DataInv, Filled
<1>2. CASE ~(Len(video) >= fill)
  <2>1. PICK a \in 0 .. MaxAudio - Len(audio), v \in 0 .. fill - Len(video) :
            audio' = audio \o Fresh(a) /\ video' = video \o Fresh(v)
    BY <1>2 DEF ReadPacketsToQueues
  <2>2. /\ a \in Nat /\ Len(audio) + a <= MaxAudio /\ MaxAudio \in Nat
        /\ v \in Nat /\ Len(video) + v <= FillLevel + 1 /\ FillLevel + 1 \in Nat
    BY BoundsAssumption DEF DataInv
  <2>3. Filled(audio \o Fresh(a), audio, MaxAudio)
    BY <2>2, FillOutcome DEF DataInv
  <2>4. Filled(video \o Fresh(v), video, FillLevel + 1)
    BY <2>2, FillOutcome DEF DataInv
  <2> QED BY <2>1, <2>3, <2>4
<1> QED BY <1>1, <1>2

(* Reading a frame from one of the decoders leaves less in its queue.       *)
LEMMA ReadFrameType ==
    ASSUME NEW delay \in Nat, NEW decoder \in Seq(Gens), NEW queue \in Seq(Gens),
           Len(decoder) <= delay, NEW r \in ReadFrame(decoder, queue, delay)
    PROVE  /\ r.decoder \in Seq(Gens) /\ Len(r.decoder) <= delay
           /\ r.queue \in Seq(Gens) /\ Len(r.queue) <= Len(queue)
           /\ r.frame \in Gens \cup {None}
<1>1. /\ r.decoder \in Seq(Gens) /\ r.queue \in Seq(Gens)
      /\ FrameOut(r, decoder, queue, delay) \/ NoFrameOut(r, decoder, queue, delay)
  BY ReadFrameOutcomes
<1>2. CASE FrameOut(r, decoder, queue, delay)
  <2>1. 1 \in 1 .. Len(decoder) + Len(queue)
    BY <1>2 DEF FrameOut
  <2>2. Nth(decoder, queue, 1) \in Gens
    BY <2>1, NthOfConcatenation
  <2> QED BY <1>1, <1>2, <2>2 DEF FrameOut
<1>3. CASE NoFrameOut(r, decoder, queue, delay)
  BY <1>1, <1>3 DEF NoFrameOut
<1> QED BY <1>1, <1>2, <1>3

(* Every step keeps queues, decoders and frames well typed and bounded.     *)
LEMMA DataStep ==
    ASSUME ControlInv, DataInv, [Next]_vars
    PROVE  DataInv'
<1> USE BoundsAssumption
    DEF DataInv, control, request, reader, queues, codecs, sound, picture
<1>1. ASSUME UNCHANGED <<queues, codecs, hand, frame>>, clock' \in Gens
      PROVE  DataInv'
  BY <1>1
<1>2. CASE StartStop \/ PauseResume \/ SeekBegin \/ SeekCasReady \/ SeekCasWaiting
           \/ RenderClear
  BY <1>1, <1>2 DEF StartStop, PauseResume, SeekBegin, SeekCasReady, SeekCasWaiting, SeekCas,
     RenderClear
<1>3. CASE RenderAfterFlush \/ RenderNext
  <2>1. ReadVideoFrame /\ UNCHANGED <<audio, samples, adec, sound>>
    BY <1>3 DEF RenderAfterFlush, RenderNext
  <2>2. PICK r \in ReadFrame(vdec, video, VideoDelay) :
            frame' = r.frame /\ vdec' = r.decoder /\ video' = r.queue
    BY <2>1 DEF ReadVideoFrame
  <2>3. /\ vdec' \in Seq(Gens) /\ Len(vdec') <= VideoDelay
        /\ video' \in Seq(Gens) /\ Len(video') <= Len(video)
        /\ frame' \in Gens \cup {None}
    BY <2>2, ReadFrameType
  <2> QED BY <2>1, <2>3
<1>4. CASE \/ ReaderLoop \/ CheckSeekPosition \/ SignalFlushStart \/ SeekTimePos
           \/ SignalFlushDone \/ StoreFlushDone \/ StoreWaiting \/ CheckSeekCompleted
           \/ FallbackStore \/ FallbackInSync \/ TimerExpires
  BY <1>1, <1>4 DEF ReaderLoop, CheckSeekPosition, SignalFlushStart, SeekTimePos,
     SignalFlushDone, StoreFlushDone, StoreWaiting, CheckSeekCompleted,
     FallbackStore, FallbackInSync, TimerExpires
<1>5. CASE FillOld \/ FillNew \/ FillQueues
  <2>1. /\ UNCHANGED <<samples, codecs, sound, frame>>
        /\ \/ UNCHANGED <<audio, video>>
           \/ \E fill \in {FillLevel, FillLevel + 1} : ReadPacketsToQueues(fill)
    BY <1>5 DEF FillOld, FillNew, FillQueues
  <2>2. CASE UNCHANGED <<audio, video>>
    BY <2>1, <2>2
  <2>3. ASSUME NEW fill \in {FillLevel, FillLevel + 1}, ReadPacketsToQueues(fill)
        PROVE  DataInv'
    <3>1. Filled(audio', audio, MaxAudio) /\ Filled(video', video, FillLevel + 1)
      BY <2>3, ReadPackets, GenInRange
    <3> QED BY <2>1, <3>1 DEF Filled
  <2> QED BY <2>1, <2>2, <2>3
<1>6. CASE FlushPacketQueues \/ FlushSamplesQueue
  <2>1. << >> \in Seq(Gens) /\ Len(<< >>) = 0
    OBVIOUS
  <2>2. CASE FlushPacketQueues
    BY <2>1, <2>2 DEF FlushPacketQueues
  <2>3. CASE FlushSamplesQueue
    BY <2>1, <2>3 DEF FlushSamplesQueue
  <2> QED BY <1>6, <2>2, <2>3
<1>7. CASE ResampleTake
  <2>1. PICK r \in ReadFrame(adec, audio, AudioDelay) :
            hand' = r.frame /\ adec' = r.decoder /\ audio' = r.queue
    BY <1>7 DEF ResampleTake, ReadAudioFrame
  <2>2. /\ adec' \in Seq(Gens) /\ Len(adec') <= AudioDelay
        /\ audio' \in Seq(Gens) /\ Len(audio') <= Len(audio)
        /\ hand' \in Gens \cup {None}
    BY <2>1, ReadFrameType
  <2> QED BY <1>7, <2>2 DEF ResampleTake
<1>8. CASE ResamplePush
  <2>1. hand \in Gens
    BY <1>8 DEF ResamplePush
  <2>2. samples' \in Seq(Gens) /\ Len(samples') = Len(samples) + 1
    BY <1>8, <2>1 DEF ResamplePush
  <2> QED BY <1>8, <2>1, <2>2 DEF ResamplePush
<1>9. CASE CallbackBegin \/ CallbackSync \/ CallbackAdjust
  <2>1. clock' \in Gens
    BY <1>9 DEF CallbackBegin, CallbackSync, CallbackAdjust
  <2> QED BY <1>1, <1>9, <2>1 DEF CallbackBegin, CallbackSync, CallbackAdjust
<1>10. CASE CallbackCopy
  <2>1. PICK n \in 0 .. Len(samples) : samples' = SubSeq(samples, n + 1, Len(samples))
    BY <1>10 DEF CallbackCopy
  <2>2. samples' \in Seq(Gens) /\ Len(samples') = Len(samples) - n
    BY <2>1
  <2> QED BY <1>10, <2>2, SMTT(30) DEF CallbackCopy
<1>11. CASE UNCHANGED vars
  BY <1>1, <1>11 DEF vars
<1> QED
  BY <1>2, <1>3, <1>4, <1>5, <1>6, <1>7, <1>8, <1>9, <1>10, <1>11
  DEF Next, UI, PacketReader, Resampler, AudioCallback

(* So they are in every reachable state.                                    *)
LEMMA DataInductive == Spec => [](ControlInv /\ DataInv)
<1>1. Init => DataInv
  <2> SUFFICES ASSUME Init PROVE DataInv
    OBVIOUS
  <2>1. 0 \in Gens /\ << >> \in Seq(Gens) /\ Len(<< >>) = 0
    BY BoundsAssumption DEF Gens
  <2> QED BY <2>1, BoundsAssumption DEF Init, DataInv
<1> QED BY <1>1, ControlInductive, DataStep, PTL DEF Spec

(* Every state of the seek protocol is well typed, for any number of seeks  *)
(* and any sizes: no queue grows past its limit, no decoder keeps more than *)
(* its delay, and no more seeks are performed than were asked for           *)
(* (packet_reader_thread, audio_resampler_thread, av_codec_context).        *)
THEOREM TypeCorrect == Spec => []TypeOK
<1>1. ControlInv /\ DataInv => TypeOK
  BY GenInRange DEF ControlInv, DataInv, TypeOK
<1> QED BY DataInductive, <1>1, PTL
-----------------------------------------------------------------------------
(* The places in decoder and queue that the results of read_frame are from: *)
(* the frame's first, then the decoder's, then the queue's.                 *)
Places(r, decoder, queue, delay, f, k) ==
    /\ f = 1 => /\ 1 \in 1 .. Len(decoder) + Len(queue)
                /\ r.frame = Nth(decoder, queue, 1) /\ Len(r.decoder) = delay
                /\ Len(decoder) + Len(queue) > delay
    /\ f = 0 => r.frame = None
    /\ \A i \in 1 .. Len(r.decoder) : /\ i + f \in 1 .. Len(decoder) + Len(queue)
                                      /\ r.decoder[i] = Nth(decoder, queue, i + f)
    /\ \A i \in 1 .. Len(r.queue) : /\ k + i \in 1 .. Len(decoder) + Len(queue)
                                    /\ r.queue[i] = Nth(decoder, queue, k + i)
    /\ Len(r.decoder) + f <= k /\ Len(decoder) <= k

(* Every result of read_frame comes from such places.                        *)
LEMMA ReadFramePlaces ==
    ASSUME NEW delay \in Nat, NEW decoder \in Seq(Gens), NEW queue \in Seq(Gens),
           Len(decoder) <= delay, NEW r \in ReadFrame(decoder, queue, delay)
    PROVE  /\ r.decoder \in Seq(Gens) /\ r.queue \in Seq(Gens)
           /\ \E f \in {0, 1}, k \in Nat : Places(r, decoder, queue, delay, f, k)
<1>1. /\ r.decoder \in Seq(Gens) /\ r.queue \in Seq(Gens)
      /\ FrameOut(r, decoder, queue, delay) \/ NoFrameOut(r, decoder, queue, delay)
  BY ReadFrameOutcomes
<1>2. CASE FrameOut(r, decoder, queue, delay)
  <2>1. /\ 1 \in 1 .. Len(decoder) + Len(queue)
        /\ \A i \in 1 .. Len(r.decoder) : i + 1 \in 1 .. Len(decoder) + Len(queue)
        /\ \A i \in 1 .. Len(r.queue) : delay + 1 + i \in 1 .. Len(decoder) + Len(queue)
    BY <1>1, <1>2 DEF FrameOut
  <2>2. Len(r.decoder) + 1 <= delay + 1 /\ Len(decoder) <= delay + 1
    BY <1>2 DEF FrameOut
  <2>3. Places(r, decoder, queue, delay, 1, delay + 1)
    BY <1>2, <2>1, <2>2 DEF FrameOut, Places
  <2> QED BY <1>1, <2>3
<1>3. CASE NoFrameOut(r, decoder, queue, delay)
  <2>1. PICK k \in 1 .. Len(queue) + 1 :
        /\ r.frame = None
        /\ Len(r.decoder) = Len(decoder) + k - 1 /\ Len(r.decoder) <= delay
        /\ Len(r.queue) = (IF k > Len(queue) THEN 0 ELSE Len(queue) - k)
        /\ \A i \in 1 .. Len(r.decoder) : r.decoder[i] = Nth(decoder, queue, i)
        /\ \A i \in 1 .. Len(r.queue) : r.queue[i] = Nth(decoder, queue, Len(decoder) + k + i)
    BY <1>3 DEF NoFrameOut
  <2>2. \A i \in 1 .. Len(r.decoder) : i + 0 \in 1 .. Len(decoder) + Len(queue) /\ i + 0 = i
    BY <1>1, <2>1
  <2>3. \A i \in 1 .. Len(r.queue) : Len(decoder) + k + i \in 1 .. Len(decoder) + Len(queue)
    BY <1>1, <2>1
  <2>4. Len(r.decoder) + 0 <= Len(decoder) + k /\ Len(decoder) <= Len(decoder) + k
    BY <2>1
  <2>5. Places(r, decoder, queue, delay, 0, Len(decoder) + k)
    BY <2>1, <2>2, <2>3, <2>4 DEF Places
  <2>6. Len(decoder) + k \in Nat
    OBVIOUS
  <2> QED BY <1>1, <2>5, <2>6
<1> QED BY <1>1, <1>2, <1>3

(* The resampler takes a frame: hand, adec and audio come from such places. *)
LEMMA TakePlaces ==
    ASSUME DataInv, ResampleTake
    PROVE  \E r \in ReadFrame(adec, audio, AudioDelay), f \in {0, 1}, k \in Nat :
               /\ Places(r, adec, audio, AudioDelay, f, k)
               /\ hand' = r.frame /\ adec' = r.decoder /\ audio' = r.queue
               /\ r.decoder \in Seq(Gens) /\ r.queue \in Seq(Gens)
<1>1. PICK r \in ReadFrame(adec, audio, AudioDelay) :
          hand' = r.frame /\ adec' = r.decoder /\ audio' = r.queue
  BY DEF ResampleTake, ReadAudioFrame
<1>2. /\ AudioDelay \in Nat /\ Len(adec) <= AudioDelay
      /\ adec \in Seq(Gens) /\ audio \in Seq(Gens)
  BY BoundsAssumption DEF DataInv
<1>3. /\ r.decoder \in Seq(Gens) /\ r.queue \in Seq(Gens)
      /\ \E f \in {0, 1}, k \in Nat : Places(r, adec, audio, AudioDelay, f, k)
  BY <1>2, ReadFramePlaces
<1>4. PICK f \in {0, 1}, k \in Nat : Places(r, adec, audio, AudioDelay, f, k)
  BY <1>3
<1> QED BY <1>1, <1>3, <1>4

(* The sound path, place by place.                                          *)
Shift == IF hand = None THEN 0 ELSE 1

OnPath(i) ==
    IF i <= Len(samples) THEN samples[i]
    ELSE IF i <= Len(samples) + Shift THEN hand ELSE adec[i - Len(samples) - Shift]

(* Each place of the sound path holds what OnPath says.                     *)
LEMMA PathPlaces ==
    ASSUME DataInv
    PROVE  /\ SoundPath \in Seq(Gens) /\ DOMAIN SoundPath = 1 .. Len(SoundPath)
           /\ Len(SoundPath) = Len(samples) + Shift + Len(adec)
           /\ \A i \in 1 .. Len(SoundPath) : SoundPath[i] = OnPath(i)
<1> DEFINE front == samples \o InHand
<1>1. samples \in Seq(Gens) /\ adec \in Seq(Gens)
  BY DEF DataInv
<1>2. InHand \in Seq(Gens) /\ Len(InHand) = Shift /\ (hand # None => InHand[1] = hand)
  <2>1. CASE hand = None
    BY <2>1 DEF InHand, Shift
  <2>2. CASE hand # None
    <3>1. hand \in Gens /\ InHand = <<hand>> /\ Shift = 1
      BY <2>2 DEF InHand, Shift, DataInv
    <3> QED BY <3>1
  <2> QED BY <2>1, <2>2
<1>3. /\ front \in Seq(Gens) /\ Len(front) = Len(samples) + Shift
      /\ \A i \in 1 .. Len(samples) + Shift : front[i] = Nth(samples, InHand, i)
  BY <1>1, <1>2, NthOfConcatenation
<1>4. SoundPath = front \o adec
  BY <1>1, <1>2 DEF SoundPath
<1> HIDE DEF front
<1>5. /\ SoundPath \in Seq(Gens) /\ Len(SoundPath) = Len(samples) + Shift + Len(adec)
      /\ \A i \in 1 .. Len(samples) + Shift + Len(adec) : SoundPath[i] = Nth(front, adec, i)
  <2>1. /\ Len(front \o adec) = Len(front) + Len(adec) /\ front \o adec \in Seq(Gens)
        /\ \A i \in 1 .. Len(front) + Len(adec) : (front \o adec)[i] = Nth(front, adec, i)
    BY <1>1, <1>3, NthOfConcatenation
  <2> QED BY <1>3, <1>4, <2>1
<1>6. Shift \in {0, 1} /\ (Shift = 1 => hand # None)
  BY DEF Shift
<1>7. ASSUME NEW i \in 1 .. Len(SoundPath)
      PROVE  SoundPath[i] = OnPath(i)
  <2>1. CASE i <= Len(samples)
    BY <1>1, <1>3, <1>5, <1>6, <2>1 DEF Nth, OnPath
  <2>2. CASE ~(i <= Len(samples)) /\ i <= Len(samples) + Shift
    <3>1. Shift = 1 /\ i - Len(samples) = 1 /\ i \in 1 .. Len(samples) + Shift
      BY <1>1, <1>5, <1>6, <2>2
    <3> QED BY <1>2, <1>3, <1>5, <1>6, <2>2, <3>1 DEF Nth, OnPath
  <2>3. CASE ~(i <= Len(samples) + Shift)
    <3>1. ~(i <= Len(samples)) /\ i - (Len(samples) + Shift) = i - Len(samples) - Shift
      BY <1>1, <1>5, <1>6, <2>3
    <3> QED BY <1>3, <1>5, <2>3, <3>1 DEF Nth, OnPath
  <2> QED BY <2>1, <2>2, <2>3
<1> QED BY <1>5, <1>7
-----------------------------------------------------------------------------
(* What is left of before a seek. *)

AllNow(s) == \A i \in 1 .. Len(s) : s[i] = gen

QueuesNow == reader_pc # "flush_packets" => AllNow(audio) /\ AllNow(video)

(* What stays queued was queued, and a frame comes out of a decoder only if *)
(* a queued packet takes the last place in it.                              *)
LEMMA FromQueue ==
    ASSUME NEW delay \in Nat, NEW decoder \in Seq(Gens), NEW queue \in Seq(Gens),
           Len(decoder) <= delay, NEW r \in ReadFrame(decoder, queue, delay)
    PROVE  /\ \A i \in 1 .. Len(r.queue) : \E j \in 1 .. Len(queue) : r.queue[i] = queue[j]
           /\ r.frame # None =>
                \E j \in 1 .. Len(queue) :
                    IF delay = 0 THEN r.frame = queue[j]
                    ELSE Len(r.decoder) = delay /\ r.decoder[delay] = queue[j]
<1>1. /\ r.decoder \in Seq(Gens) /\ r.queue \in Seq(Gens)
      /\ \E f \in {0, 1}, k \in Nat : Places(r, decoder, queue, delay, f, k)
  BY ReadFramePlaces
<1>2. PICK f \in {0, 1}, k \in Nat : Places(r, decoder, queue, delay, f, k)
  BY <1>1
<1>3. ASSUME NEW i \in 1 .. Len(r.queue)
      PROVE  \E j \in 1 .. Len(queue) : r.queue[i] = queue[j]
  <2>1. /\ k + i \in 1 .. Len(decoder) + Len(queue) /\ r.queue[i] = Nth(decoder, queue, k + i)
        /\ Len(decoder) <= k
    BY <1>2 DEF Places
  <2>2. k + i - Len(decoder) \in 1 .. Len(queue) /\ ~(k + i <= Len(decoder))
    BY <2>1
  <2> QED BY <2>1, <2>2 DEF Nth
<1>4. ASSUME r.frame # None
      PROVE  \E j \in 1 .. Len(queue) :
                 IF delay = 0 THEN r.frame = queue[j]
                 ELSE Len(r.decoder) = delay /\ r.decoder[delay] = queue[j]
  <2>1. /\ f = 1 /\ r.frame = Nth(decoder, queue, 1) /\ Len(r.decoder) = delay
        /\ Len(decoder) + Len(queue) > delay
    BY <1>2, <1>4 DEF Places
  <2>2. /\ delay + 1 - Len(decoder) \in 1 .. Len(queue) /\ ~(delay + 1 <= Len(decoder))
        /\ Nth(decoder, queue, delay + 1) = queue[delay + 1 - Len(decoder)]
    BY <2>1 DEF Nth
  <2>3. CASE delay = 0
    BY <2>1, <2>2, <2>3
  <2>4. CASE delay # 0
    <3>1. r.decoder[delay] = Nth(decoder, queue, delay + 1)
      <4>1. delay \in 1 .. Len(r.decoder)
        BY <2>1, <2>4
      <4> QED BY <1>2, <2>1, <4>1 DEF Places
    <3> QED BY <2>1, <2>2, <2>4, <3>1
  <2> QED BY <2>3, <2>4
<1> QED BY <1>3, <1>4

(* But for the moment between the seek and the flush, only packets of the   *)
(* present position are queued.                                             *)
LEMMA QueuesStep ==
    ASSUME ControlInv, DataInv, QueuesNow, [Next]_vars
    PROVE  QueuesNow'
<1> USE DEF control, request, reader, queues, codecs, sound, picture
<1>1. ASSUME UNCHANGED <<gen, audio, video>>, reader_pc' = reader_pc \/ reader_pc # "flush_packets"
      PROVE  QueuesNow'
  BY <1>1 DEF QueuesNow, AllNow
<1>2. CASE StartStop \/ PauseResume \/ SeekBegin \/ SeekCasReady \/ SeekCasWaiting
           \/ RenderClear \/ UNCHANGED vars
  BY <1>1, <1>2 DEF StartStop, PauseResume, SeekBegin, SeekCasReady, SeekCasWaiting, SeekCas,
     RenderClear, vars
<1>3. CASE RenderAfterFlush \/ RenderNext
  <2>1. ReadVideoFrame /\ UNCHANGED <<gen, audio, reader_pc>>
    BY <1>3 DEF RenderAfterFlush, RenderNext
  <2>2. PICK r \in ReadFrame(vdec, video, VideoDelay) : video' = r.queue
    BY <2>1 DEF ReadVideoFrame
  <2>3. VideoDelay \in Nat /\ vdec \in Seq(Gens) /\ video \in Seq(Gens) /\ Len(vdec) <= VideoDelay
    BY BoundsAssumption DEF DataInv
  <2>4. \A i \in 1 .. Len(r.queue) : \E j \in 1 .. Len(video) : r.queue[i] = video[j]
    BY <2>3, FromQueue
  <2>5. \A i \in 1 .. Len(video') : \E j \in 1 .. Len(video) : video'[i] = video[j]
    BY <2>2, <2>4
  <2> QED BY <2>1, <2>5 DEF QueuesNow, AllNow
<1>4. CASE \/ ReaderLoop \/ CheckSeekPosition \/ SignalFlushStart \/ SignalFlushDone
           \/ StoreFlushDone \/ StoreWaiting \/ CheckSeekCompleted
           \/ FallbackStore \/ FallbackInSync \/ TimerExpires \/ FlushSamplesQueue
  BY <1>1, <1>4 DEF ReaderLoop, CheckSeekPosition, SignalFlushStart,
     SignalFlushDone, StoreFlushDone, StoreWaiting, CheckSeekCompleted,
     FallbackStore, FallbackInSync, TimerExpires, FlushSamplesQueue
<1>5. CASE CallbackBegin \/ CallbackAdjust \/ CallbackSync \/ CallbackCopy \/ ResamplePush
  BY <1>1, <1>5 DEF CallbackBegin, CallbackAdjust, CallbackSync, CallbackCopy, ResamplePush
<1>6. CASE FillOld \/ FillNew \/ FillQueues
  <2>1. /\ gen' = gen /\ reader_pc # "flush_packets"
        /\ \/ UNCHANGED <<audio, video>>
           \/ \E fill \in {FillLevel, FillLevel + 1} : ReadPacketsToQueues(fill)
    BY <1>6 DEF FillOld, FillNew, FillQueues
  <2>2. CASE UNCHANGED <<audio, video>>
    BY <1>1, <2>1, <2>2
  <2>3. ASSUME NEW fill \in {FillLevel, FillLevel + 1}, ReadPacketsToQueues(fill)
        PROVE  QueuesNow'
    <3>1. Filled(audio', audio, MaxAudio) /\ Filled(video', video, FillLevel + 1)
      BY <2>3, ReadPackets, GenInRange, BoundsAssumption
    <3>2. AllNow(audio) /\ AllNow(video) /\ Len(audio) \in Nat /\ Len(video) \in Nat
      BY <2>1 DEF QueuesNow, DataInv
    <3>3. \A i \in 1 .. Len(audio') : audio'[i] = gen
      BY <3>1, <3>2 DEF Filled, AllNow
    <3>4. \A i \in 1 .. Len(video') : video'[i] = gen
      BY <3>1, <3>2 DEF Filled, AllNow
    <3> QED BY <2>1, <3>3, <3>4 DEF QueuesNow, AllNow
  <2> QED BY <2>1, <2>2, <2>3
<1>7. CASE SeekTimePos
  BY <1>7 DEF SeekTimePos, QueuesNow
<1>8. CASE FlushPacketQueues
  <2>1. audio' = << >> /\ video' = << >>
    BY <1>8 DEF FlushPacketQueues
  <2> QED BY <2>1 DEF QueuesNow, AllNow
<1>9. CASE ResampleTake
  <2>1. PICK r \in ReadFrame(adec, audio, AudioDelay) : audio' = r.queue
    BY <1>9 DEF ResampleTake, ReadAudioFrame
  <2>2. AudioDelay \in Nat /\ adec \in Seq(Gens) /\ audio \in Seq(Gens) /\ Len(adec) <= AudioDelay
    BY BoundsAssumption DEF DataInv
  <2>3. \A i \in 1 .. Len(r.queue) : \E j \in 1 .. Len(audio) : r.queue[i] = audio[j]
    BY <2>2, FromQueue
  <2>4. \A i \in 1 .. Len(audio') : \E j \in 1 .. Len(audio) : audio'[i] = audio[j]
    BY <2>1, <2>3
  <2> QED BY <1>9, <2>4 DEF ResampleTake, QueuesNow, AllNow
<1> QED
  BY <1>2, <1>3, <1>4, <1>5, <1>6, <1>7, <1>8, <1>9
  DEF Next, UI, PacketReader, Resampler, AudioCallback

(* The last place of the video decoder holds a frame of the present         *)
(* position, or none has come out of it.                                    *)
FreshPicture ==
    \/ frame = None
    \/ IF VideoDelay = 0 THEN frame = gen ELSE Len(vdec) = VideoDelay /\ vdec[VideoDelay] = gen

PictureInv ==
    /\ \/ handle_flush_done
       \/ reader_pc \in {"flush_packets", "flush_samples", "fill_new", "signal_done"}
       \/ FreshPicture
    /\ ui_pc = "clear" => FreshPicture

(* Every step keeps it so while the renderer need not be told of a flush.   *)
LEMMA PictureStep ==
    ASSUME ControlInv, DataInv, QueuesNow, PictureInv, [Next]_vars
    PROVE  PictureInv'
<1> USE DEF control, request, reader, queues, codecs, sound, picture
<1>1. ASSUME UNCHANGED <<gen, vdec, frame>>, handle_flush_done => handle_flush_done',
             ui_pc' = "clear" => ui_pc = "clear",
             \/ reader_pc \notin {"flush_packets", "flush_samples", "fill_new", "signal_done"}
             \/ reader_pc' \in {"flush_packets", "flush_samples", "fill_new", "signal_done"}
             \/ handle_flush_done'
      PROVE  PictureInv'
  BY <1>1 DEF PictureInv, FreshPicture
<1>2. CASE StartStop \/ PauseResume \/ SeekBegin \/ SeekCasReady \/ SeekCasWaiting
           \/ UNCHANGED vars
  BY <1>1, <1>2 DEF StartStop, PauseResume, SeekBegin, SeekCasReady, SeekCasWaiting, SeekCas,
     vars
<1>3. CASE RenderAfterFlush \/ RenderNext
  <2>1. ReadVideoFrame /\ gen' = gen /\ seek_state = "ready"
    BY <1>3 DEF RenderAfterFlush, RenderNext
  <2>2. PICK r \in ReadFrame(vdec, video, VideoDelay) : frame' = r.frame /\ vdec' = r.decoder
    BY <2>1 DEF ReadVideoFrame
  <2>3. r.frame # None =>
            \E j \in 1 .. Len(video) :
                IF VideoDelay = 0 THEN r.frame = video[j]
                ELSE Len(r.decoder) = VideoDelay /\ r.decoder[VideoDelay] = video[j]
    <3>1. /\ VideoDelay \in Nat /\ Len(vdec) <= VideoDelay
          /\ vdec \in Seq(Gens) /\ video \in Seq(Gens)
      BY BoundsAssumption DEF DataInv
    <3> QED BY <3>1, FromQueue
  <2>4. AllNow(video)
    BY <2>1 DEF ControlInv, FlushingIsExclusive, FlushPcs, QueuesNow
  <2>5. FreshPicture'
    <3>1. CASE r.frame = None
      BY <2>2, <3>1 DEF FreshPicture
    <3>2. CASE r.frame # None
      <4>1. PICK j \in 1 .. Len(video) :
                IF VideoDelay = 0 THEN r.frame = video[j]
                ELSE Len(r.decoder) = VideoDelay /\ r.decoder[VideoDelay] = video[j]
        BY <2>3, <3>2
      <4>2. video[j] = gen
        BY <2>4 DEF AllNow
      <4> QED BY <2>1, <2>2, <4>1, <4>2 DEF FreshPicture
    <3> QED BY <3>1, <3>2
  <2> QED BY <2>5 DEF PictureInv
<1>4. CASE RenderClear
  BY <1>4 DEF RenderClear, PictureInv, FreshPicture
<1>5. CASE SeekTimePos
  <2>1. reader_pc' = "flush_packets" /\ ui_pc' = ui_pc /\ ui_pc # "clear"
    BY <1>5 DEF SeekTimePos, ControlInv, FlushingIsExclusive, FlushPcs
  <2> QED BY <2>1 DEF PictureInv
<1>6. CASE \/ ReaderLoop \/ CheckSeekPosition \/ SignalFlushStart \/ FillOld \/ FlushPacketQueues
           \/ FlushSamplesQueue \/ FillNew \/ SignalFlushDone
           \/ StoreFlushDone \/ StoreWaiting \/ CheckSeekCompleted
           \/ FallbackStore \/ FallbackInSync \/ FillQueues \/ TimerExpires
  BY <1>1, <1>6 DEF ReaderLoop, CheckSeekPosition, SignalFlushStart, FillOld, FlushPacketQueues,
     FlushSamplesQueue, FillNew, SignalFlushDone, StoreFlushDone, StoreWaiting,
     CheckSeekCompleted, FallbackStore, FallbackInSync, FillQueues, TimerExpires
<1>7. CASE Resampler \/ AudioCallback
  BY <1>1, <1>7 DEF Resampler, ResampleTake, ResamplePush, AudioCallback, CallbackBegin,
     CallbackAdjust, CallbackSync, CallbackCopy
<1> QED BY <1>2, <1>3, <1>4, <1>5, <1>6, <1>7 DEF Next, UI, PacketReader

(* After the flush every place of the sound path behind the first           *)
(* AudioDelay + 1 holds sound of the present position.                      *)
SoundNow ==
    reader_pc \notin {"flush_packets", "flush_samples"} =>
        /\ \A i \in 1 .. Len(samples) : i > AudioDelay + 1 => samples[i] = gen
        /\ hand # None /\ Len(samples) > AudioDelay => hand = gen
        /\ \A i \in 1 .. Len(adec) : Len(samples) + Shift + i > AudioDelay + 1 => adec[i] = gen

(* Taking a frame moves no sound of before the seek further back.           *)
LEMMA SoundTake ==
    ASSUME ControlInv, DataInv, QueuesNow, SoundNow, ResampleTake
    PROVE  SoundNow'
<1> DEFINE total == Len(adec) + Len(audio)
           nth(i) == Nth(adec, audio, i)
<1>1. PICK r \in ReadFrame(adec, audio, AudioDelay), f \in {0, 1}, k \in Nat :
          /\ Places(r, adec, audio, AudioDelay, f, k)
          /\ hand' = r.frame /\ adec' = r.decoder /\ audio' = r.queue
          /\ r.decoder \in Seq(Gens) /\ r.queue \in Seq(Gens)
  BY TakePlaces
<1>2. UNCHANGED <<samples, gen, reader_pc>> /\ hand = None
  BY DEF ResampleTake, control, request, reader
<1>3. CASE reader_pc \in {"flush_packets", "flush_samples"}
  BY <1>2, <1>3 DEF SoundNow
<1>4. CASE reader_pc \notin {"flush_packets", "flush_samples"}
  <2>1. /\ AllNow(audio) /\ Shift = 0 /\ AudioDelay \in Nat /\ Len(samples) \in Nat
        /\ Len(adec) \in Nat /\ Len(audio) \in Nat
    BY <1>2, <1>4, BoundsAssumption DEF QueuesNow, Shift, DataInv
  <2>2. ASSUME NEW i \in 1 .. total, Len(samples) + i > AudioDelay + 1
        PROVE  nth(i) = gen
    <3>1. CASE i <= Len(adec)
      BY <1>4, <2>1, <2>2, <3>1 DEF Nth, SoundNow
    <3>2. CASE ~(i <= Len(adec))
      <4>1. i - Len(adec) \in 1 .. Len(audio)
        BY <2>1, <3>2
      <4> QED BY <2>1, <3>2, <4>1 DEF Nth, AllNow
    <3> QED BY <3>1, <3>2
  <2>3. /\ f = 1 => 1 \in 1 .. total /\ hand' = nth(1)
        /\ f = 0 => hand' = None
        /\ \A i \in 1 .. Len(adec') : i + f \in 1 .. total /\ adec'[i] = nth(i + f)
    BY <1>1 DEF Places
  <2>4. f = 1 => Shift' = 1
    <3>1. \A i \in 1 .. total : nth(i) \in Gens
      BY NthOfConcatenation DEF DataInv
    <3> QED BY <2>3, <3>1, BoundsAssumption DEF Shift, Gens
  <2>5. f = 0 => Shift' = 0
    BY <2>3 DEF Shift
  <2> HIDE DEF total, nth
  <2>6. hand' # None /\ Len(samples) > AudioDelay => hand' = gen
    BY <2>1, <2>2, <2>3
  <2>7. \A i \in 1 .. Len(adec') : Len(samples) + Shift' + i > AudioDelay + 1 => adec'[i] = gen
    BY <2>1, <2>2, <2>3, <2>4, <2>5
  <2> QED BY <1>2, <1>4, <2>6, <2>7 DEF SoundNow
<1> QED BY <1>3, <1>4

(* Every step keeps sound of before the seek within those places.           *)
LEMMA SoundStep ==
    ASSUME ControlInv, DataInv, QueuesNow, SoundNow, [Next]_vars
    PROVE  SoundNow'
<1> USE DEF control, request, reader, queues, codecs, sound, picture
<1>1. ASSUME UNCHANGED <<gen, samples, hand, adec>>,
             \/ reader_pc' = reader_pc \/ reader_pc' = "flush_samples"
             \/ reader_pc \notin {"flush_packets", "flush_samples"}
      PROVE  SoundNow'
  BY <1>1 DEF SoundNow, Shift
<1>2. CASE UI \/ UNCHANGED vars
  BY <1>1, <1>2 DEF UI, StartStop, PauseResume, SeekBegin, SeekCasReady, SeekCasWaiting, SeekCas,
     RenderAfterFlush, RenderClear, RenderNext, vars
<1>3. CASE \/ ReaderLoop \/ CheckSeekPosition \/ SignalFlushStart \/ FillOld \/ FlushPacketQueues
           \/ FillNew \/ SignalFlushDone \/ StoreFlushDone \/ StoreWaiting \/ CheckSeekCompleted
           \/ FallbackStore \/ FallbackInSync \/ FillQueues \/ TimerExpires
  BY <1>1, <1>3 DEF ReaderLoop, CheckSeekPosition, SignalFlushStart, FillOld, FlushPacketQueues,
     FillNew, SignalFlushDone, StoreFlushDone, StoreWaiting,
     CheckSeekCompleted, FallbackStore, FallbackInSync, FillQueues, TimerExpires
<1>4. CASE SeekTimePos
  BY <1>4 DEF SeekTimePos, SoundNow
<1>5. CASE FlushSamplesQueue
  <2>1. samples' = << >> /\ UNCHANGED <<gen, hand, adec>>
    BY <1>5 DEF FlushSamplesQueue
  <2>2. /\ Len(samples') = 0 /\ AudioDelay \in Nat /\ Len(adec) \in Nat /\ Len(adec) <= AudioDelay
        /\ Shift \in {0, 1} /\ Shift' = Shift
    BY <2>1, BoundsAssumption DEF DataInv, Shift
  <2>3. \A i \in 1 .. Len(adec) : ~(Len(samples') + Shift + i > AudioDelay + 1)
    BY <2>2
  <2> QED BY <2>1, <2>2, <2>3 DEF SoundNow
<1>6. CASE ResampleTake
  BY <1>6, SoundTake
<1>7. CASE ResamplePush
  <2>1. /\ hand # None /\ samples' = Append(samples, hand) /\ hand' = None
        /\ UNCHANGED <<gen, adec, reader_pc>>
    BY <1>7 DEF ResamplePush
  <2>2. /\ Len(samples') = Len(samples) + 1 /\ Len(samples) \in Nat /\ AudioDelay \in Nat
        /\ \A i \in 1 .. Len(samples) : samples'[i] = samples[i]
        /\ samples'[Len(samples) + 1] = hand /\ Shift = 1 /\ Shift' = 0
    BY <2>1, BoundsAssumption DEF DataInv, Shift
  <2>3. \A i \in 1 .. Len(samples') : i \in 1 .. Len(samples) \/ i = Len(samples) + 1
    BY <2>2
  <2>4. \A i : Len(samples') + Shift' + i = Len(samples) + Shift + i
    BY <2>2
  <2> QED BY <2>1, <2>2, <2>3, <2>4 DEF SoundNow
<1>8. CASE CallbackBegin \/ CallbackAdjust \/ CallbackSync
  BY <1>1, <1>8 DEF CallbackBegin, CallbackAdjust, CallbackSync
<1>9. CASE CallbackCopy
  <2>1. UNCHANGED <<gen, hand, adec, reader_pc>>
    BY <1>9 DEF CallbackCopy
  <2>2. PICK n \in 0 .. Len(samples) : samples' = SubSeq(samples, n + 1, Len(samples))
    BY <1>9 DEF CallbackCopy
  <2>3. /\ Len(samples') = Len(samples) - n /\ Len(samples) \in Nat /\ Len(adec) \in Nat
        /\ \A i \in 1 .. Len(samples') : samples'[i] = samples[n + i]
        /\ AudioDelay \in Nat /\ Shift' = Shift /\ Shift \in {0, 1}
    <3>1. samples \in Seq(Gens) /\ Len(samples) \in Nat /\ Len(adec) \in Nat
      BY DEF DataInv
    <3>2. /\ Len(samples') = Len(samples) - n
          /\ \A i \in 1 .. Len(samples') : samples'[i] = samples[n + i]
      BY <2>2, <3>1
    <3>3. AudioDelay \in Nat /\ Shift' = Shift /\ Shift \in {0, 1}
      BY <2>1, BoundsAssumption DEF Shift
    <3> QED BY <3>1, <3>2, <3>3
  <2>4. \A i \in 1 .. Len(samples') : n + i \in 1 .. Len(samples) /\ n + i >= i
    BY <2>3
  <2>5. SoundNow => SoundNow'
    <3> SUFFICES ASSUME reader_pc \notin {"flush_packets", "flush_samples"}, SoundNow
                 PROVE  SoundNow'
      BY <2>1 DEF SoundNow
    <3>1. \A i \in 1 .. Len(samples') : i > AudioDelay + 1 => samples'[i] = gen
      BY <2>3, <2>4, SMTT(30) DEF SoundNow
    <3>2. hand # None /\ Len(samples') > AudioDelay => hand = gen
      BY <2>3 DEF SoundNow
    <3>3. \A i \in 1 .. Len(adec) : Len(samples') + Shift + i > AudioDelay + 1 => adec[i] = gen
      BY <2>3 DEF SoundNow
    <3> QED BY <2>1, <2>3, <3>1, <3>2, <3>3 DEF SoundNow
  <2> QED BY <2>5
<1> QED
  BY <1>2, <1>3, <1>4, <1>5, <1>6, <1>7, <1>8, <1>9
  DEF Next, PacketReader, Resampler, AudioCallback

(* The three hold in every reachable state.                                 *)
LEMMA LeftoversInductive ==
    Spec => [](ControlInv /\ DataInv /\ QueuesNow /\ PictureInv /\ SoundNow)
<1>1. Init => QueuesNow /\ PictureInv /\ SoundNow
  BY BoundsAssumption DEF Init, QueuesNow, AllNow, PictureInv, FreshPicture, SoundNow, Shift
<1> QED BY <1>1, DataInductive, QueuesStep, PictureStep, SoundStep, PTL DEF Spec

(* A set of places within 1 .. n or 2 .. n + 1 has at most n elements.      *)
LEMMA FewPlaces ==
    ASSUME NEW n \in Nat, NEW S, S \subseteq 1 .. n \/ S \subseteq 2 .. n + 1
    PROVE  Cardinality(S) <= n
<1>1. /\ IsFiniteSet(1 .. n) /\ Cardinality(1 .. n) = n
      /\ IsFiniteSet(2 .. n + 1) /\ Cardinality(2 .. n + 1) = n
  <2>1. /\ IsFiniteSet(1 .. n)
        /\ Cardinality(1 .. n) = IF 1 > n THEN 0 ELSE n - 1 + 1
    BY FS_Interval
  <2>2. /\ IsFiniteSet(2 .. n + 1)
        /\ Cardinality(2 .. n + 1) = IF 2 > n + 1 THEN 0 ELSE n + 1 - 2 + 1
    BY FS_Interval
  <2> QED BY <2>1, <2>2
<1>2. \A T : IsFiniteSet(T) /\ S \subseteq T => Cardinality(S) <= Cardinality(T)
  BY FS_Subset
<1> QED BY <1>1, <1>2

(* Once a flush is over no packet of before the seek is queued, and at most *)
(* AudioDelay + 1 frames of sound of before it can still be played, for any *)
(* number of seeks and any sizes (pipeline_threads::flush_queues).          *)
THEOREM StaleSoundIsBounded == Spec => []StaleSoundBounded
<1>1. ASSUME ControlInv, DataInv, QueuesNow, SoundNow, seek_state # "flushing"
      PROVE  /\ Stale(audio) = {} /\ Stale(video) = {}
             /\ Cardinality(Stale(SoundPath)) <= AudioDelay + 1
  <2>1. reader_pc \notin {"flush_packets", "flush_samples"}
    BY <1>1 DEF ControlInv, FlushingIsExclusive, FlushPcs
  <2>2. Stale(audio) = {} /\ Stale(video) = {}
    BY <1>1, <2>1 DEF QueuesNow, AllNow, Stale, DataInv
  <2>3. ASSUME NEW i \in Stale(SoundPath)
        PROVE  i \in 1 .. AudioDelay + 1
    <3>1. /\ i \in 1 .. Len(samples) + Shift + Len(adec) /\ OnPath(i) # gen
      BY <1>1, PathPlaces DEF Stale
    <3>2. /\ Len(samples) \in Nat /\ Len(adec) \in Nat /\ AudioDelay \in Nat
          /\ Shift \in {0, 1} /\ (Shift = 1 => hand # None)
      BY <1>1, BoundsAssumption DEF DataInv, Shift
    <3>3. CASE i <= Len(samples)
      <4>1. i \in 1 .. Len(samples)
        BY <3>1, <3>2, <3>3
      <4> QED BY <1>1, <2>1, <3>1, <3>2, <3>3, <4>1 DEF OnPath, SoundNow
    <3>4. CASE ~(i <= Len(samples)) /\ i <= Len(samples) + Shift
      <4>1. hand # None /\ i = Len(samples) + 1
        BY <3>1, <3>2, <3>4
      <4> QED BY <1>1, <2>1, <3>1, <3>2, <3>4, <4>1 DEF OnPath, SoundNow
    <3>5. CASE ~(i <= Len(samples) + Shift)
      <4>1. /\ ~(i <= Len(samples)) /\ i - Len(samples) - Shift \in 1 .. Len(adec)
            /\ Len(samples) + Shift + (i - Len(samples) - Shift) = i
        BY <3>1, <3>2, <3>5
      <4> QED BY <1>1, <2>1, <3>1, <3>2, <3>5, <4>1 DEF OnPath, SoundNow
    <3> QED BY <3>3, <3>4, <3>5
  <2>4. AudioDelay + 1 \in Nat /\ Stale(SoundPath) \subseteq 1 .. AudioDelay + 1
    BY <2>3, BoundsAssumption
  <2> QED BY <2>2, <2>4, FewPlaces
<1>2. ControlInv /\ DataInv /\ QueuesNow /\ SoundNow => StaleSoundBounded
  BY <1>1 DEF StaleSoundBounded
<1> QED BY LeftoversInductive, <1>2, PTL

(* When the render thread has lowered handle_flush_done_, at most           *)
(* VideoDelay pictures of before the seek are left, for any number of seeks *)
(* and any sizes (video_render_thread::video_frame_do_render).              *)
THEOREM StalePictureIsBounded == Spec => []StalePictureBounded
<1>1. ASSUME ControlInv, DataInv, PictureInv, seek_state = "ready", ~handle_flush_done
      PROVE  Cardinality(Stale(<<frame>> \o vdec)) <= VideoDelay
  <2> DEFINE pictures == <<frame>> \o vdec
  <2>1. FreshPicture
    BY <1>1 DEF ControlInv, FlushingIsExclusive, FlushPcs, PictureInv
  <2>2. VideoDelay \in Nat /\ vdec \in Seq(Gens) /\ Len(vdec) \in Nat /\ Len(vdec) <= VideoDelay
    BY <1>1, BoundsAssumption DEF DataInv
  <2>3. /\ DOMAIN pictures = 1 .. Len(vdec) + 1 /\ pictures[1] = frame
        /\ \A i \in 1 .. Len(vdec) : pictures[i + 1] = vdec[i]
    <3>1. /\ <<frame>> \in Seq(Gens \cup {None}) /\ vdec \in Seq(Gens \cup {None})
          /\ Len(<<frame>>) = 1 /\ <<frame>>[1] = frame
      BY <1>1 DEF DataInv
    <3> QED BY <2>2, <3>1
  <2> HIDE DEF pictures
  <2>4. CASE frame = None \/ (VideoDelay = 0 /\ frame = gen)
    <3>1. 1 \notin Stale(pictures)
      BY <2>3, <2>4 DEF Stale
    <3>2. Stale(pictures) \subseteq 2 .. VideoDelay + 1
      BY <2>2, <2>3, <3>1 DEF Stale
    <3> QED BY <2>2, <3>2, FewPlaces DEF pictures
  <2>5. CASE VideoDelay # 0 /\ Len(vdec) = VideoDelay /\ vdec[VideoDelay] = gen
    <3>1. VideoDelay + 1 \notin Stale(pictures)
      BY <2>2, <2>3, <2>5 DEF Stale
    <3>2. Stale(pictures) \subseteq 1 .. VideoDelay
      BY <2>2, <2>3, <3>1 DEF Stale
    <3> QED BY <2>2, <3>2, FewPlaces DEF pictures
  <2> QED BY <2>1, <2>4, <2>5 DEF FreshPicture
<1>2. ControlInv /\ DataInv /\ PictureInv => StalePictureBounded
  BY <1>1 DEF StalePictureBounded
<1> QED BY LeftoversInductive, <1>2, PTL
=============================================================================
