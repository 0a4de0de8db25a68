--------------------------- MODULE Subtitles_proofs ---------------------------
(***************************************************************************)
(* Proofs about Subtitles, for any subtitle file, any number of choices,   *)
(* seeks and media, and any sizes of the queues.                           *)
(***************************************************************************)
EXTENDS Subtitles, SequenceTheorems, FiniteSetTheorems, TLAPS

Running == ~Unlocked    \* between two pushes of a pass over a file
Streams == Unlocked /\ reader \notin {Idle, Asking}   \* between two of the medium's own

(* The sequence operations, as their elements (queue push and pop).         *)
LEMMA SequenceOps ==
    ASSUME NEW S, NEW s \in Seq(S), NEW e \in S
    PROVE  /\ Append(s, e) \in Seq(S) /\ Len(Append(s, e)) = Len(s) + 1
           /\ DOMAIN Append(s, e) = 1 .. (Len(s) + 1)
           /\ \A i \in 1 .. Len(s) : Append(s, e)[i] = s[i]
           /\ Append(s, e)[Len(s) + 1] = e
           /\ s # << >> => /\ Head(s) = s[1] /\ Head(s) \in S /\ Tail(s) \in Seq(S)
                           /\ Len(s) \in Nat \ {0} /\ Len(Tail(s)) = Len(s) - 1
                           /\ DOMAIN Tail(s) = 1 .. (Len(s) - 1)
                           /\ \A i \in 1 .. (Len(s) - 1) : Tail(s)[i] = s[i + 1]
<1>1. /\ Append(s, e) \in Seq(S) /\ Len(Append(s, e)) = Len(s) + 1
      /\ DOMAIN Append(s, e) = 1 .. (Len(s) + 1)
      /\ \A i \in 1 .. Len(s) : Append(s, e)[i] = s[i]
      /\ Append(s, e)[Len(s) + 1] = e
    OBVIOUS
<1>2. ASSUME s # << >>
      PROVE  /\ Head(s) = s[1] /\ Head(s) \in S /\ Tail(s) \in Seq(S)
             /\ Len(s) \in Nat \ {0} /\ Len(Tail(s)) = Len(s) - 1
             /\ DOMAIN Tail(s) = 1 .. (Len(s) - 1)
             /\ \A i \in 1 .. (Len(s) - 1) : Tail(s)[i] = s[i + 1]
    BY <1>2
<1> QED
    BY <1>1, <1>2

(* A set of places that is closed towards the front is a beginning.         *)
LEMMA Beginning ==
    ASSUME NEW k \in Nat, NEW S \in SUBSET (1 .. k),
           \A i \in S : \A j \in 1 .. i : j \in S
    PROVE  Cardinality(S) \in 0 .. k /\ S = 1 .. Cardinality(S)
<1>1. /\ IsFiniteSet(S) /\ Cardinality(S) <= k /\ Cardinality(S) \in Nat
    <2>1. IsFiniteSet(1 .. k) /\ Cardinality(1 .. k) = k
        BY FS_Interval
    <2>2. IsFiniteSet(S) /\ Cardinality(S) <= k
        BY <2>1, FS_Subset, ZenonT(40)
    <2> QED
        BY <2>2, FS_CardinalityType
<1> DEFINE c == Cardinality(S)
<1>2. ASSUME NEW i \in S
      PROVE  i <= c
    <2>1. 1 .. i \in SUBSET S
        BY <1>2
    <2>2. Cardinality(1 .. i) = i
        BY FS_Interval
    <2> QED
        BY <1>1, <2>1, <2>2, FS_Subset
<1>3. S \in SUBSET (1 .. c)
    BY <1>1, <1>2
<1>4. IsFiniteSet(1 .. c) /\ Cardinality(1 .. c) = c
    BY <1>1, FS_Interval
<1>5. S = 1 .. c
    BY <1>3, <1>4, FS_Subset
<1> QED
    BY <1>1, <1>5
-----------------------------------------------------------------------------
(* The subtitles of a file *)

Started(n) == Times[n][1] <= SubTime
Ended(n)   == Times[n][2] < SubTime

(* A subtitle that is due.                                                  *)
Due == \E n \in DOMAIN Times : Started(n) /\ ~Ended(n)

(* Whoever begins reading at n misses nothing that is still due, or n is    *)
(* due itself.                                                              *)
Begins(n) ==
    \A m \in DOMAIN Times : m < n => Ended(m) \/ (n \in DOMAIN Times /\ Started(n))

(* The times of a file (subtitle_container's frames).                       *)
LEMMA TimesInOrder ==
    /\ Len(Times) \in Nat /\ DOMAIN Times = 1 .. Len(Times)
    /\ \A n \in DOMAIN Times :
          /\ Times[n][1] \in Nat /\ Times[n][2] \in Nat
          /\ \A m \in DOMAIN Times : m < n => Times[m][1] <= Times[n][1]
<1>1. Len(Times) \in Nat /\ DOMAIN Times = 1 .. Len(Times)
    BY TimesAssumption
<1>2. ASSUME NEW n \in DOMAIN Times
      PROVE  Times[n][1] \in Nat /\ Times[n][2] \in Nat
    <2>1. Times[n] \in Nat \X Nat
        BY <1>1, TimesAssumption
    <2> QED
        BY <2>1
<1>3. \A m, n \in DOMAIN Times : m < n => Times[m][1] <= Times[n][1]
    BY TimesAssumption
<1> QED
    BY <1>1, <1>2, <1>3

(* The binary search (find_first_after).                                    *)
LEMMA FirstAfter ==
    ASSUME NEW ts \in Nat
    PROVE  /\ FindFirstAfter(ts) \in 1 .. Len(Times) + 1
           /\ \A n \in DOMAIN Times : Times[n][1] < ts <=> n < FindFirstAfter(ts)
<1> DEFINE S == {n \in DOMAIN Times : Times[n][1] < ts}
<1>1. ASSUME NEW i \in S, NEW j \in 1 .. i
      PROVE  j \in S
    <2>1. i \in 1 .. Len(Times) /\ j \in DOMAIN Times
        BY TimesInOrder
    <2>2. Times[j][1] <= Times[i][1] /\ Times[j][1] \in Nat /\ Times[i][1] \in Nat
        BY <2>1, TimesInOrder
    <2> QED
        BY <2>1, <2>2
<1>2. S \in SUBSET (1 .. Len(Times))
    BY TimesInOrder
<1>3. Cardinality(S) \in 0 .. Len(Times) /\ S = 1 .. Cardinality(S)
    <2> HIDE DEF S
    <2> QED
        BY <1>1, <1>2, TimesInOrder, Beginning
<1>4. FindFirstAfter(ts) = Cardinality(S) + 1
    BY DEF FindFirstAfter
<1>5. \A n \in DOMAIN Times : Times[n][1] < ts <=> n \in S
    OBVIOUS
<1> HIDE DEF S
<1> QED
    BY <1>3, <1>4, <1>5, TimesInOrder

(* A pass of the reader begins early enough, and one or two subtitles       *)
(* before what is due (find_last_before, set_cur_subtitle_iter).            *)
LEMMA LastBefore ==
    ASSUME WellTimed, SubTime \in Nat
    PROVE  LET n == FindLastBefore(SubTime)
           IN  /\ n \in 1 .. Len(Times) + 1 /\ Begins(n)
               /\ Len(Times) > 0 => n \in DOMAIN Times
               /\ Due => \E m \in DOMAIN Times : n <= m /\ m < n + 2 /\ ~Ended(m)
<1> DEFINE first == FindFirstAfter(SubTime)
           n == FindLastBefore(SubTime)
<1>1. /\ first \in 1 .. Len(Times) + 1
      /\ \A m \in DOMAIN Times : Times[m][1] < SubTime <=> m < first
    BY FirstAfter
<1>2. n = IF first > 1 THEN first - 1 ELSE first
    BY DEF FindLastBefore
<1> HIDE DEF first, n
<1>3. n \in 1 .. Len(Times) + 1 /\ (Len(Times) > 0 => n \in DOMAIN Times)
    BY <1>1, <1>2, TimesInOrder
<1>4. ASSUME NEW m \in DOMAIN Times, m < n
      PROVE  n \in DOMAIN Times /\ Started(n) /\ Times[n][1] \in Nat
    <2>1. n \in DOMAIN Times /\ Times[n][1] < SubTime /\ Times[n][1] \in Nat
        BY <1>1, <1>2, <1>4, TimesInOrder
    <2> QED
        BY <2>1 DEF Started
<1>5. ASSUME Due
      PROVE  \E m \in DOMAIN Times : n <= m /\ m < n + 2 /\ ~Ended(m)
    <2>1. PICK d \in DOMAIN Times : Started(d) /\ ~Ended(d)
        BY <1>5 DEF Due
    <2>2. d \in Nat /\ n \in Nat
        BY <1>3, TimesInOrder
    <2>3. CASE d < n
        <3>1. n \in DOMAIN Times /\ Times[d][2] <= Times[n][2]
            BY <1>4, <2>3 DEF WellTimed
        <3>2. ~Ended(n)
            BY <2>1, <3>1, TimesInOrder DEF Ended
        <3> QED
            BY <2>2, <3>1, <3>2
    <2>4. CASE n <= d /\ d < n + 2
        BY <2>1, <2>2, <2>4
    <2>5. CASE d >= n + 2
        <3>1. n + 1 \in DOMAIN Times /\ n + 1 < d /\ first <= n + 1
            BY <2>2, <2>5, <1>1, <1>2, TimesInOrder
        <3>2. ~ (Times[n + 1][1] < SubTime)
            BY <3>1, <1>1, <1>2, TimesInOrder
        <3>3. Times[n + 1][2] \in Nat /\ Times[n + 1][1] \in Nat /\ Times[n + 1][1] <= Times[n + 1][2]
            BY <3>1, TimesInOrder DEF WellTimed
        <3>4. ~Ended(n + 1)
            BY <3>2, <3>3 DEF Ended
        <3> QED
            BY <3>1, <3>4, <2>2
    <2> QED
        BY <2>2, <2>3, <2>4, <2>5
<1> QED
    BY <1>3, <1>4, <1>5 DEF Begins, n
-----------------------------------------------------------------------------
(* The queue as the UI thread leaves it *)

(* The end of a queue.                                                      *)
LEMMA DropFront ==
    ASSUME NEW S, NEW s \in Seq(S), NEW k \in 0 .. Len(s)
    PROVE  /\ SubSeq(s, k + 1, Len(s)) \in Seq(S)
           /\ Len(SubSeq(s, k + 1, Len(s))) = Len(s) - k
           /\ \A i \in 1 .. (Len(s) - k) : SubSeq(s, k + 1, Len(s))[i] = s[i + k]
<1>1. \A i \in (k + 1) .. Len(s) : s[i] \in S
    OBVIOUS
<1>2. k + 1 \in Int /\ Len(s) \in Int
    OBVIOUS
<1>3. /\ SubSeq(s, k + 1, Len(s)) \in Seq(S)
      /\ Len(SubSeq(s, k + 1, Len(s))) = IF k + 1 <= Len(s) THEN Len(s) - (k + 1) + 1 ELSE 0
      /\ \A i \in 1 .. Len(s) - (k + 1) + 1 : SubSeq(s, k + 1, Len(s))[i] = s[k + 1 + i - 1]
    BY <1>1, <1>2, SubSeqProperties
<1> QED
    BY <1>3

(* What is popped as too old before a frame is drawn.                       *)
LEMMA OldestLeading ==
    ASSUME queue \in Seq(Frames)
    PROVE  /\ LeadingOld \in 0 .. Len(queue)
           /\ \A i \in 1 .. LeadingOld : TooOld(queue[i])
           /\ LeadingOld < Len(queue) => ~TooOld(queue[LeadingOld + 1])
<1> DEFINE Old(i) == TooOld(queue[i])
           S == {i \in DOMAIN queue : \A j \in 1 .. i : Old(j)}
<1>1. DOMAIN queue = 1 .. Len(queue) /\ Len(queue) \in Nat
    OBVIOUS
<1>2. LeadingOld = Cardinality(S)
    BY DEF LeadingOld
<1> HIDE DEF Old
<1>3. S \in SUBSET (1 .. Len(queue)) /\ \A i \in S : \A j \in 1 .. i : j \in S
    BY <1>1
<1>4. \A i \in 1 .. Len(queue) : i \in S <=> \A j \in 1 .. i : Old(j)
    BY <1>1
<1> HIDE DEF S
<1>5. LeadingOld \in 0 .. Len(queue) /\ S = 1 .. LeadingOld
    BY <1>1, <1>2, <1>3, Beginning
<1>6. \A i \in 1 .. LeadingOld : Old(i)
    BY <1>4, <1>5
<1>7. ASSUME LeadingOld < Len(queue), Old(LeadingOld + 1)
      PROVE  FALSE
    <2>1. LeadingOld + 1 \in 1 .. Len(queue) /\ \A j \in 1 .. (LeadingOld + 1) : Old(j)
        BY <1>5, <1>6, <1>7
    <2> QED
        BY <1>4, <1>5, <2>1
<1> QED
    BY <1>5, <1>6, <1>7 DEF Old

(* A frame pops what is too old; then it moves the front to the screen or   *)
(* leaves the queue alone (update_current_subtitle).                        *)
LEMMA FrameDrawn ==
    ASSUME queue \in Seq(Frames), UpdateSubtitle
    PROVE  /\ queue' \in Seq(Frames)
           /\ \E k \in 0 .. Len(queue) :
                 /\ \A i \in 1 .. k : TooOld(queue[i])
                 /\ \/ /\ k < Len(queue) /\ Within(queue[k + 1]) /\ shown' = queue[k + 1]
                       /\ Len(queue') = Len(queue) - (k + 1)
                       /\ \A i \in 1 .. Len(queue') : queue'[i] = queue[i + (k + 1)]
                    \/ /\ k < Len(queue) => ~Within(queue[k + 1]) /\ ~TooOld(queue[k + 1])
                       /\ shown' = IF Within(shown) THEN shown ELSE NoFrame
                       /\ Len(queue') = Len(queue) - k
                       /\ \A i \in 1 .. Len(queue') : queue'[i] = queue[i + k]
<1> DEFINE k == LeadingOld
           rest == SubSeq(queue, k + 1, Len(queue))
<1>1. /\ k \in 0 .. Len(queue) /\ \A i \in 1 .. k : TooOld(queue[i])
      /\ k < Len(queue) => ~TooOld(queue[k + 1])
    BY OldestLeading
<1>2. IF rest # <<>> /\ Within(Head(rest))
      THEN shown' = Head(rest) /\ queue' = Tail(rest)
      ELSE shown' = (IF Within(shown) THEN shown ELSE NoFrame) /\ queue' = rest
    BY DEF UpdateSubtitle
<1> HIDE DEF k
<1>3. /\ rest \in Seq(Frames) /\ Len(rest) = Len(queue) - k
      /\ \A i \in 1 .. (Len(queue) - k) : rest[i] = queue[i + k]
    BY <1>1, DropFront
<1> HIDE DEF rest
<1>4. (rest # <<>> <=> k < Len(queue)) /\ (rest = <<>> => Len(rest) = 0)
    BY <1>1, <1>3
<1>5. CASE rest # <<>> /\ Within(Head(rest))
    <2>1. /\ Head(rest) = rest[1] /\ Tail(rest) \in Seq(Frames) /\ Len(Tail(rest)) = Len(rest) - 1
          /\ \A i \in 1 .. (Len(rest) - 1) : Tail(rest)[i] = rest[i + 1]
        BY <1>3, <1>5
    <2>2. Head(rest) = queue[k + 1]
        BY <2>1, <1>1, <1>3, <1>4, <1>5
    <2>3. \A i \in 1 .. Len(Tail(rest)) : Tail(rest)[i] = queue[i + (k + 1)]
        BY <2>1, <1>1, <1>3
    <2>4. k < Len(queue) /\ Within(queue[k + 1]) /\ shown' = queue[k + 1] /\ queue' = Tail(rest)
        BY <2>2, <1>2, <1>4, <1>5
    <2>5. Len(Tail(rest)) = Len(queue) - (k + 1)
        BY <2>1, <1>1, <1>3
    <2> QED
        BY <2>1, <2>3, <2>4, <2>5, <1>1
<1>6. CASE ~(rest # <<>> /\ Within(Head(rest)))
    <2>1. k < Len(queue) => ~Within(queue[k + 1])
        BY <1>1, <1>3, <1>4, <1>6
    <2> QED
        BY <2>1, <1>1, <1>2, <1>3, <1>6
<1> QED
    BY <1>5, <1>6
-----------------------------------------------------------------------------
(* Types, and the room a pass of the reader counts on *)

TypeInv ==
    /\ TypeOK
    /\ PassFits
    /\ medium = "open" => queue = <<>> /\ reader = Idle

(* A reader between two pushes holds a pass.                                *)
LEMMA Passes ==
    /\ TypeOK /\ Running =>
          reader \in [nr : 1 .. MaxChoices, n : 1 .. (Len(Times) + 1), left : 0 .. ReadAhead]
    /\ reader.nr # 0 => Running
    /\ reader \in {Idle, Asking} => ~Running /\ reader.nr = 0
    BY DEF TypeOK, Running, Unlocked, Idle, Asking, Streaming

(* At first nothing is chosen, queued or shown (player::player).            *)
LEMMA InitType == Init => TypeInv
<1> SUFFICES ASSUME Init PROVE TypeInv
    OBVIOUS
<1>1. reader = Idle /\ queue = <<>> /\ Len(queue) = 0 /\ PassFits
    BY DEF Init, PassFits, Unlocked, Idle
<1>2. TypeOK
    <2>1. queue_in \in Seq(Files) /\ Len(queue_in) <= InSize
          /\ queue_out \in Seq(Files) /\ Len(queue_out) <= InSize
          /\ queue \in Seq(Frames) /\ Len(queue) <= QueueSize
        BY BoundsAssumption DEF Init
    <2>2. /\ now \in 0 .. MaxTime /\ choice \in 0 .. MaxChoices /\ opens \in 0 .. MaxOpens
          /\ seeks \in 0 .. MaxSeeks /\ fetched \in 0 .. MaxChoices /\ passed \in 0 .. 4
        BY BoundsAssumption DEF Init
    <2> QED
        BY <1>1, <2>1, <2>2 DEF Init, TypeOK
<1> QED
    BY <1>1, <1>2, BoundsAssumption DEF TypeInv, Init

(* The user's choices.                                                      *)
LEMMA SelectType ==
    ASSUME TypeOK, SubtitleSelect
    PROVE  /\ choice' \in 0 .. MaxChoices /\ source' \in {"none", "text_file", "stream"}
           /\ offset' \in Offsets \cup {0}
           /\ queue_in' \in Seq(Files) /\ Len(queue_in') <= InSize
           /\ downloading' = downloading /\ queue_out' = queue_out /\ fetched' = fetched
<1>1. ASSUME NEW off \in Offsets, SelectFile(off)
      PROVE  /\ queue_in' \in Seq(Files) /\ Len(queue_in') <= InSize
    <2>1. [nr |-> choice + 1, offset |-> off] \in Files
        BY <1>1, BoundsAssumption DEF SelectFile, Files, TypeOK
    <2> QED
        BY <1>1, <2>1, SequenceOps, BoundsAssumption DEF SelectFile, TypeOK
<1>2. ASSUME NEW off \in Offsets, SelectFile(off) \/ SelectStream(off)
      PROVE  choice' \in 0 .. MaxChoices
    BY <1>2, BoundsAssumption DEF SelectFile, SelectStream, TypeOK
<1>3. ASSUME SelectNone
      PROVE  choice' \in 0 .. MaxChoices
    BY <1>3, BoundsAssumption DEF SelectNone, TypeOK
<1>4. CASE \E off \in Offsets : SelectFile(off)
    BY <1>1, <1>2, <1>4 DEF SelectFile, TypeOK
<1>5. CASE \E off \in Offsets : SelectStream(off)
    BY <1>2, <1>5 DEF SelectStream, TypeOK, download
<1>6. CASE SelectNone
    BY <1>3, <1>6 DEF SelectNone, TypeOK, download
<1> QED
    BY <1>4, <1>5, <1>6 DEF SubtitleSelect

(* The user, the downloader and the UI thread.                              *)
LEMMA HandOverType ==
    ASSUME TypeInv, Choose \/ TakeJob \/ Downloaded \/ DownloadFails \/ Activate \/ SetContainer
    PROVE  TypeInv'
<1> USE DEF TypeInv, player, screen, history, PassFits, Unlocked
<1>1. CASE Choose
    BY <1>1, SelectType DEF Choose, Disturb, TypeOK
<1>2. CASE TakeJob
    <2>1. queue_in' \in Seq(Files) /\ Len(queue_in') <= InSize /\ downloading' \in Files
        BY <1>2, BoundsAssumption DEF TakeJob, TypeOK
    <2> QED
        BY <1>2, <2>1 DEF TakeJob, TypeOK
<1>3. CASE Downloaded
    <2>1. downloading \in Files
        BY <1>3 DEF Downloaded, TypeOK
    <2>2. queue_out' \in Seq(Files) /\ Len(queue_out') <= InSize
        <3>1. Append(queue_out, downloading) \in Seq(Files)
              /\ Len(Append(queue_out, downloading)) = Len(queue_out) + 1
            BY <2>1, SequenceOps DEF TypeOK
        <3>2. CASE Len(queue_out) < InSize
            <4>1. queue_out' = Append(queue_out, downloading)
                BY <1>3, <3>2 DEF Downloaded
            <4>2. Len(queue_out) \in Nat /\ InSize \in Nat
                BY BoundsAssumption DEF TypeOK
            <4> QED
                BY <3>1, <3>2, <4>1, <4>2
        <3>3. CASE ~(Len(queue_out) < InSize)
            BY <1>3, <3>3 DEF Downloaded, TypeOK
        <3> QED
            BY <3>2, <3>3
    <2>3. fetched' \in 0 .. MaxChoices
        BY <1>3, <2>1 DEF Downloaded, TypeOK, Files
    <2> QED
        BY <1>3, <2>2, <2>3 DEF Downloaded, TypeOK
<1>4. CASE DownloadFails
    BY <1>4 DEF DownloadFails, TypeOK
<1>5. CASE Activate
    <2>1. queue_out' \in Seq(Files) /\ Len(queue_out') <= InSize /\ arriving' \in Files
          /\ Head(queue_out) \in Files
        BY <1>5, BoundsAssumption DEF Activate, TypeOK
    <2>2. offset' \in Offsets
        BY <1>5, <2>1 DEF Activate, Files
    <2> QED
        BY <1>5, <2>1, <2>2 DEF Activate, Disturb, TypeOK
<1>6. CASE SetContainer
    BY <1>6 DEF SetContainer, Disturb, TypeOK, download
<1> QED
    BY <1>1, <1>2, <1>3, <1>4, <1>5, <1>6

(* A push finds room, or is dropped (srsw_fifo::push).                      *)
LEMMA PushType ==
    ASSUME TypeOK, NEW f \in Frames, Push(f)
    PROVE  /\ queue' \in Seq(Frames) /\ Len(queue') <= QueueSize
           /\ Len(queue') = Len(queue) + 1 \/ Len(queue') = Len(queue)
<1>1. queue \in Seq(Frames) /\ Len(queue) \in Nat /\ Len(queue) <= QueueSize /\ QueueSize \in Nat
    BY BoundsAssumption DEF TypeOK
<1>2. Append(queue, f) \in Seq(Frames) /\ Len(Append(queue, f)) = Len(queue) + 1
    BY <1>1, SequenceOps
<1> QED
    BY <1>1, <1>2 DEF Push

(* A pass has room: none of a file's subtitles is dropped                   *)
(* (enqueue_current_subtitle).                                              *)
LEMMA PassPushes ==
    ASSUME TypeInv, EnqueueSubtitle,
           medium = "playing", reader.n \in DOMAIN Times, reader.left > 0
    PROVE  /\ queue' = Append(queue, [nr |-> reader.nr, n |-> reader.n])
           /\ reader' = [reader EXCEPT !.n = @ + 1, !.left = @ - 1] /\ passed' = passed
<1>1. Running /\ TypeOK /\ PassFits
    BY DEF EnqueueSubtitle, Running, TypeInv
<1>2. reader.left \in Nat /\ Len(queue) \in Nat /\ ReadAhead \in Nat /\ QueueSize \in Nat
      /\ ReadAhead <= QueueSize
    BY <1>1, Passes, BoundsAssumption DEF TypeOK
<1>3. Len(queue) + reader.left <= ReadAhead
    BY <1>1 DEF PassFits, Running
<1>4. Len(queue) < QueueSize
    BY <1>2, <1>3
<1> QED
    BY <1>4 DEF EnqueueSubtitle, Push

(* A pass fills the queue up to subtitles_read_ahead_size, the medium's own *)
(* subtitles fill all of it.                                                *)
LEMMA ReaderType ==
    ASSUME TypeInv, Reader
    PROVE  TypeInv'
<1> USE DEF TypeInv, player, download, screen, history
<1>type. TypeOK /\ PassFits /\ Len(queue) \in Nat /\ ReadAhead \in Nat /\ QueueSize \in Nat
         /\ ReadAhead <= QueueSize
    BY BoundsAssumption DEF TypeOK
<1>1. CASE AskContainer
    BY <1>1, <1>type DEF AskContainer, TypeOK, PassFits, Unlocked, Asking
<1>2. CASE ReadContainer
    <2> DEFINE n == FindLastBefore(SubTime)
    <2>1. \/ reader' = Idle
          \/ /\ container # NoFile /\ Len(queue) < ReadAhead /\ n \in DOMAIN Times
             /\ reader' = [nr |-> container.nr, n |-> n, left |-> ReadAhead - Len(queue)]
        BY <1>2 DEF ReadContainer
    <2> HIDE DEF n
    <2>2. reader' = Idle \/ reader' \in [nr : 1 .. MaxChoices, n : 1 .. (Len(Times) + 1), left : 0 .. ReadAhead]
        BY <2>1, <1>type, TimesInOrder, SMTT(30) DEF TypeOK, Files
    <2>3. PassFits'
        <3>1. queue' = queue
            BY <1>2 DEF ReadContainer
        <3>2. CASE reader' = Idle
            BY <3>2 DEF PassFits, Unlocked, Idle
        <3>3. CASE reader'.left = ReadAhead - Len(queue)
            BY <3>1, <3>3, <1>type DEF PassFits
        <3> QED
            BY <2>1, <3>2, <3>3
    <2>4. passed' \in 0 .. 4
        BY <1>2, <1>type DEF ReadContainer, ReaderPassed, TypeOK
    <2> QED
        BY <1>2, <2>2, <2>3, <2>4 DEF ReadContainer, TypeOK, Asking, Idle
<1>3. CASE EnqueueSubtitle
    <2>1. reader \in [nr : 1 .. MaxChoices, n : 1 .. (Len(Times) + 1), left : 0 .. ReadAhead]
          /\ medium # "open" /\ Len(queue) + reader.left <= ReadAhead
        BY <1>3, <1>type, Passes DEF EnqueueSubtitle, Running, Unlocked, PassFits
    <2>2. CASE medium = "playing" /\ reader.n \in DOMAIN Times /\ reader.left > 0
        <3>1. /\ queue' = Append(queue, [nr |-> reader.nr, n |-> reader.n])
              /\ reader' = [reader EXCEPT !.n = @ + 1, !.left = @ - 1] /\ passed' = passed
            BY <1>3, <2>2, PassPushes
        <3>2. [nr |-> reader.nr, n |-> reader.n] \in Frames
            BY <2>1, <2>2 DEF Frames
        <3>3. queue' \in Seq(Frames) /\ Len(queue') = Len(queue) + 1
            BY <3>1, <3>2, <1>type, SequenceOps DEF TypeOK
        <3>4. reader' \in [nr : 1 .. MaxChoices, n : 1 .. (Len(Times) + 1), left : 0 .. ReadAhead]
              /\ reader'.left = reader.left - 1
            <4>1. /\ reader.n + 1 \in 1 .. (Len(Times) + 1) /\ reader.left - 1 \in 0 .. ReadAhead
                BY <2>1, <2>2, TimesInOrder, <1>type
            <4>2. reader' = [nr |-> reader.nr, n |-> reader.n + 1, left |-> reader.left - 1]
                BY <3>1, <2>1
            <4> QED
                BY <4>1, <4>2, <2>1
        <3>5. Len(queue') + reader'.left <= ReadAhead /\ Len(queue') <= QueueSize
            <4>1. reader.left \in Nat /\ reader'.left \in Nat
                BY <2>1, <3>4
            <4> QED
                BY <1>type, <2>1, <3>3, <3>4, <4>1
        <3> QED
            BY <1>3, <2>1, <3>1, <3>3, <3>4, <3>5 DEF EnqueueSubtitle, TypeOK, PassFits
    <2>3. CASE ~(medium = "playing" /\ reader.n \in DOMAIN Times /\ reader.left > 0)
        <3>1. reader' = Idle /\ queue' = queue /\ passed' \in 0 .. 4 /\ PassFits'
            BY <1>3, <2>3, <1>type, SMTT(30) DEF EnqueueSubtitle, ReaderPassed, TypeOK, PassFits, Unlocked, Idle
        <3> QED
            BY <1>3, <3>1, <2>1 DEF EnqueueSubtitle, TypeOK
    <2> QED
        BY <2>2, <2>3
<1>4. CASE ReadStream
    <2>1. PICK left \in 1 .. StreamBatch : reader' = Streaming(left)
        BY <1>4 DEF ReadStream
    <2>2. PassFits' /\ medium # "open"
        BY <1>4, <2>1 DEF ReadStream, PassFits, Unlocked, Streaming
    <2> QED
        BY <1>4, <1>type, <2>1, <2>2 DEF ReadStream, TypeOK
<1>5. CASE PushFromStream
    <2>1. PICK left \in 1 .. StreamBatch : reader = Streaming(left)
        BY <1>5, <1>type, Passes DEF PushFromStream, TypeOK, Running
    <2>2. medium # "open" /\ reader.left = left
        BY <1>5, <2>1 DEF PushFromStream, Streaming
    <2>3. queue' \in Seq(Frames) /\ Len(queue') <= QueueSize
        <3>1. CASE medium = "playing"
            <4>1. PICK n \in StreamSubtitles : Push([nr |-> 0, n |-> n])
                BY <1>5, <3>1 DEF PushFromStream
            <4>2. [nr |-> 0, n |-> n] \in Frames
                BY BoundsAssumption DEF Frames
            <4> QED
                BY <1>type, <4>1, <4>2, PushType
        <3>2. CASE medium # "playing"
            BY <1>5, <1>type, <3>2 DEF PushFromStream, TypeOK
        <3> QED
            BY <3>1, <3>2
    <2>4. /\ reader' = Idle \/ \E k \in 1 .. StreamBatch : reader' = Streaming(k)
          /\ passed' \in 0 .. 4
        <3>1. CASE medium = "playing" /\ left > 1
            <4>1. left - 1 \in 1 .. StreamBatch
                BY <3>1, BoundsAssumption
            <4>2. reader' = Streaming(left - 1) /\ passed' = passed
                BY <1>5, <2>2, <3>1 DEF PushFromStream
            <4> QED
                BY <1>type, <4>1, <4>2 DEF TypeOK
        <3>2. CASE ~(medium = "playing" /\ left > 1)
            <4>1. reader' = Idle /\ ReaderPassed
                BY <1>5, <2>2, <3>2 DEF PushFromStream
            <4>2. passed \in 0 .. 4
                BY <1>type DEF TypeOK
            <4> QED
                BY <4>1, <4>2 DEF ReaderPassed
        <3> QED
            BY <3>1, <3>2
    <2>5. PassFits'
        BY <2>4 DEF PassFits, Unlocked, Streaming, Idle
    <2> QED
        BY <1>5, <1>type, <2>2, <2>3, <2>4, <2>5 DEF PushFromStream, TypeOK
<1>6. CASE ReadNothing
    <2>1. passed' \in 0 .. 4
        BY <1>6, <1>type DEF ReadNothing, ReaderPassed, TypeOK
    <2> QED
        BY <1>6, <2>1 DEF ReadNothing, TypeOK, PassFits, Unlocked
<1> QED
    BY <1>1, <1>2, <1>3, <1>4, <1>5, <1>6 DEF Reader

(* Frames, the clock, seeks and the play handler.                           *)
LEMMA ShowType ==
    ASSUME TypeInv, \/ UpdateSubtitle \/ Tick \/ SeekFlush \/ SeekFlushDone
                    \/ SeekInSync \/ \E t \in 0 .. MaxTime : AdjustTime(t)
                    \/ CloseMedium \/ OpenMedium \/ StartPlaying
    PROVE  TypeInv'
<1> USE DEF TypeInv, player, download, screen, history, Disturb, PassFits, Unlocked
<1>type. /\ TypeOK /\ Len(queue) \in Nat /\ ReadAhead \in Nat
         /\ QueueSize \in Nat /\ Len(queue) <= QueueSize
         /\ reader.nr # 0 => reader.left \in Nat
    BY BoundsAssumption, Passes DEF TypeOK
<1>empty. <<>> \in Seq(Frames) /\ Len(<<>>) = 0
    OBVIOUS
<1>1. CASE UpdateSubtitle
    <2>1. /\ queue' \in Seq(Frames) /\ Len(queue') <= Len(queue)
          /\ shown' \in Frames \cup {NoFrame}
        <3>1. queue \in Seq(Frames) /\ shown \in Frames \cup {NoFrame}
            BY <1>type DEF TypeOK
        <3>2. queue' \in Seq(Frames)
            BY <1>1, <3>1, FrameDrawn
        <3>3. PICK k \in 0 .. Len(queue) :
                  \/ /\ k < Len(queue) /\ shown' = queue[k + 1] /\ Len(queue') = Len(queue) - (k + 1)
                  \/ /\ shown' = IF Within(shown) THEN shown ELSE NoFrame
                     /\ Len(queue') = Len(queue) - k
            BY <1>1, <3>1, FrameDrawn
        <3>4. k < Len(queue) => queue[k + 1] \in Frames
            BY <3>1
        <3> QED
            BY <3>1, <3>2, <3>3, <3>4
    <2>2. passed' \in 0 .. 4 /\ settled' \in {"leftovers", "clean", "calm"} /\ medium = "playing"
        BY <1>1, <1>type DEF UpdateSubtitle, Drawn, TypeOK
    <2>3. Len(queue') \in Nat
        BY <2>1
    <2>4. Len(queue') <= QueueSize /\ PassFits'
        <3>1. reader' = reader
            BY <1>1 DEF UpdateSubtitle
        <3> QED
            BY <2>1, <2>3, <3>1, <1>type, SMTT(30)
    <2> QED
        BY <1>1, <2>1, <2>2, <2>4 DEF UpdateSubtitle, TypeOK
<1>2. CASE Tick
    BY <1>2, BoundsAssumption DEF Tick, TypeOK
<1>3. CASE SeekFlush
    <2>1. PassFits' /\ Len(queue') <= QueueSize /\ queue' \in Seq(Frames)
        BY <1>3, <1>empty, <1>type DEF SeekFlush
    <2>2. seeks' \in 0 .. MaxSeeks
        BY <1>3, BoundsAssumption DEF SeekFlush, TypeOK
    <2> QED
        BY <1>3, <2>1, <2>2 DEF SeekFlush, TypeOK
<1>4. CASE SeekFlushDone
    BY <1>4 DEF SeekFlushDone, TypeOK
<1>5. CASE SeekInSync \/ \E t \in 0 .. MaxTime : AdjustTime(t)
    BY <1>5 DEF SeekInSync, AdjustTime, TypeOK
<1>6. CASE CloseMedium
    BY <1>6, BoundsAssumption DEF CloseMedium, TypeOK
<1>7. CASE OpenMedium
    <2>1. queue' \in Seq(Frames) /\ Len(queue') = 0 /\ queue' = <<>> /\ reader' = Idle /\ PassFits'
        BY <1>7, <1>empty DEF OpenMedium, Idle
    <2>2. opens' \in 0 .. MaxOpens
        BY <1>7, BoundsAssumption DEF OpenMedium, TypeOK
    <2> QED
        BY <1>7, <1>type, <2>1, <2>2 DEF OpenMedium, TypeOK
<1>8. CASE StartPlaying
    BY <1>8, SelectType DEF StartPlaying, TypeOK
<1> QED
    BY <1>1, <1>2, <1>3, <1>4, <1>5, <1>6, <1>7, <1>8

(* The invariant holds however the threads interleave.                      *)
LEMMA TypeInductive == Spec => []TypeInv
<1>1. TypeInv /\ [Next]_vars => TypeInv'
    <2> SUFFICES ASSUME TypeInv, [Next]_vars PROVE TypeInv'
        OBVIOUS
    <2>1. CASE UNCHANGED vars
        BY <2>1 DEF vars, player, download, screen, history, TypeInv, TypeOK, PassFits, Unlocked
    <2> QED
        BY <2>1, HandOverType, ReaderType, ShowType DEF Next, UI
<1> QED
    BY <1>1, InitType, PTL DEF Spec

(* A pass over a file, whose room was counted before frames, flushes and    *)
(* changes of the choice, never fills the queue beyond                      *)
(* subtitles_read_ahead_size, although the medium's own subtitles may have: *)
(* none of a file's subtitles is dropped (read_from_container).             *)
THEOREM FilePassFits == Spec => []PassFits
<1>1. TypeInv => PassFits
    BY DEF TypeInv
<1> QED
    BY <1>1, TypeInductive, PTL

(* Type correctness; among others no more is queued than subtitles_queue_   *)
(* has room for, whatever the medium's own stream brings.                   *)
THEOREM TypeCorrect == Spec => []TypeOK
<1>1. TypeInv => TypeOK
    BY DEF TypeInv
<1> QED
    BY <1>1, TypeInductive, PTL
-----------------------------------------------------------------------------
(* The order of the files *)

(* What is shown, queued and read is of the container or of one before it.  *)
FrontInv ==
    /\ shown.nr <= container.nr /\ reader.nr \in {0, container.nr}
    /\ InOrder(queue)
    /\ \A i \in DOMAIN queue :
          queue[i].nr <= container.nr /\ (queue[i].nr > 0 => shown.nr <= queue[i].nr)

(* What is on its way was chosen after it, and so far.                      *)
BackInv ==
    /\ {container.nr, arriving.nr, downloading.nr} \subseteq 0 .. choice
    /\ arriving.nr > 0 => container.nr <= arriving.nr
    /\ downloading.nr > 0 => container.nr <= downloading.nr /\ arriving.nr <= downloading.nr
    /\ InOrder(queue_out) /\ InOrder(queue_in)
    /\ \A i \in DOMAIN queue_out :
          /\ container.nr <= queue_out[i].nr /\ arriving.nr <= queue_out[i].nr
          /\ queue_out[i].nr <= choice
          /\ downloading.nr > 0 => queue_out[i].nr <= downloading.nr
    /\ \A j \in DOMAIN queue_in :
          /\ container.nr <= queue_in[j].nr /\ arriving.nr <= queue_in[j].nr
          /\ downloading.nr <= queue_in[j].nr /\ queue_in[j].nr <= choice
          /\ \A i \in DOMAIN queue_out : queue_out[i].nr <= queue_in[j].nr

(* Numbers are compared that are numbers.                                   *)
LEMMA ChoiceNumbers ==
    ASSUME TypeOK
    PROVE  /\ {choice, container.nr, arriving.nr, downloading.nr, reader.nr, shown.nr} \subseteq Nat
           /\ DOMAIN queue = 1 .. Len(queue) /\ Len(queue) \in Nat
           /\ DOMAIN queue_in = 1 .. Len(queue_in) /\ Len(queue_in) \in Nat
           /\ DOMAIN queue_out = 1 .. Len(queue_out) /\ Len(queue_out) \in Nat
           /\ \A i \in 1 .. Len(queue) : queue[i] \in Frames /\ queue[i].nr \in Nat
           /\ \A i \in 1 .. Len(queue_in) : queue_in[i].nr \in Nat \ {0}
           /\ \A i \in 1 .. Len(queue_out) : queue_out[i].nr \in Nat \ {0}
           /\ arriving # NoFile => arriving.nr > 0
           /\ downloading # NoFile => downloading.nr > 0
           /\ container # NoFile => container.nr > 0
<1> USE DEF TypeOK
<1>1. choice \in Nat
    BY BoundsAssumption
<1>2. \A f \in Files : f.nr \in Nat \ {0}
    BY BoundsAssumption DEF Files
<1>3. NoFile.nr = 0
    BY DEF NoFile
<1>4. {container.nr, arriving.nr, downloading.nr} \subseteq Nat
      /\ (arriving # NoFile => arriving.nr > 0) /\ (downloading # NoFile => downloading.nr > 0)
      /\ (container # NoFile => container.nr > 0)
    BY <1>2, <1>3, SMTT(30)
<1>5. \A f \in Frames : f.nr \in Nat
    BY BoundsAssumption DEF Frames
<1>6. reader.nr \in Nat /\ shown.nr \in Nat
    BY <1>5, BoundsAssumption DEF NoFrame, Idle, Asking, Streaming
<1>7. /\ DOMAIN queue = 1 .. Len(queue) /\ Len(queue) \in Nat
      /\ DOMAIN queue_in = 1 .. Len(queue_in) /\ Len(queue_in) \in Nat
      /\ DOMAIN queue_out = 1 .. Len(queue_out) /\ Len(queue_out) \in Nat
    OBVIOUS
<1>8. /\ \A i \in 1 .. Len(queue) : queue[i] \in Frames
      /\ \A i \in 1 .. Len(queue_in) : queue_in[i] \in Files
      /\ \A i \in 1 .. Len(queue_out) : queue_out[i] \in Files
    OBVIOUS
<1> QED
    BY <1>1, <1>2, <1>4, <1>5, <1>6, <1>7, <1>8

(* A choice is the last so far; a queue that is full loses it               *)
(* (subtitle_select, download_async).                                       *)
LEMMA SelectBack ==
    ASSUME TypeOK, BackInv, SubtitleSelect, UNCHANGED <<arriving, container>>
    PROVE  BackInv'
<1> USE ChoiceNumbers DEF BackInv, InOrder
<1>1. /\ arriving' = arriving /\ container' = container /\ choice' = choice + 1
      /\ downloading' = downloading /\ queue_out' = queue_out
    BY DEF SubtitleSelect, SelectFile, SelectStream, SelectNone, download
<1>2. CASE queue_in' = queue_in
    BY <1>1, <1>2, SMTT(30)
<1>3. ASSUME NEW off \in Offsets, queue_in' = Append(queue_in, [nr |-> choice + 1, offset |-> off])
      PROVE  BackInv'
    <2> DEFINE f == [nr |-> choice + 1, offset |-> off]
    <2>1. f.nr = choice + 1
        OBVIOUS
    <2> HIDE DEF f
    <2>2. /\ DOMAIN queue_in' = 1 .. (Len(queue_in) + 1)
          /\ \A i \in 1 .. Len(queue_in) : queue_in'[i] = queue_in[i]
          /\ queue_in'[Len(queue_in) + 1] = f
        <3>1. queue_in \in Seq(Files \cup {f})
            BY DEF TypeOK
        <3> QED
            BY <1>3, <3>1, SequenceOps DEF f
    <2>3. \A i \in DOMAIN queue_in' :
              queue_in'[i].nr = choice + 1 \/ (i \in DOMAIN queue_in /\ queue_in'[i].nr = queue_in[i].nr)
        BY <2>1, <2>2
    <2>4. InOrder(queue_in')
        BY <2>1, <2>2, SMTT(30)
    <2>5. \A i \in DOMAIN queue_in :
              container.nr <= queue_in[i].nr /\ arriving.nr <= queue_in[i].nr
              /\ downloading.nr <= queue_in[i].nr /\ queue_in[i].nr <= choice + 1
              /\ \A k \in DOMAIN queue_out : queue_out[k].nr <= queue_in[i].nr
        OBVIOUS
    <2>6. /\ container.nr <= choice + 1 /\ arriving.nr <= choice + 1
          /\ downloading.nr <= choice + 1
          /\ \A k \in DOMAIN queue_out : queue_out[k].nr <= choice + 1
        OBVIOUS
    <2>7. \A j \in DOMAIN queue_in' :
              container.nr <= queue_in'[j].nr /\ arriving.nr <= queue_in'[j].nr
              /\ downloading.nr <= queue_in'[j].nr /\ queue_in'[j].nr <= choice + 1
              /\ \A k \in DOMAIN queue_out : queue_out[k].nr <= queue_in'[j].nr
        BY <2>3, <2>5, <2>6
    <2>8. {container.nr, arriving.nr, downloading.nr} \subseteq 0 .. choice + 1
        BY <2>6
    <2> QED
        BY <1>1, <2>4, <2>6, <2>7, <2>8
<1> QED
    BY <1>2, <1>3 DEF SubtitleSelect, SelectFile, SelectStream, SelectNone, download

(* Taking from the front keeps a queue in order ...                         *)
LEMMA DropInOrder ==
    ASSUME NEW s, NEW t, InOrder(s), DOMAIN s \subseteq Int, DOMAIN t \subseteq Int,
           NEW k \in Nat, \A i \in DOMAIN t : i + k \in DOMAIN s /\ t[i] = s[i + k]
    PROVE  InOrder(t)
    BY DEF InOrder

(* ... and so does pushing what is not older.                               *)
LEMMA AppendInOrder ==
    ASSUME NEW s, NEW t, InOrder(s), NEW n \in Nat, DOMAIN s = 1 .. n, DOMAIN t = 1 .. (n + 1),
           \A i \in 1 .. n : t[i] = s[i] /\ s[i].nr <= t[n + 1].nr
    PROVE  InOrder(t)
<1> SUFFICES ASSUME NEW i \in DOMAIN t, NEW j \in DOMAIN t, i < j, t[j].nr > 0
             PROVE  t[i].nr <= t[j].nr
    BY DEF InOrder
<1>1. CASE j = n + 1
    BY <1>1
<1>2. CASE j # n + 1
    BY <1>2 DEF InOrder
<1> QED
    BY <1>1, <1>2

(* The downloader and the UI thread hand the files on in order              *)
(* (subtitle_downloader_thread, handle_subtitle_activation).                *)
LEMMA HandOverBack ==
    ASSUME TypeOK, BackInv, TakeJob \/ Downloaded \/ DownloadFails \/ Activate \/ SetContainer
    PROVE  BackInv'
<1>numbers. /\ DOMAIN queue_in = 1 .. Len(queue_in) /\ Len(queue_in) \in Nat
            /\ DOMAIN queue_out = 1 .. Len(queue_out) /\ Len(queue_out) \in Nat
            /\ \A i \in DOMAIN queue_in : queue_in[i].nr \in Nat \ {0}
            /\ \A i \in DOMAIN queue_out : queue_out[i].nr \in Nat \ {0}
            /\ downloading # NoFile => downloading.nr > 0
            /\ arriving # NoFile => arriving.nr > 0
            /\ {choice, container.nr, arriving.nr, downloading.nr} \subseteq Nat
            /\ InOrder(queue_in) /\ InOrder(queue_out)
    BY ChoiceNumbers DEF BackInv
<1>nofile. NoFile.nr = 0
    BY DEF NoFile
<1>1. CASE TakeJob
    <2>1. /\ queue_in \in Seq(Files) /\ queue_in # <<>> /\ downloading.nr = 0
          /\ downloading' = Head(queue_in) /\ queue_in' = Tail(queue_in)
          /\ container' = container /\ arriving' = arriving /\ queue_out' = queue_out
          /\ choice' = choice
        BY <1>numbers, <1>1, <1>nofile DEF TakeJob, TypeOK, player
    <2>2. /\ 1 \in DOMAIN queue_in /\ downloading' = queue_in[1]
          /\ DOMAIN queue_in' = 1 .. (Len(queue_in) - 1)
          /\ \A i \in DOMAIN queue_in' : i + 1 \in DOMAIN queue_in /\ queue_in'[i] = queue_in[i + 1]
        BY <2>1, SequenceOps
    <2>3. \A i \in DOMAIN queue_in' : queue_in[1].nr <= queue_in'[i].nr
        <3>1. \A i \in DOMAIN queue_in' : 1 < i + 1 /\ queue_in[i + 1].nr > 0
            BY <2>2, <1>numbers
        <3> QED
            BY <2>2, <3>1, <1>numbers DEF InOrder
    <2>4. InOrder(queue_in')
        <3>1. DOMAIN queue_in \subseteq Int /\ DOMAIN queue_in' \subseteq Int /\ 1 \in Nat
            BY <2>2, <1>numbers
        <3> QED
            BY <2>2, <3>1, <1>numbers, DropInOrder, Zenon
    <2>5. /\ container.nr <= queue_in[1].nr /\ arriving.nr <= queue_in[1].nr
          /\ queue_in[1].nr \in 0 .. choice
          /\ \A i \in DOMAIN queue_out : queue_out[i].nr <= queue_in[1].nr
        BY <1>numbers, <2>2 DEF BackInv
    <2>6. \A j \in DOMAIN queue_in' :
              /\ container.nr <= queue_in'[j].nr /\ arriving.nr <= queue_in'[j].nr
              /\ queue_in'[j].nr <= choice
              /\ \A i \in DOMAIN queue_out : queue_out[i].nr <= queue_in'[j].nr
        BY <1>numbers, <2>2 DEF BackInv
    <2> QED
        BY <1>numbers, <2>1, <2>2, <2>3, <2>4, <2>5, <2>6 DEF BackInv
<1>2. CASE Downloaded
    <2>1. /\ downloading \in Files /\ downloading.nr > 0 /\ downloading'.nr = 0
          /\ container' = container /\ arriving' = arriving /\ queue_in' = queue_in
          /\ choice' = choice
        BY <1>numbers, <1>2, <1>nofile DEF Downloaded, TypeOK, player
    <2>2. CASE queue_out' = queue_out
        BY <1>numbers, <2>1, <2>2 DEF BackInv
    <2>3. CASE queue_out' = Append(queue_out, downloading)
        <3>1. /\ DOMAIN queue_out' = 1 .. (Len(queue_out) + 1)
              /\ \A i \in 1 .. Len(queue_out) : queue_out'[i] = queue_out[i]
              /\ queue_out'[Len(queue_out) + 1] = downloading
            BY <2>1, <2>3, SequenceOps DEF TypeOK
        <3>2. \A i \in DOMAIN queue_out' :
                  queue_out'[i] = downloading \/ (i \in DOMAIN queue_out /\ queue_out'[i] = queue_out[i])
            BY <3>1
        <3>3. \A i \in 1 .. Len(queue_out) : queue_out[i].nr <= downloading.nr
            BY <1>numbers, <2>1 DEF BackInv
        <3>4. InOrder(queue_out')
            <4>1. \A i \in 1 .. Len(queue_out) :
                      queue_out'[i] = queue_out[i]
                      /\ queue_out[i].nr <= queue_out'[Len(queue_out) + 1].nr
                BY <3>1, <3>3
            <4> QED
                BY <3>1, <4>1, <1>numbers, AppendInOrder, Zenon
        <3>5. \A i \in DOMAIN queue_out' :
                  /\ container.nr <= queue_out'[i].nr /\ arriving.nr <= queue_out'[i].nr
                  /\ queue_out'[i].nr <= choice
                  /\ \A j \in DOMAIN queue_in : queue_out'[i].nr <= queue_in[j].nr
            BY <1>numbers, <2>1, <3>2 DEF BackInv
        <3> QED
            BY <1>numbers, <2>1, <3>4, <3>5 DEF BackInv
    <2> QED
        BY <1>2, <2>2, <2>3 DEF Downloaded
<1>3. CASE DownloadFails
    BY <1>numbers, <1>3, <1>nofile DEF DownloadFails, BackInv, player
<1>4. CASE Activate
    <2>1. /\ queue_out \in Seq(Files) /\ queue_out # <<>> /\ arriving.nr = 0
          /\ arriving' = Head(queue_out) /\ queue_out' = Tail(queue_out)
          /\ container' = container /\ downloading' = downloading /\ queue_in' = queue_in
          /\ choice' = choice
        BY <1>numbers, <1>4, <1>nofile DEF Activate, UIFree, TypeOK
    <2>2. /\ 1 \in DOMAIN queue_out /\ arriving' = queue_out[1]
          /\ DOMAIN queue_out' = 1 .. (Len(queue_out) - 1)
          /\ \A i \in DOMAIN queue_out' : i + 1 \in DOMAIN queue_out /\ queue_out'[i] = queue_out[i + 1]
        BY <2>1, SequenceOps
    <2>3. \A i \in DOMAIN queue_out' : queue_out[1].nr <= queue_out'[i].nr
        <3>1. \A i \in DOMAIN queue_out' : 1 < i + 1 /\ queue_out[i + 1].nr > 0
            BY <2>2, <1>numbers
        <3> QED
            BY <2>2, <3>1, <1>numbers DEF InOrder
    <2>4. InOrder(queue_out')
        <3>1. DOMAIN queue_out \subseteq Int /\ DOMAIN queue_out' \subseteq Int /\ 1 \in Nat
            BY <2>2, <1>numbers
        <3> QED
            BY <2>2, <3>1, <1>numbers, DropInOrder, Zenon
    <2>5. /\ container.nr <= queue_out[1].nr /\ queue_out[1].nr \in 0 .. choice
          /\ downloading.nr > 0 => queue_out[1].nr <= downloading.nr
          /\ \A j \in DOMAIN queue_in : queue_out[1].nr <= queue_in[j].nr
        BY <1>numbers, <2>2 DEF BackInv
    <2>6. \A i \in DOMAIN queue_out' :
              /\ container.nr <= queue_out'[i].nr /\ queue_out'[i].nr <= choice
              /\ downloading.nr > 0 => queue_out'[i].nr <= downloading.nr
              /\ \A j \in DOMAIN queue_in : queue_out'[i].nr <= queue_in[j].nr
        BY <1>numbers, <2>2 DEF BackInv
    <2> QED
        BY <1>numbers, <2>1, <2>2, <2>3, <2>4, <2>5, <2>6 DEF BackInv
<1>5. CASE SetContainer
    BY <1>numbers, <1>5, <1>nofile DEF SetContainer, download, player, BackInv
<1> QED
    BY <1>1, <1>2, <1>3, <1>4, <1>5

(* Nothing is put into the queue but of the container, and nothing reaches  *)
(* the screen but from the queue's front (read_from_container,              *)
(* update_current_subtitle).                                                *)
LEMMA QueueFront ==
    ASSUME TypeOK, FrontInv, Reader \/ UpdateSubtitle
    PROVE  FrontInv'
<1> USE DEF FrontInv
<1>numbers. /\ DOMAIN queue = 1 .. Len(queue) /\ Len(queue) \in Nat
            /\ \A i \in DOMAIN queue : queue[i].nr \in Nat
            /\ {shown.nr, container.nr, reader.nr} \subseteq Nat
            /\ InOrder(queue)
    BY ChoiceNumbers
<1>1. CASE Reader
    <2>1. container' = container /\ shown' = shown
        BY <1>1 DEF Reader, AskContainer, ReadContainer, EnqueueSubtitle, ReadStream, PushFromStream,
           ReadNothing, screen
    <2>2. reader'.nr \in {0, container.nr}
        <3>1. CASE AskContainer \/ ReadContainer \/ ReadStream \/ PushFromStream \/ ReadNothing
            BY <3>1 DEF AskContainer, ReadContainer, ReadStream, PushFromStream, ReadNothing, Idle,
               Asking, Streaming
        <3>2. CASE EnqueueSubtitle
            <4>1. reader' = Idle \/ reader'.nr = reader.nr
                BY <3>2, Passes DEF EnqueueSubtitle, Running
            <4> QED
                BY <4>1 DEF Idle
        <3> QED
            BY <1>1, <3>1, <3>2 DEF Reader
    <2>3. \/ queue' = queue
          \/ \E nr \in {0, container.nr} : \E n \in DOMAIN Times : queue' = Append(queue, [nr |-> nr, n |-> n])
        <3>1. CASE EnqueueSubtitle
            BY <3>1, Passes DEF EnqueueSubtitle, Push
        <3>2. CASE PushFromStream
            BY <3>2, BoundsAssumption DEF PushFromStream, Push
        <3> QED
            BY <1>1, <3>1, <3>2 DEF Reader, AskContainer, ReadContainer, ReadStream, ReadNothing, screen
    <2>4. ASSUME NEW nr \in {0, container.nr}, NEW n \in DOMAIN Times,
                 queue' = Append(queue, [nr |-> nr, n |-> n])
          PROVE  FrontInv'
        <3> DEFINE f == [nr |-> nr, n |-> n]
        <3>1. f.nr = nr /\ nr \in Nat /\ nr <= container.nr
            BY <1>numbers
        <3> HIDE DEF f
        <3>2. queue \in Seq(Frames \cup {f})
            BY DEF TypeOK
        <3>3. /\ DOMAIN queue' = 1 .. (Len(queue) + 1)
              /\ \A i \in 1 .. Len(queue) : queue'[i] = queue[i]
              /\ queue'[Len(queue) + 1] = f
            BY <2>4, <3>2, SequenceOps DEF f
        <3>4. \A i \in DOMAIN queue' :
                  queue'[i].nr = nr \/ (i \in DOMAIN queue /\ queue'[i] = queue[i])
            BY <3>1, <3>3
        <3>5. InOrder(queue')
            <4>1. CASE nr = 0
                BY <3>1, <3>3, <4>1, <1>numbers DEF InOrder
            <4>2. CASE nr = container.nr
                <5>1. \A i \in 1 .. Len(queue) :
                          queue'[i] = queue[i] /\ queue[i].nr <= queue'[Len(queue) + 1].nr
                    BY <3>1, <3>3, <4>2, <1>numbers
                <5> QED
                    BY <3>3, <5>1, <1>numbers, AppendInOrder, Zenon
            <4> QED
                BY <4>1, <4>2
        <3>6. \A i \in DOMAIN queue' :
                  queue'[i].nr <= container.nr /\ (queue'[i].nr > 0 => shown.nr <= queue'[i].nr)
            BY <3>1, <3>4
        <3> QED
            BY <2>1, <2>2, <3>5, <3>6
    <2> QED
        BY <2>1, <2>2, <2>3, <2>4
<1>2. CASE UpdateSubtitle
    <2>1. queue \in Seq(Frames) /\ queue' \in Seq(Frames)
        BY <1>2, FrameDrawn DEF TypeOK
    <2>2. PICK k \in 0 .. Len(queue) :
              \/ /\ k < Len(queue) /\ shown' = queue[k + 1]
                 /\ Len(queue') = Len(queue) - (k + 1)
                 /\ \A i \in 1 .. Len(queue') : queue'[i] = queue[i + (k + 1)]
              \/ /\ shown' = IF Within(shown) THEN shown ELSE NoFrame
                 /\ Len(queue') = Len(queue) - k
                 /\ \A i \in 1 .. Len(queue') : queue'[i] = queue[i + k]
        BY <1>2, <2>1, FrameDrawn
    <2>3. container' = container /\ reader' = reader /\ DOMAIN queue' = 1 .. Len(queue')
        BY <1>2, <2>1 DEF UpdateSubtitle
    <2>4. CASE /\ k < Len(queue) /\ shown' = queue[k + 1]
               /\ Len(queue') = Len(queue) - (k + 1)
               /\ \A i \in 1 .. Len(queue') : queue'[i] = queue[i + (k + 1)]
        <3>1. \A i \in DOMAIN queue' :
                  i + (k + 1) \in DOMAIN queue /\ k + 1 < i + (k + 1) /\ queue'[i] = queue[i + (k + 1)]
            BY <2>3, <2>4
        <3>2. k + 1 \in DOMAIN queue
            BY <2>4
        <3>3. InOrder(queue')
            <4>1. DOMAIN queue \subseteq Int /\ DOMAIN queue' \subseteq Int /\ k + 1 \in Nat
                BY <2>3, <1>numbers
            <4> QED
                BY <3>1, <4>1, <1>numbers, DropInOrder, Zenon
        <3>4. \A i \in DOMAIN queue' :
                  queue'[i].nr <= container.nr /\ (queue'[i].nr > 0 => queue[k + 1].nr <= queue'[i].nr)
            BY <1>numbers, <3>1, <3>2 DEF InOrder
        <3>5. queue[k + 1].nr <= container.nr
            BY <3>2
        <3> QED
            BY <2>3, <2>4, <3>3, <3>4, <3>5
    <2>5. CASE /\ shown' = IF Within(shown) THEN shown ELSE NoFrame
               /\ Len(queue') = Len(queue) - k
               /\ \A i \in 1 .. Len(queue') : queue'[i] = queue[i + k]
        <3>1. \A i \in DOMAIN queue' : i + k \in DOMAIN queue /\ queue'[i] = queue[i + k]
            BY <2>3, <2>5, SMTT(30)
        <3>2. shown'.nr \in {0, shown.nr}
            BY <2>5 DEF NoFrame
        <3>3. InOrder(queue')
            <4>1. DOMAIN queue \subseteq Int /\ DOMAIN queue' \subseteq Int /\ k \in Nat
                BY <2>3, <1>numbers
            <4> QED
                BY <3>1, <4>1, <1>numbers, DropInOrder, Zenon
        <3> QED
            BY <1>numbers, <2>3, <3>1, <3>2, <3>3
    <2> QED
        BY <2>2, <2>4, <2>5
<1> QED
    BY <1>1, <1>2

(* Every step keeps the order.                                              *)
LEMMA StepOrder ==
    ASSUME TypeInv, FrontInv, BackInv, [Next]_vars
    PROVE  FrontInv' /\ BackInv'
<1>type. TypeOK
    BY DEF TypeInv
<1> USE DEF player, download, screen, history
<1>1. CASE UNCHANGED vars
    BY <1>1 DEF vars, FrontInv, BackInv, InOrder
<1>2. CASE Choose \/ StartPlaying
    <2>1. SubtitleSelect /\ UNCHANGED <<arriving, container, reader, queue>>
          /\ shown' \in {shown, NoFrame}
        BY <1>2 DEF Choose, StartPlaying
    <2>2. BackInv'
        BY <1>type, <2>1, SelectBack
    <2>3. shown'.nr \in {0, shown.nr}
        BY <2>1 DEF NoFrame
    <2>4. FrontInv'
        BY <1>type, <2>1, <2>3, ChoiceNumbers DEF FrontInv, InOrder
    <2> QED
        BY <2>2, <2>4
<1>3. CASE TakeJob \/ Downloaded \/ DownloadFails \/ Activate
    <2>1. UNCHANGED <<shown, queue, container, reader>>
        BY <1>3 DEF TakeJob, Downloaded, DownloadFails, Activate
    <2> QED
        BY <1>3, <1>type, <2>1, HandOverBack DEF FrontInv, InOrder
<1>4. CASE SetContainer
    <2>1. BackInv'
        BY <1>4, <1>type, HandOverBack
    <2>2. /\ UNCHANGED <<shown, queue, reader>> /\ reader.nr = 0
          /\ container.nr <= container'.nr /\ container'.nr \in Nat
        BY <1>4, <1>type, Passes, ChoiceNumbers DEF SetContainer, BackInv, Unlocked
    <2>3. FrontInv'
        BY <1>type, <2>2, ChoiceNumbers DEF FrontInv, InOrder
    <2> QED
        BY <2>1, <2>3
<1>5. CASE Reader \/ UpdateSubtitle
    <2>1. UNCHANGED <<choice, download, arriving, container>>
        BY <1>5 DEF Reader, AskContainer, ReadContainer, EnqueueSubtitle, ReadStream, PushFromStream,
           ReadNothing,
           UpdateSubtitle
    <2> QED
        BY <1>5, <1>type, <2>1, QueueFront DEF BackInv, InOrder
<1>6. CASE \/ Tick \/ SeekFlush \/ SeekFlushDone
           \/ SeekInSync \/ \E t \in 0 .. MaxTime : AdjustTime(t)
           \/ CloseMedium \/ OpenMedium
    <2>1. UNCHANGED <<choice, download, arriving, container, shown, reader>>
          /\ queue' \in {queue, <<>>}
        BY <1>6 DEF Tick, SeekFlush, SeekFlushDone, SeekInSync, AdjustTime, CloseMedium, OpenMedium
    <2>2. BackInv'
        BY <2>1 DEF BackInv, InOrder
    <2>3. FrontInv'
        BY <2>1 DEF FrontInv, InOrder
    <2> QED
        BY <2>2, <2>3
<1> QED
    BY <1>1, <1>2, <1>3, <1>4, <1>5, <1>6 DEF Next, UI

(* Files reach the screen in the order they were chosen, however long a     *)
(* download takes and whichever thread is ahead (subtitle_select,           *)
(* subtitle_downloader_thread, subtitle_container_set, read_from_container, *)
(* update_current_subtitle).                                                *)
THEOREM FilesStayInOrder == Spec => []GenerationsInOrder
<1>1. Init => FrontInv /\ BackInv
    BY BoundsAssumption DEF Init, FrontInv, BackInv, InOrder, NoFile, NoFrame, Idle
<1>2. TypeInv /\ FrontInv /\ BackInv => GenerationsInOrder
    <2> SUFFICES ASSUME TypeInv, FrontInv, BackInv PROVE GenerationsInOrder
        OBVIOUS
    <2>type. TypeOK
        BY DEF TypeInv
    <2>1. DOMAIN Stages = 1 .. 8
        BY DEF Stages
    <2>2. /\ Stages[1] = <<shown>> /\ Stages[2] = queue /\ Stages[3] = <<reader>>
          /\ Stages[4] = <<container>> /\ Stages[5] = <<arriving>> /\ Stages[6] = queue_out
          /\ Stages[7] = <<downloading>> /\ Stages[8] = queue_in
        BY DEF Stages
    <2>3. /\ NotAfter(<<shown>>, queue) /\ NotAfter(<<shown>>, <<reader>>)
          /\ NotAfter(queue, <<reader>>)
        BY <2>type, ChoiceNumbers DEF FrontInv, NotAfter
    <2>4. ASSUME NEW s, \A i \in DOMAIN s : s[i].nr \in Nat /\ s[i].nr <= container.nr
          PROVE  /\ NotAfter(s, <<container>>) /\ NotAfter(s, <<arriving>>) /\ NotAfter(s, queue_out)
                 /\ NotAfter(s, <<downloading>>) /\ NotAfter(s, queue_in)
        BY <2>type, <2>4, ChoiceNumbers, SMTT(30) DEF BackInv, NotAfter
    <2>5. /\ NotAfter(<<arriving>>, queue_out) /\ NotAfter(<<arriving>>, <<downloading>>)
          /\ NotAfter(<<arriving>>, queue_in) /\ NotAfter(queue_out, <<downloading>>)
          /\ NotAfter(queue_out, queue_in) /\ NotAfter(<<downloading>>, queue_in)
        BY <2>type, ChoiceNumbers DEF BackInv, NotAfter
    <2>6. \A m \in 1 .. 8 : InOrder(Stages[m])
        BY <2>2 DEF FrontInv, BackInv, InOrder
    <2>7. \A m \in 1 .. 4 : \A i \in DOMAIN Stages[m] :
              Stages[m][i].nr \in Nat /\ Stages[m][i].nr <= container.nr
        <3>1. \A i \in DOMAIN queue : queue[i].nr \in Nat /\ queue[i].nr <= container.nr
            BY <2>type, ChoiceNumbers DEF FrontInv
        <3>2. /\ shown.nr \in Nat /\ shown.nr <= container.nr
              /\ reader.nr \in Nat /\ reader.nr <= container.nr /\ container.nr <= container.nr
            BY <2>type, ChoiceNumbers DEF FrontInv
        <3>3. ASSUME NEW x, x.nr \in Nat /\ x.nr <= container.nr
              PROVE  \A i \in DOMAIN <<x>> : <<x>>[i].nr \in Nat /\ <<x>>[i].nr <= container.nr
            BY <3>3
        <3>4. \A i \in DOMAIN Stages[1] :
                  Stages[1][i].nr \in Nat /\ Stages[1][i].nr <= container.nr
            BY <2>2, <3>2, <3>3
        <3>5. \A i \in DOMAIN Stages[2] :
                  Stages[2][i].nr \in Nat /\ Stages[2][i].nr <= container.nr
            BY <2>2, <3>1
        <3>6. \A i \in DOMAIN Stages[3] :
                  Stages[3][i].nr \in Nat /\ Stages[3][i].nr <= container.nr
            BY <2>2, <3>2, <3>3
        <3>7. \A i \in DOMAIN Stages[4] :
                  Stages[4][i].nr \in Nat /\ Stages[4][i].nr <= container.nr
            <4>1. container.nr \in Nat
                BY <2>type, ChoiceNumbers
            <4> QED
                BY <2>2, <3>2, <3>3, <4>1
        <3>8. \A m \in 1 .. 4 : m \in {1, 2, 3, 4}
            OBVIOUS
        <3> QED
            BY <3>4, <3>5, <3>6, <3>7, <3>8
    <2>8. \A m \in 1 .. 4 : \A n \in 4 .. 8 : NotAfter(Stages[m], Stages[n])
        BY <2>2, <2>4, <2>7
    <2>9. \A m, n \in 5 .. 8 : m < n => NotAfter(Stages[m], Stages[n])
        BY <2>2, <2>5
    <2>10. \A m, n \in 1 .. 3 : m < n => NotAfter(Stages[m], Stages[n])
        BY <2>2, <2>3
    <2> QED
        BY <2>1, <2>6, <2>8, <2>9, <2>10 DEF GenerationsInOrder
<1> QED
    BY <1>1, <1>2, StepOrder, TypeInductive, PTL DEF Spec
-----------------------------------------------------------------------------
(* What is due is shown.  First, what the queue holds: copies of runs of    *)
(* subtitles, each of which begins early enough.                            *)

(* Nothing has happened since the queue was last known to be of the         *)
(* container only.                                                          *)
Clean == medium = "playing" /\ source = "text_file" /\ settled # "leftovers"

(* Whoever goes on at n misses nothing that is due and not on the screen.   *)
Following(n) ==
    \/ Begins(n)
    \/ /\ n - 1 \in DOMAIN Times /\ Started(n - 1)
       /\ shown.nr = container.nr /\ shown.n = n - 1

(* n comes after the i-th of the queue, after none if i = 0.                *)
Continues(n, i) == IF i = 0 THEN Following(n) ELSE Begins(n) \/ n = queue[i].n + 1

ComingInv ==
    /\ \A i \in DOMAIN queue : queue[i].nr = container.nr /\ Continues(queue[i].n, i - 1)
    /\ Running => reader.nr = container.nr /\ Continues(reader.n, Len(queue))
    /\ ~Streams

(* Types of what the proofs compare.                                        *)
LEMMA ShownTypes ==
    ASSUME TypeOK
    PROVE  /\ now \in Nat /\ offset \in Nat /\ SubTime \in Nat
           /\ DOMAIN queue = 1 .. Len(queue) /\ Len(queue) \in Nat
           /\ ReadAhead \in Nat /\ ReadAhead >= 3
           /\ \A i \in 1 .. Len(queue) : queue[i].n \in DOMAIN Times /\ queue[i] # NoFrame
           /\ shown # NoFrame => shown.n \in DOMAIN Times
           /\ shown = NoFrame => shown.n = 0
           /\ Running => reader.n \in 1 .. (Len(Times) + 1) /\ reader.left \in 0 .. ReadAhead
                         /\ reader.nr # 0
<1>1. now \in Nat /\ offset \in Nat /\ SubTime \in Nat
    BY BoundsAssumption DEF TypeOK, SubTime
<1>2. \A f \in Frames : f.n \in DOMAIN Times /\ f.n # 0
    BY TimesInOrder DEF Frames
<1>3. NoFrame.n = 0
    BY DEF NoFrame
<1>4. /\ DOMAIN queue = 1 .. Len(queue) /\ Len(queue) \in Nat
      /\ ReadAhead \in Nat /\ ReadAhead >= 3
      /\ \A i \in 1 .. Len(queue) : queue[i] \in Frames
    BY BoundsAssumption DEF TypeOK
<1>5. /\ shown # NoFrame => shown \in Frames
    BY DEF TypeOK
<1> QED
    BY <1>1, <1>2, <1>3, <1>4, <1>5, Passes

(* Who begins behind a subtitle that has ended misses nothing.              *)
LEMMA EndedBehind ==
    ASSUME WellTimed, SubTime \in Nat, NEW n \in DOMAIN Times, Ended(n)
    PROVE  Begins(n + 1)
<1> SUFFICES ASSUME NEW m \in DOMAIN Times, m < n + 1
             PROVE  Ended(m)
    BY DEF Begins
<1>1. m <= n /\ Times[n][2] \in Nat /\ Times[m][2] \in Nat
    BY TimesInOrder
<1>2. Times[m][2] <= Times[n][2]
    BY <1>1, TimesInOrder DEF WellTimed
<1> QED
    BY <1>1, <1>2 DEF Ended

(* If something is due, it is before a subtitle that has not yet started.   *)
LEMMA DueBefore ==
    ASSUME SubTime \in Nat, Due, NEW n \in DOMAIN Times, Begins(n), ~Ended(n)
    PROVE  Started(n)
<1>1. PICK m \in DOMAIN Times : Started(m) /\ ~Ended(m)
    BY DEF Due
<1>2. n \in Nat /\ m \in Nat
    BY TimesInOrder
<1>3. CASE m < n
    BY <1>1, <1>3 DEF Begins
<1>4. CASE n <= m
    <2>1. Times[n][1] <= Times[m][1] /\ Times[n][1] \in Nat /\ Times[m][1] \in Nat
        BY <1>2, <1>4, TimesInOrder
    <2> QED
        BY <1>1, <2>1 DEF Started
<1> QED
    BY <1>2, <1>3, <1>4

(* Time that goes on makes nothing young again (Tick).                      *)
LEMMA TimeGoesOn ==
    ASSUME TypeOK, now' \in Nat, now <= now', offset' = offset
    PROVE  /\ \A n \in DOMAIN Times : (Started(n) => Started(n)') /\ (Ended(n) => Ended(n)')
           /\ \A n : Begins(n) => Begins(n)'
<1>1. SubTime \in Nat /\ SubTime' \in Nat /\ SubTime <= SubTime'
    BY ShownTypes DEF SubTime
<1>2. \A n \in DOMAIN Times : (Started(n) => Started(n)') /\ (Ended(n) => Ended(n)')
    BY <1>1, TimesInOrder DEF Started, Ended
<1> QED
    BY <1>2 DEF Begins

(* The reader's passes extend what is coming (read_from_container).         *)
LEMMA ReaderComing ==
    ASSUME WellTimed, TypeInv, Reader, Clean, Clean', ComingInv
    PROVE  ComingInv'
<1>type. TypeOK
    BY DEF TypeInv
<1>0. UNCHANGED <<shown, container, now, offset, source>>
    BY DEF Reader, AskContainer, ReadContainer, EnqueueSubtitle, ReadStream, PushFromStream,
           ReadNothing, player, screen
<1>1. \A n : (Begins(n)' <=> Begins(n)) /\ (Following(n)' <=> Following(n))
    BY <1>0 DEF Begins, Following, Ended, Started, SubTime
<1>2. CASE AskContainer \/ ReadNothing
    <2>1. UNCHANGED queue /\ reader' \in {Idle, Asking}
        BY <1>2 DEF AskContainer, ReadNothing, screen
    <2> QED
        BY <1>0, <1>1, <2>1 DEF ComingInv, Continues, Running, Streams, Unlocked, Idle, Asking
<1>3. CASE ReadContainer
    <2> DEFINE n == FindLastBefore(SubTime)
    <2>1. queue' = queue
        BY <1>3 DEF ReadContainer, screen
    <2>2. \/ reader' = Idle
          \/ /\ reader' = [nr |-> container.nr, n |-> n, left |-> ReadAhead - Len(queue)]
             /\ container # NoFile
        BY <1>3 DEF ReadContainer
    <2>3. Begins(n)
        BY <1>type, ShownTypes, LastBefore
    <2> HIDE DEF n
    <2>4. CASE reader' = Idle
        BY <1>0, <1>1, <2>1, <2>4 DEF ComingInv, Continues, Running, Streams, Unlocked, Idle
    <2>5. CASE /\ reader' = [nr |-> container.nr, n |-> n, left |-> ReadAhead - Len(queue)]
               /\ container # NoFile
        <3>1. reader'.nr = container.nr /\ reader'.n = n /\ container.nr # 0
            BY <1>type, <2>5, ChoiceNumbers
        <3> QED
            BY <1>0, <1>1, <2>1, <2>3, <3>1 DEF ComingInv, Continues, Following, Streams, Unlocked
    <2> QED
        BY <2>2, <2>4, <2>5
<1>4. CASE EnqueueSubtitle
    <2>1. Running /\ reader.nr = container.nr /\ Continues(reader.n, Len(queue)) /\ reader.nr # 0
        BY <1>4 DEF EnqueueSubtitle, Running, ComingInv, Unlocked
    <2>2. CASE medium = "playing" /\ reader.n \in DOMAIN Times /\ reader.left > 0
        <3> DEFINE f == [nr |-> reader.nr, n |-> reader.n]
        <3>1. /\ queue' = Append(queue, f)
              /\ reader' = [reader EXCEPT !.n = @ + 1, !.left = @ - 1]
            BY <1>4, <2>2, PassPushes
        <3>2. f.nr = reader.nr /\ f.n = reader.n
            OBVIOUS
        <3> HIDE DEF f
        <3>3. queue \in Seq(Frames \cup {f})
            BY <1>type DEF TypeOK
        <3>4. /\ DOMAIN queue' = 1 .. (Len(queue) + 1) /\ Len(queue') = Len(queue) + 1
              /\ \A i \in 1 .. Len(queue) : queue'[i] = queue[i]
              /\ queue'[Len(queue) + 1] = f
            BY <3>1, <3>3, SequenceOps
        <3>5. reader'.nr = container.nr /\ reader'.n = reader.n + 1
            BY <1>type, <2>1, <3>1, Passes
        <3>6. DOMAIN queue = 1 .. Len(queue) /\ Len(queue) \in Nat
            BY <1>type, ShownTypes
        <3>7. ASSUME NEW i \in 1 .. Len(queue)
              PROVE  /\ queue[i].nr = container.nr
                     /\ i = 1 => Following(queue[i].n)
                     /\ i # 1 => Begins(queue[i].n) \/ queue[i].n = queue[i - 1].n + 1
            BY <3>6 DEF ComingInv, Continues
        <3>8. /\ f.nr = container.nr
              /\ Len(queue) = 0 => Following(f.n)
              /\ Len(queue) # 0 => Begins(f.n) \/ f.n = queue[Len(queue)].n + 1
            BY <2>1, <3>2 DEF Continues
        <3>9. ASSUME NEW i \in DOMAIN queue'
              PROVE  /\ queue'[i].nr = container.nr
                     /\ i = 1 => Following(queue'[i].n)
                     /\ i # 1 => Begins(queue'[i].n) \/ queue'[i].n = queue'[i - 1].n + 1
            <4>1. CASE i = Len(queue) + 1
                <5>1. Len(queue) # 0 => queue'[i - 1] = queue[Len(queue)]
                    BY <3>4, <3>6, <4>1
                <5> QED
                    BY <3>4, <3>6, <3>8, <4>1, <5>1
            <4>2. CASE i \in 1 .. Len(queue)
                <5>1. i # 1 => queue'[i - 1] = queue[i - 1]
                    BY <3>4, <3>6, <4>2
                <5> QED
                    BY <3>4, <3>7, <4>2, <5>1
            <4> QED
                BY <3>4, <3>6, <4>1, <4>2
        <3>10. \A i \in DOMAIN queue' : i \in Int /\ (i - 1 = 0 <=> i = 1)
            BY <3>4, <3>6
        <3>11. \A i \in DOMAIN queue' :
                   queue'[i].nr = container'.nr /\ Continues(queue[i].n, i - 1)'
            BY <1>0, <1>1, <3>9, <3>10 DEF Continues
        <3>12. (Running => reader.nr = container.nr /\ Continues(reader.n, Len(queue)))'
            <4>1. Len(queue') # 0 /\ reader'.n = queue'[Len(queue')].n + 1
                BY <3>2, <3>4, <3>5, <3>6
            <4> QED
                BY <1>0, <3>5, <4>1 DEF Continues
        <3> QED
            BY <1>0, <2>1, <3>5, <3>11, <3>12 DEF ComingInv, Streams, Unlocked
    <2>3. CASE ~(medium = "playing" /\ reader.n \in DOMAIN Times /\ reader.left > 0)
        <3>1. reader' = Idle /\ queue' = queue
            BY <1>4, <2>3 DEF EnqueueSubtitle
        <3> QED
            BY <1>0, <1>1, <3>1 DEF ComingInv, Continues, Running, Streams, Unlocked, Idle
    <2> QED
        BY <2>2, <2>3
<1>5. CASE ReadStream
    BY <1>5 DEF ReadStream, Clean
<1>6. CASE PushFromStream
    BY <1>6 DEF PushFromStream, ComingInv, Streams
<1> QED
    BY <1>2, <1>3, <1>4, <1>5, <1>6 DEF Reader

(* A frame takes away what has ended and what it shows                      *)
(* (update_current_subtitle).                                               *)
LEMMA FrameComing ==
    ASSUME WellTimed, TypeInv, UpdateSubtitle, ComingInv
    PROVE  ComingInv'
<1>type. TypeOK
    BY DEF TypeInv
<1>0. UNCHANGED <<container, now, offset, source, reader>>
    BY DEF UpdateSubtitle, player
<1>1. /\ \A n : Begins(n)' <=> Begins(n)
      /\ \A n : Following(n)' <=> \/ Begins(n)
                                  \/ /\ n - 1 \in DOMAIN Times /\ Started(n - 1)
                                     /\ shown'.nr = container.nr /\ shown'.n = n - 1
    BY <1>0 DEF Begins, Following, Ended, Started, SubTime
<1>2. /\ SubTime \in Nat /\ DOMAIN queue = 1 .. Len(queue) /\ Len(queue) \in Nat
      /\ \A i \in 1 .. Len(queue) : queue[i].n \in DOMAIN Times /\ queue[i] # NoFrame
    BY <1>type, ShownTypes
<1>3. queue \in Seq(Frames) /\ queue' \in Seq(Frames)
    BY <1>type, FrameDrawn DEF TypeOK
<1>4. DOMAIN queue' = 1 .. Len(queue') /\ Len(queue') \in Nat
    BY <1>3
<1>5. PICK k \in 0 .. Len(queue) :
          /\ \A i \in 1 .. k : TooOld(queue[i])
          /\ \/ /\ k < Len(queue) /\ Within(queue[k + 1]) /\ shown' = queue[k + 1]
                /\ Len(queue') = Len(queue) - (k + 1)
                /\ \A i \in 1 .. Len(queue') : queue'[i] = queue[i + (k + 1)]
             \/ /\ shown' = IF Within(shown) THEN shown ELSE NoFrame
                /\ Len(queue') = Len(queue) - k
                /\ \A i \in 1 .. Len(queue') : queue'[i] = queue[i + k]
    BY <1>3, FrameDrawn
<1>6. ASSUME NEW i \in 1 .. Len(queue)
      PROVE  /\ queue[i].nr = container.nr
             /\ i = 1 => Following(queue[i].n)
             /\ i # 1 => Begins(queue[i].n) \/ queue[i].n = queue[i - 1].n + 1
    BY <1>2 DEF ComingInv, Continues
<1>7. Running => /\ reader.nr = container.nr
                 /\ Len(queue) = 0 => Following(reader.n)
                 /\ Len(queue) # 0 => Begins(reader.n) \/ reader.n = queue[Len(queue)].n + 1
    BY DEF ComingInv, Continues
(* What is left behind the j popped.                                        *)
<1>8. ASSUME NEW j \in 0 .. Len(queue), Len(queue') = Len(queue) - j,
             \A i \in 1 .. Len(queue') : queue'[i] = queue[i + j],
             \A n \in Int :
                    /\ j = 0 /\ Following(n) => Following(n)'
                    /\ j # 0 /\ (Begins(n) \/ n = queue[j].n + 1) => Following(n)'
      PROVE  ComingInv'
    <2>0. /\ j \in Nat /\ Len(queue') \in Nat /\ Len(queue) \in Nat
          /\ Len(queue') + j = Len(queue)
        BY <1>2, <1>4, <1>8
    <2>1. ASSUME NEW i \in DOMAIN queue'
          PROVE  /\ queue'[i].nr = container.nr
                 /\ i = 1 => Following(queue[i].n)'
                 /\ i # 1 => Begins(queue'[i].n) \/ queue'[i].n = queue'[i - 1].n + 1
        <3>0. \A m \in 1 .. Len(queue) : queue[m].n \in Int
            BY <1>2, TimesInOrder
        <3>1. i + j \in 1 .. Len(queue) /\ queue'[i] = queue[i + j]
            BY <1>2, <1>4, <1>8
        <3>2. /\ i = 1 /\ j # 0 => (i + j) - 1 = j /\ i + j # 1
              /\ i = 1 /\ j = 0 => i + j = 1
              /\ i # 1 => i + j # 1
            BY <1>2, <1>4, <1>8
        <3>3. i # 1 => queue'[i - 1] = queue[(i + j) - 1]
            <4>1. i # 1 => i - 1 \in 1 .. Len(queue') /\ (i - 1) + j = (i + j) - 1
                BY <1>4, <2>0
            <4> QED
                BY <1>8, <4>1
        <3>4. /\ queue[i + j].nr = container.nr
              /\ i + j = 1 => Following(queue[i + j].n)
              /\ i + j # 1 => Begins(queue[i + j].n) \/ queue[i + j].n = queue[(i + j) - 1].n + 1
            BY <1>6, <3>1
        <3>5. i = 1 => Following(queue[i].n)'
            BY <1>8, <3>0, <3>1, <3>2, <3>4
        <3> QED
            BY <3>1, <3>2, <3>3, <3>4, <3>5
    <2>2. \A i \in DOMAIN queue' : i \in Int /\ (i - 1 = 0 <=> i = 1)
        BY <1>4
    <2>3. \A i \in DOMAIN queue' :
              queue'[i].nr = container'.nr /\ Continues(queue[i].n, i - 1)'
        BY <1>0, <1>1, <2>1, <2>2 DEF Continues
    <2>4. (Running => reader.nr = container.nr /\ Continues(reader.n, Len(queue)))'
        <3> SUFFICES ASSUME Running PROVE reader.nr = container.nr /\ Continues(reader.n, Len(queue))'
            BY <1>0 DEF Running, Unlocked
        <3>1. CASE Len(queue') # 0
            <4>1. /\ Len(queue') \in 1 .. Len(queue') /\ Len(queue') + j = Len(queue)
                  /\ Len(queue) # 0
                BY <2>0, <3>1
            <4>2. queue'[Len(queue')] = queue[Len(queue)]
                BY <1>8, <4>1
            <4> QED
                BY <1>0, <1>1, <1>7, <3>1, <4>1, <4>2 DEF Continues
        <3>2. CASE Len(queue') = 0
            <4>1. j = Len(queue)
                BY <2>0, <3>2
            <4>2. Following(reader.n)'
                <5>1. reader.n \in Int
                    BY <1>type, ShownTypes
                <5> QED
                    BY <1>0, <1>7, <1>8, <4>1, <5>1
            <4> QED
                BY <1>7, <3>2, <4>2 DEF Continues
        <3> QED
            BY <3>1, <3>2
    <2>5. ~Streams'
        BY <1>0 DEF ComingInv, Streams, Unlocked
    <2> QED
        BY <2>3, <2>4, <2>5 DEF ComingInv
<1>9. CASE /\ k < Len(queue) /\ Within(queue[k + 1]) /\ shown' = queue[k + 1]
           /\ Len(queue') = Len(queue) - (k + 1)
           /\ \A i \in 1 .. Len(queue') : queue'[i] = queue[i + (k + 1)]
    <2>1. /\ k + 1 \in 1 .. Len(queue) /\ k + 1 # 0 /\ queue[k + 1].n \in DOMAIN Times
          /\ queue[k + 1].n \in Nat
        BY <1>2, <1>9, TimesInOrder
    <2>2. Started(queue[k + 1].n) /\ queue[k + 1].nr = container.nr
        BY <1>6, <1>9, <2>1 DEF Within, Started
    <2>3. \A n : n = queue[k + 1].n + 1 => Following(n)'
        BY <1>1, <1>9, <2>1, <2>2, SMTT(30)
    <2>4. \A n : Begins(n) => Following(n)'
        BY <1>1
    <2>5. ASSUME NEW n \in Int
          PROVE  /\ k + 1 = 0 /\ Following(n) => Following(n)'
                 /\ k + 1 # 0 /\ (Begins(n) \/ n = queue[k + 1].n + 1) => Following(n)'
        BY <2>1, <2>3, <2>4
    <2>6. k + 1 \in 0 .. Len(queue)
        BY <2>1
    <2> QED
        BY <1>8, <1>9, <2>5, <2>6
<1>10. CASE /\ shown' = IF Within(shown) THEN shown ELSE NoFrame
            /\ Len(queue') = Len(queue) - k
            /\ \A i \in 1 .. Len(queue') : queue'[i] = queue[i + k]
    <2>1. ASSUME NEW n \in Int, k = 0, Following(n)
          PROVE  Following(n)'
        <3>1. CASE Begins(n)
            BY <1>1, <3>1
        <3>2. CASE /\ n - 1 \in DOMAIN Times /\ Started(n - 1)
                   /\ shown.nr = container.nr /\ shown.n = n - 1
            <4>1. CASE Within(shown)
                BY <1>1, <1>10, <3>2, <4>1
            <4>2. CASE ~Within(shown)
                <5>1. shown # NoFrame
                    BY <1>type, <3>2, ShownTypes, TimesInOrder
                <5>2. Ended(n - 1)
                    BY <1>2, <3>2, <4>2, <5>1, TimesInOrder DEF Within, Started, Ended
                <5>3. Begins((n - 1) + 1)
                    BY <1>2, <3>2, <5>2, EndedBehind
                <5>4. Begins(n) /\ (n - 1) + 1 = n
                    <6>1. (n - 1) + 1 = n
                        OBVIOUS
                    <6> QED
                        BY <5>3, <6>1
                <5> QED
                    BY <1>1, <5>4
            <4> QED
                BY <4>1, <4>2
        <3> QED
            BY <2>1, <3>1, <3>2 DEF Following
    <2>2. ASSUME NEW n \in Int, k # 0, Begins(n) \/ n = queue[k].n + 1
          PROVE  Following(n)'
        <3>1. k \in 1 .. Len(queue) /\ TooOld(queue[k])
            <4>1. k \in 1 .. k /\ k \in 1 .. Len(queue)
                BY <2>2
            <4> QED
                BY <1>5, <4>1
        <3>2. Begins(queue[k].n + 1)
            BY <1>2, <3>1, EndedBehind DEF TooOld, Ended
        <3> QED
            BY <1>1, <2>2, <3>2
    <2> QED
        BY <1>8, <1>10, <2>1, <2>2
<1> QED
    BY <1>5, <1>9, <1>10

(* The queue stays so until the choice, the container or the position       *)
(* changes; then nothing is said until it is empty.                         *)
LEMMA ComingInductive ==
    ASSUME WellTimed
    PROVE  Spec => [](Clean => ComingInv)
<1>1. Init => (Clean => ComingInv)
    BY DEF Init, Clean
<1>2. TypeInv /\ (Clean => ComingInv) /\ [Next]_vars => (Clean => ComingInv)'
    <2> SUFFICES ASSUME TypeInv, Clean => ComingInv, [Next]_vars, Clean' PROVE ComingInv'
        OBVIOUS
    <2> USE DEF player, download, screen, history
    <2>type. TypeOK
        BY DEF TypeInv
    <2>empty. ASSUME queue' = <<>>, reader' = Idle PROVE ComingInv'
        BY <2>empty DEF ComingInv, Running, Streams, Unlocked, Idle
    <2>1. CASE UNCHANGED vars
        BY <2>1 DEF vars, Clean, ComingInv, Continues, Following, Begins, Started, Ended, SubTime,
           Running, Streams, Unlocked
    <2>2. ASSUME NEW q, Disturb(q), q = queue \/ q = queue', reader' = reader,
                 queue' = queue \/ queue' = <<>>
          PROVE  ComingInv'
        BY <2>2, <2>empty DEF Disturb, Clean
    <2>3. CASE Choose \/ Activate \/ SetContainer \/ SeekInSync
                  \/ \E t \in 0 .. MaxTime : AdjustTime(t)
        BY <2>2, <2>3 DEF Choose, Activate, SetContainer, SeekInSync, AdjustTime
    <2>4. CASE SeekFlush \/ OpenMedium
        BY <2>2, <2>4 DEF SeekFlush, OpenMedium
    <2>5. CASE StartPlaying
        BY <2>5, <2>empty DEF StartPlaying, TypeInv
    <2>6. CASE TakeJob \/ Downloaded \/ DownloadFails \/ SeekFlushDone
        <3>1. UNCHANGED <<medium, source, settled, now, offset, container, queue, shown, reader>>
            BY <2>6 DEF TakeJob, Downloaded, DownloadFails, SeekFlushDone
        <3> QED
            BY <3>1 DEF Clean, ComingInv, Continues, Following, Begins, Started, Ended, SubTime,
               Running, Streams, Unlocked
    <2>7. CASE Reader
        <3>1. Clean
            BY <2>7 DEF Clean, Reader, AskContainer, ReadContainer, EnqueueSubtitle, ReadStream,
               PushFromStream, ReadNothing
        <3> QED
            BY <2>7, <3>1, ReaderComing
    <2>8. CASE UpdateSubtitle
        <3>1. Clean \/ (queue' = <<>> /\ reader' = Idle)
            BY <2>8 DEF Clean, UpdateSubtitle, Drawn
        <3> QED
            BY <2>8, <3>1, <2>empty, FrameComing
    <2>9. CASE Tick
        <3>1. /\ Clean /\ UNCHANGED <<offset, container, queue, shown, reader>>
              /\ now' \in Nat /\ now <= now'
            BY <2>9, <2>type, ShownTypes DEF Tick, Clean
        <3>2. /\ \A n \in DOMAIN Times : Started(n) => Started(n)'
              /\ \A n : Begins(n) => Begins(n)'
            BY <2>type, <3>1, TimeGoesOn
        <3>3. \A n : Following(n) => Following(n)'
            BY <3>1, <3>2 DEF Following
        <3> QED
            BY <3>1, <3>2, <3>3 DEF ComingInv, Continues, Running, Streams, Unlocked
    <2>10. CASE CloseMedium
        BY <2>10 DEF CloseMedium, Clean
    <2> QED
        BY <2>1, <2>3, <2>4, <2>5, <2>6, <2>7, <2>8, <2>9, <2>10 DEF Next, UI
<1> QED
    BY <1>1, <1>2, TypeInductive, PTL DEF Spec
-----------------------------------------------------------------------------
(* Two turns of the reader and the UI thread *)

(* The screen shows what is due; or the queue holds what has not ended; or  *)
(* the reader is about to push it.                                          *)
Good    == Within(shown) /\ shown.nr = container.nr
Hit     == Good \/ \E i \in DOMAIN queue : ~TooOld(queue[i])
Promise ==
    \/ Hit
    \/ /\ Running
       /\ \E m \in DOMAIN Times : reader.n <= m /\ m < reader.n + reader.left /\ ~Ended(m)

(* What DueSubtitleShown is about. *)
Calm ==
    /\ medium = "playing" /\ source = "text_file" /\ settled = "calm"
    /\ seek = "ready" /\ container # NoFile /\ Due

(* A first pass that brings nothing fills the queue with old copies or      *)
(* leaves it almost empty; the frame after it empties it; the second pass,  *)
(* even if it began before that frame, has room for two: what is due is one *)
(* of them.                                                                 *)
TurnsInv ==
    /\ passed = 0 /\ Running =>
          \/ Promise
          \/ /\ reader.left <= 1 /\ (reader.left = 1 => reader.n \in DOMAIN Times)
             /\ Len(queue) + reader.left = ReadAhead \/ Len(queue) + reader.left <= 1
    /\ passed = 1 => Promise \/ (~Running /\ (Len(queue) >= ReadAhead \/ Len(queue) <= 1))
    /\ passed = 2 => Promise \/ (~Running /\ Len(queue) = 0)
    /\ passed = 3 => Hit
    /\ passed = 4 => Good

(* A frame shows what is due, unless all that was queued had ended          *)
(* (update_current_subtitle).                                               *)
LEMMA FrameShows ==
    ASSUME WellTimed, TypeInv, ComingInv, Due, UpdateSubtitle
    PROVE  Good' \/ (~Hit /\ Len(queue') = 0)
<1>type. TypeOK
    BY DEF TypeInv
<1>0. UNCHANGED <<container, now, offset>>
    BY DEF UpdateSubtitle, player
<1>1. \A f : Within(f)' <=> Within(f)
    BY <1>0 DEF Within, SubTime
<1>2. /\ SubTime \in Nat /\ DOMAIN queue = 1 .. Len(queue) /\ Len(queue) \in Nat
      /\ \A i \in 1 .. Len(queue) : queue[i].n \in DOMAIN Times /\ queue[i] # NoFrame
    BY <1>type, ShownTypes
<1>3. queue \in Seq(Frames)
    BY <1>type DEF TypeOK
<1>4. PICK k \in 0 .. Len(queue) :
          /\ \A i \in 1 .. k : TooOld(queue[i])
          /\ \/ k < Len(queue) /\ Within(queue[k + 1]) /\ shown' = queue[k + 1]
             \/ /\ k < Len(queue) => ~Within(queue[k + 1]) /\ ~TooOld(queue[k + 1])
                /\ shown' = IF Within(shown) THEN shown ELSE NoFrame
                /\ Len(queue') = Len(queue) - k
    BY <1>3, FrameDrawn
<1>5. ASSUME NEW i \in 1 .. Len(queue)
      PROVE  /\ queue[i].nr = container.nr
             /\ i = 1 => Following(queue[i].n)
             /\ i # 1 => Begins(queue[i].n) \/ queue[i].n = queue[i - 1].n + 1
    BY <1>2 DEF ComingInv, Continues
<1>6. CASE k < Len(queue) /\ Within(queue[k + 1]) /\ shown' = queue[k + 1]
    <2>1. queue[k + 1].nr = container.nr
        BY <1>2, <1>5, <1>6
    <2> QED
        BY <1>0, <1>1, <1>6, <2>1 DEF Good
<1>7. CASE /\ k < Len(queue) => ~Within(queue[k + 1]) /\ ~TooOld(queue[k + 1])
           /\ shown' = IF Within(shown) THEN shown ELSE NoFrame
           /\ Len(queue') = Len(queue) - k
    <2>1. Good => Good'
        BY <1>0, <1>1, <1>7 DEF Good
    <2>2. CASE k = Len(queue)
        <3>1. Hit => Good
            BY <1>2, <1>4, <2>2 DEF Hit
        <3> QED
            BY <1>2, <1>7, <2>1, <2>2, <3>1
    <2>3. CASE k < Len(queue)
        <3> DEFINE n == queue[k + 1].n
        <3>1. k + 1 \in 1 .. Len(queue) /\ n \in DOMAIN Times /\ queue[k + 1] # NoFrame
            BY <1>2, <2>3
        <3>2. ~Ended(n) /\ ~Started(n)
            <4>1. Times[n][1] \in Nat /\ Times[n][2] \in Nat
                BY <3>1, TimesInOrder
            <4> QED
                BY <1>2, <1>7, <2>3, <3>1, <4>1 DEF Within, TooOld, Ended, Started
        <3>3. ~Begins(n)
            BY <1>2, <3>1, <3>2, DueBefore
        <3>4. CASE k # 0
            <4>1. k \in 1 .. Len(queue) /\ k \in 1 .. k /\ (k + 1) - 1 = k /\ k + 1 # 1
                BY <2>3, <3>4
            <4>2. Ended(queue[k].n) /\ queue[k].n \in DOMAIN Times
                BY <1>2, <1>4, <4>1 DEF TooOld, Ended
            <4>3. n = queue[k].n + 1
                BY <1>5, <3>1, <3>3, <4>1
            <4>4. Begins(queue[k].n + 1)
                BY <1>2, <4>2, EndedBehind
            <4> QED
                BY <3>3, <4>3, <4>4
        <3>5. CASE k = 0
            <4>1. /\ n - 1 \in DOMAIN Times /\ Started(n - 1)
                  /\ shown.nr = container.nr /\ shown.n = n - 1
                BY <1>5, <3>1, <3>3, <3>5 DEF Following
            <4>2. ~Ended(n - 1)
                <5>1. Ended(n - 1) => Begins((n - 1) + 1)
                    BY <1>2, <4>1, EndedBehind
                <5>2. (n - 1) + 1 = n
                    BY <3>1, TimesInOrder
                <5> QED
                    BY <3>3, <5>1, <5>2
            <4>3. shown # NoFrame /\ Times[n - 1][2] \in Nat
                BY <1>type, <4>1, ShownTypes, TimesInOrder, SMTT(30)
            <4>4. Within(shown)
                BY <1>2, <4>1, <4>2, <4>3 DEF Within, Started, Ended
            <4> QED
                BY <2>1, <4>1, <4>4 DEF Good
        <3> QED
            BY <3>4, <3>5
    <2> QED
        BY <1>4, <2>2, <2>3
<1> QED
    BY <1>4, <1>6, <1>7

(* Which keeps what the two turns have brought.                             *)
LEMMA FrameTurns ==
    ASSUME WellTimed, TypeInv, ComingInv, Due, UpdateSubtitle, TurnsInv
    PROVE  TurnsInv'
<1>type. TypeOK /\ Len(queue) \in Nat /\ ReadAhead \in Nat /\ (Running => reader.left \in Nat)
    BY ShownTypes DEF TypeInv
<1>0. /\ UNCHANGED <<container, now, offset, reader>>
      /\ passed' = IF passed \in {1, 3} THEN passed + 1 ELSE passed
    BY DEF UpdateSubtitle, Drawn, player
<1>1. /\ Running' <=> Running
      /\ \A n : Ended(n)' <=> Ended(n)
    BY <1>0 DEF Running, Unlocked, Ended, SubTime
<1>2. passed \in 0 .. 4
    BY <1>type DEF TypeOK
<1>3. CASE Good'
    <2>1. Hit' /\ Promise'
        BY <1>3 DEF Hit, Promise
    <2> QED
        BY <1>3, <2>1 DEF TurnsInv
<1>4. CASE ~Hit /\ Len(queue') = 0
    <2>1. Promise => Promise'
        BY <1>0, <1>1, <1>4 DEF Promise
    <2>2. Good => Hit
        BY DEF Hit
    <2>3. passed \in {0, 1, 2}
        BY <1>2, <1>4, <2>2 DEF TurnsInv
    <2>4. CASE passed = 0
        <3>1. passed' = 0
            BY <1>0, <2>4
        <3> QED
            BY <1>type, <1>0, <1>1, <1>4, <2>1, <2>4, <3>1 DEF TurnsInv
    <2>5. CASE passed \in {1, 2}
        <3>1. passed' = 2
            BY <1>0, <2>5
        <3> QED
            BY <1>0, <1>1, <1>4, <2>1, <2>5, <3>1 DEF TurnsInv
    <2> QED
        BY <2>3, <2>4, <2>5
<1> QED
    BY <1>3, <1>4, FrameShows

(* A pass begins with room for what is due, unless the queue is as good as  *)
(* full (read_from_container).                                              *)
LEMMA BeginTurns ==
    ASSUME WellTimed, TypeInv, Calm, ReadContainer, TurnsInv
    PROVE  TurnsInv'
<1>type. TypeOK
    BY DEF TypeInv
<1> DEFINE n == FindLastBefore(SubTime)
           room == ReadAhead - Len(queue)
<1>0. /\ UNCHANGED <<container, now, offset, queue, shown>> /\ reader = Asking
      /\ container # NoFile
      /\ reader' = IF container # NoFile /\ Len(queue) < ReadAhead /\ n \in DOMAIN Times
                   THEN [nr |-> container.nr, n |-> n, left |-> room]
                   ELSE Idle
      /\ IF reader' = Idle THEN ReaderPassed ELSE UNCHANGED passed
    BY DEF ReadContainer, Calm, player, screen
<1>1. SubTime \in Nat /\ Len(queue) \in Nat /\ ReadAhead \in Nat /\ ReadAhead >= 3
    BY <1>type, ShownTypes
<1>2. n \in DOMAIN Times /\ \E m \in DOMAIN Times : n <= m /\ m < n + 2 /\ ~Ended(m)
    <2>1. Due /\ Len(Times) > 0
        BY TimesInOrder DEF Calm, Due
    <2> QED
        BY <1>1, <2>1, LastBefore
<1> HIDE DEF n
<1>3. /\ Good' <=> Good
      /\ Hit' <=> Hit
      /\ \A m : Ended(m)' <=> Ended(m)
    BY <1>0 DEF Good, Hit, Within, TooOld, Ended, SubTime
<1>4. ~Running
    BY <1>0 DEF Running, Unlocked, Asking
<1>5. Promise => Hit
    BY <1>4 DEF Promise
<1>6. Hit => Promise'
    BY <1>3 DEF Promise
<1>7. passed \in 0 .. 4
    BY <1>type DEF TypeOK
<1>8. CASE Len(queue) >= ReadAhead
    <2>1. reader' = Idle /\ ~Running'
        BY <1>0, <1>1, <1>8 DEF Running, Unlocked, Idle
    <2>2. passed' = IF passed \in {0, 2} THEN passed + 1 ELSE passed
        BY <1>0, <2>1 DEF ReaderPassed
    <2>3. passed = 2 => Hit
        BY <1>1, <1>5, <1>8 DEF TurnsInv
    <2>4. CASE passed = 0
        <3>1. passed' = 1
            BY <2>2, <2>4
        <3> QED
            BY <1>0, <1>8, <2>1, <3>1 DEF TurnsInv
    <2>5. CASE passed = 1
        <3>1. passed' = 1
            BY <2>2, <2>5
        <3> QED
            BY <1>0, <1>8, <2>1, <3>1 DEF TurnsInv
    <2>6. CASE passed \in {2, 3}
        <3>1. passed' = 3
            BY <2>2, <2>6
        <3> QED
            BY <1>3, <2>3, <2>6, <3>1 DEF TurnsInv
    <2>7. CASE passed = 4
        <3>1. passed' = 4
            BY <2>2, <2>7
        <3> QED
            BY <1>3, <2>7, <3>1 DEF TurnsInv
    <2> QED
        BY <1>7, <2>4, <2>5, <2>6, <2>7
<1>9. CASE Len(queue) < ReadAhead
    <2>1. reader' = [nr |-> container.nr, n |-> n, left |-> room]
        BY <1>0, <1>2, <1>9
    <2>2. reader'.n = n /\ reader'.left = room /\ reader'.nr = container.nr
        BY <2>1
    <2>3. container.nr # 0
        BY <1>type, <1>0, ChoiceNumbers DEF TypeOK, Files
    <2>4. Running' /\ reader' # Idle
        BY <2>2, <2>3 DEF Running, Unlocked, Idle, Asking
    <2>5. passed' = passed
        BY <1>0, <2>4
    <2>6. room \in Nat /\ room >= 1 /\ Len(queue) + room = ReadAhead
        BY <1>1, <1>9
    <2> HIDE DEF room
    <2>7. room >= 2 => Promise'
        <3> SUFFICES ASSUME room >= 2 PROVE Promise'
            OBVIOUS
        <3>1. PICK m \in DOMAIN Times : n <= m /\ m < n + 2 /\ ~Ended(m)
            BY <1>2
        <3>2. m < n + room
            BY <1>2, <2>6, <3>1, TimesInOrder
        <3> QED
            BY <1>3, <2>2, <2>4, <3>1, <3>2 DEF Promise
    <2>8. CASE passed = 0
        <3>1. room < 2 => room = 1
            BY <2>6
        <3> QED
            BY <1>0, <1>2, <2>2, <2>5, <2>6, <2>7, <2>8, <3>1 DEF TurnsInv
    <2>9. CASE passed = 1
        <3>1. Hit \/ Len(queue) <= 1
            BY <1>1, <1>5, <1>9, <2>9 DEF TurnsInv
        <3>2. Promise'
            BY <1>1, <1>6, <2>6, <2>7, <3>1
        <3> QED
            BY <2>5, <2>9, <3>2 DEF TurnsInv
    <2>10. CASE passed = 2
        <3>1. Hit \/ Len(queue) = 0
            BY <1>5, <2>10 DEF TurnsInv
        <3>2. Promise'
            BY <1>1, <1>6, <2>6, <2>7, <3>1
        <3> QED
            BY <2>5, <2>10, <3>2 DEF TurnsInv
    <2>11. CASE passed = 3 \/ passed = 4
        BY <1>3, <2>5, <2>11 DEF TurnsInv
    <2> QED
        BY <1>7, <2>8, <2>9, <2>10, <2>11
<1> QED
    BY <1>1, <1>8, <1>9

(* A pass keeps what it promised (subtitles_queue::push).                   *)
LEMMA PushTurns ==
    ASSUME TypeInv, Calm, EnqueueSubtitle, TurnsInv
    PROVE  TurnsInv'
<1>type. TypeOK
    BY DEF TypeInv
<1>0. /\ UNCHANGED <<container, now, offset, shown>> /\ Running /\ medium = "playing"
    BY DEF EnqueueSubtitle, Calm, Running, player
<1>1. /\ SubTime \in Nat /\ DOMAIN queue = 1 .. Len(queue) /\ Len(queue) \in Nat
      /\ ReadAhead \in Nat /\ reader.n \in 1 .. (Len(Times) + 1) /\ reader.left \in Nat
    BY <1>type, <1>0, ShownTypes
<1>2. /\ Good' <=> Good
      /\ \A f : TooOld(f)' <=> TooOld(f)
      /\ \A m : Ended(m)' <=> Ended(m)
    BY <1>0 DEF Good, Within, TooOld, Ended, SubTime
<1>3. passed \in 0 .. 4
    BY <1>type DEF TypeOK
<1>4. CASE reader.n \in DOMAIN Times /\ reader.left > 0
    <2> DEFINE f == [nr |-> reader.nr, n |-> reader.n]
    <2>1. /\ queue' = Append(queue, f) /\ passed' = passed
          /\ reader' = [reader EXCEPT !.n = @ + 1, !.left = @ - 1]
        BY <1>0, <1>4, PassPushes
    <2>2. f.n = reader.n /\ queue \in Seq(Frames \cup {f})
        BY <1>type DEF TypeOK
    <2> HIDE DEF f
    <2>3. /\ DOMAIN queue' = 1 .. (Len(queue) + 1) /\ Len(queue') = Len(queue) + 1
          /\ \A i \in 1 .. Len(queue) : queue'[i] = queue[i]
          /\ queue'[Len(queue) + 1] = f
        BY <2>1, <2>2, SequenceOps
    <2>4. /\ reader'.n = reader.n + 1 /\ reader'.left = reader.left - 1
          /\ reader'.nr = reader.nr /\ reader.nr # 0
        BY <1>type, <1>0, <2>1, Passes, ShownTypes
    <2>5. Running'
        BY <2>4 DEF Running, Unlocked, Idle, Asking
    <2>6. Hit => Hit'
        BY <1>1, <1>2, <2>3 DEF Hit
    <2>7. Promise => Promise'
        <3>1. ASSUME NEW m \in DOMAIN Times, reader.n <= m, m < reader.n + reader.left, ~Ended(m)
              PROVE  Promise'
            <4>1. CASE m = reader.n
                <5>1. ~TooOld(f)
                    BY <2>2, <3>1, <4>1 DEF TooOld, Ended
                <5>2. Len(queue) + 1 \in DOMAIN queue'
                    BY <1>1, <2>3
                <5> QED
                    BY <1>2, <2>3, <5>1, <5>2 DEF Promise, Hit
            <4>2. CASE m # reader.n
                <5>1. reader'.n <= m /\ m < reader'.n + reader'.left
                    BY <1>1, <2>4, <3>1, <4>2, TimesInOrder
                <5> QED
                    BY <1>2, <2>5, <3>1, <5>1 DEF Promise
            <4> QED
                BY <4>1, <4>2
        <3> QED
            BY <2>6, <3>1 DEF Promise
    <2>8. /\ reader.left <= 1 => reader'.left = 0
          /\ Len(queue') + reader'.left = Len(queue) + reader.left
        <3>1. Len(queue') = Len(queue) + 1 /\ reader'.left = reader.left - 1 /\ reader.left > 0
            BY <1>4, <2>3, <2>4
        <3>2. Len(queue) \in Nat /\ reader.left \in Nat
            BY <1>1
        <3> QED
            BY <3>1, <3>2
    <2>9. CASE passed = 0
        BY <1>0, <2>1, <2>7, <2>8, <2>9 DEF TurnsInv
    <2>10. CASE passed \in {1, 2}
        BY <1>0, <2>1, <2>7, <2>10 DEF TurnsInv
    <2>11. CASE passed \in {3, 4}
        BY <1>2, <2>1, <2>6, <2>11 DEF TurnsInv
    <2> QED
        BY <1>3, <2>9, <2>10, <2>11
<1>5. CASE ~(reader.n \in DOMAIN Times /\ reader.left > 0)
    <2>1. /\ queue' = queue /\ reader' = Idle /\ ~Running'
          /\ passed' = IF passed \in {0, 2} THEN passed + 1 ELSE passed
        BY <1>0, <1>5 DEF EnqueueSubtitle, ReaderPassed, Running, Unlocked, Idle
    <2>2. Hit' <=> Hit
        BY <1>2, <2>1 DEF Hit
    <2>3. Promise => Hit
        <3>1. ASSUME NEW m \in DOMAIN Times, reader.n <= m, m < reader.n + reader.left
              PROVE  FALSE
            BY <1>1, <1>5, <3>1, TimesInOrder
        <3> QED
            BY <3>1 DEF Promise
    <2>4. Hit => Promise'
        BY <2>2 DEF Promise
    <2>5. CASE passed = 0
        <3>1. passed' = 1
            BY <2>1, <2>5
        <3>2. \/ Hit
              \/ Len(queue) = ReadAhead \/ Len(queue) <= 1
            <4>1. \/ Hit
                  \/ /\ reader.left <= 1 /\ (reader.left = 1 => reader.n \in DOMAIN Times)
                     /\ Len(queue) + reader.left = ReadAhead \/ Len(queue) + reader.left <= 1
                BY <1>0, <2>3, <2>5 DEF TurnsInv
            <4>2. CASE Hit
                BY <4>2
            <4>3. CASE ~Hit
                <5>1. reader.left = 0
                    <6>1. reader.left <= 1 /\ (reader.left = 1 => reader.n \in DOMAIN Times)
                        BY <4>1, <4>3
                    <6>2. reader.left = 0 \/ reader.left = 1
                        BY <1>1, <6>1
                    <6>3. reader.left = 1 => reader.left > 0
                        BY <1>1
                    <6> QED
                        BY <1>5, <6>1, <6>2, <6>3, Zenon
                <5>2. Len(queue) + reader.left = Len(queue)
                    BY <1>1, <5>1
                <5>3. Len(queue) + reader.left = ReadAhead \/ Len(queue) + reader.left <= 1
                    BY <4>1, <4>3, Zenon
                <5> QED
                    BY <5>2, <5>3
            <4> QED
                BY <4>2, <4>3
        <3> QED
            BY <2>1, <2>4, <3>1, <3>2 DEF TurnsInv
    <2>6. CASE passed = 1
        <3>1. passed' = 1 /\ Hit
            BY <1>0, <2>1, <2>3, <2>6 DEF TurnsInv
        <3> QED
            BY <2>4, <3>1 DEF TurnsInv
    <2>7. CASE passed \in {2, 3}
        <3>1. passed' = 3 /\ Hit
            BY <1>0, <2>1, <2>3, <2>7 DEF TurnsInv
        <3> QED
            BY <2>2, <3>1 DEF TurnsInv
    <2>8. CASE passed = 4
        <3>1. passed' = 4 /\ Good
            BY <2>1, <2>8 DEF TurnsInv
        <3> QED
            BY <1>2, <3>1 DEF TurnsInv
    <2> QED
        BY <1>3, <2>5, <2>6, <2>7, <2>8
<1> QED
    BY <1>4, <1>5

(* Two turns are enough, from when the clock advances until something else  *)
(* changes.                                                                 *)
LEMMA TurnsInductive ==
    ASSUME WellTimed
    PROVE  Spec => [](Calm => TurnsInv)
<1>1. Init => (Calm => TurnsInv)
    BY DEF Init, Calm
<1>2. TypeInv /\ (Clean => ComingInv) /\ (Calm => TurnsInv) /\ [Next]_vars => (Calm => TurnsInv)'
    <2> SUFFICES ASSUME TypeInv, Clean => ComingInv, Calm => TurnsInv, [Next]_vars, Calm'
                 PROVE  TurnsInv'
        OBVIOUS
    <2> USE DEF player, download, screen, history
    <2>type. TypeOK
        BY DEF TypeInv
    <2>1. ASSUME UNCHANGED <<medium, source, settled, seek, now, offset, container, queue, shown, passed>>,
                 reader' = reader \/ (~Running /\ ~Running')
          PROVE  TurnsInv'
        <3>1. /\ Calm /\ (Running' <=> Running) /\ (Running => reader' = reader)
              /\ Good' <=> Good
              /\ \A f : TooOld(f)' <=> TooOld(f)
              /\ \A m : Ended(m)' <=> Ended(m)
            BY <2>1 DEF Calm, Due, Started, Ended, SubTime, Good, Within, TooOld, Running, Unlocked
        <3>2. Hit' <=> Hit
            BY <2>1, <3>1 DEF Hit
        <3>3. Promise' <=> Promise
            BY <3>1, <3>2 DEF Promise
        <3> QED
            BY <2>1, <3>1, <3>2, <3>3 DEF TurnsInv
    <2>2. CASE UNCHANGED vars \/ TakeJob \/ Downloaded \/ DownloadFails
        BY <2>1, <2>2 DEF vars, TakeJob, Downloaded, DownloadFails
    <2>3. CASE AskContainer
        BY <2>1, <2>3 DEF AskContainer, Running, Unlocked, Idle, Asking
    <2>4. \A q : ~Disturb(q)
        BY DEF Disturb, Calm
    <2>5. CASE \/ Choose \/ Activate \/ SetContainer \/ SeekFlush \/ OpenMedium \/ StartPlaying
               \/ SeekInSync \/ \E t \in 0 .. MaxTime : AdjustTime(t)
        BY <2>4, <2>5 DEF Choose, Activate, SetContainer, SeekFlush, OpenMedium, StartPlaying, SeekInSync,
           AdjustTime
    <2>6. CASE SeekFlushDone \/ CloseMedium \/ ReadStream \/ ReadNothing
        BY <2>6 DEF SeekFlushDone, CloseMedium, ReadStream, ReadNothing, Calm
    <2>11. CASE PushFromStream
        <3>1. Clean /\ Streams
            BY <2>11 DEF PushFromStream, Clean, Calm, Streams
        <3> QED
            BY <3>1 DEF ComingInv
    <2>7. CASE ReadContainer
        <3>1. Calm
            BY <2>7 DEF ReadContainer, Calm, Due, Started, Ended, SubTime
        <3> QED
            BY <2>7, <3>1, BeginTurns
    <2>8. CASE EnqueueSubtitle
        <3>1. Calm
            BY <2>8 DEF EnqueueSubtitle, Calm, Due, Started, Ended, SubTime
        <3> QED
            BY <2>8, <3>1, PushTurns
    <2>9. CASE UpdateSubtitle
        <3>1. Calm /\ Clean
            BY <2>9 DEF UpdateSubtitle, Drawn, Calm, Clean, Due, Started, Ended, SubTime
        <3> QED
            BY <2>9, <3>1, FrameTurns DEF Calm
    <2>10. CASE Tick
        <3>1. passed' = 0 /\ ~Running'
            BY <2>10 DEF Tick, Running, Unlocked, Idle
        <3> QED
            BY <3>1 DEF TurnsInv
    <2> QED
        BY <2>2, <2>3, <2>5, <2>6, <2>7, <2>8, <2>9, <2>10, <2>11 DEF Next, UI, Reader
<1> QED
    BY <1>1, <1>2, TypeInductive, ComingInductive, PTL DEF Spec

(* While a file is shown and nothing but the clock changes, a subtitle that *)
(* is due is on the screen after two turns of the reader and the UI thread, *)
(* for any subtitle file that is WellTimed and any number of changes before *)
(* (subtitle_reader_thread::read_from_container,                            *)
(* video_render_thread::update_current_subtitle).                           *)
THEOREM DueIsShown ==
    ASSUME WellTimed
    PROVE  Spec => []DueSubtitleShown
<1>1. TypeOK /\ (Calm => TurnsInv) => DueSubtitleShown
    <2> SUFFICES ASSUME TypeOK, Calm => TurnsInv,
                        medium = "playing", source = "text_file", seek = "ready", container # NoFile,
                        passed = 4, settled = "calm",
                        NEW n \in DOMAIN Times, Within([nr |-> container.nr, n |-> n])
                 PROVE  Within(shown) /\ shown.nr = container.nr
        BY DEF DueSubtitleShown
    <2>1. Started(n) /\ SubTime <= Times[n][2]
        BY DEF Within, Started
    <2>2. ~Ended(n)
        BY <2>1, ShownTypes, TimesInOrder DEF Ended
    <2>3. Due
        BY <2>1, <2>2 DEF Due
    <2>4. Good
        BY <2>3 DEF Calm, TurnsInv
    <2> QED
        BY <2>4 DEF Good
<1> QED
    BY <1>1, TypeCorrect, TurnsInductive, PTL
=============================================================================
