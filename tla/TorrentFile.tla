----------------------------- MODULE TorrentFile -----------------------------
(***************************************************************************)
(* Reading a file of a torrent while it is being downloaded                *)
(* (cpaf_libs/torrent: file, torrent, streaming_cache, torrents).          *)
(* Three parties meet in the piece cache: the reader, one thread that      *)
(* reads and seeks and waits for pieces; the alert thread, which learns of *)
(* finished and read pieces; and whoever cancels.  The cache is locked for *)
(* each piece, not for a wait.  libtorrent is external: it downloads,      *)
(* reads from disk and posts alerts, in any order.                         *)
(***************************************************************************)
EXTENDS PieceRanges

CONSTANTS ReadSizes,     \* sizes that are asked of read
          SeekSize,      \* what a blocking seek waits for
          ReadAhead,     \* 0: no streaming mode
          SeekTargets,   \* offsets that are asked of seek
          Found,         \* pieces that an earlier session may have left on disk
          Unreliable     \* pieces that may fail to be read from disk

(* FFmpeg reads into its io buffer of 4096 bytes, or past it when it wants
   more: a read may be longer than a piece. *)
ASSUME SizesAssumption ==
    /\ ReadSizes \subseteq Nat \ {0} /\ SeekSize \in Nat \ {0} /\ ReadAhead \in Nat
    /\ SeekTargets \subseteq Int
    /\ Found \subseteq 0 .. LastPiece /\ Unreliable \subseteq 0 .. LastPiece

VARIABLES
    has_meta, have,          \* libtorrent: metadata and pieces it has
    deadlines, finished,     \* ... pieces with a deadline, and piece_finished alerts
    reads,                   \* ... pieces whose read has been asked for and not answered
    cache,                   \* cache_map_: pieces with valid data
    downloaded, requested,   \* pieces_downloaded_, pieces_requested_
    cancel,                  \* cancel_io_state_, of the torrent and of the cache
    abort_io,                \* what the progress callbacks return
    offset,                  \* offsett_
    pc, call,                \* the reader: where it is and in which call
    result,                  \* what the last call delivered, if it was a read that succeeded
    failures                 \* history: pieces whose read failed during the wait

torrent == <<has_meta, have, deadlines, finished, reads>>
pieces  == <<cache, downloaded, requested>>
flags   == <<cancel, abort_io>>
reader  == <<offset, pc, call, result>>
vars    == <<torrent, pieces, flags, reader, failures>>

NoCall   == [op |-> "none", size |-> 0, range |-> NoRange, next |-> -1]
NoResult == [from |-> 0, first |-> 0, count |-> 0]

Waiting    == pc \in {"look", "try", "sleep"}
InMetaWait == pc \in {"meta", "meta_sleep"}
Requesting == pc \in {"seek_ahead", "request", "read_ahead"}
InCall     == Waiting \/ InMetaWait \/ Requesting \/ pc \in {"begin", "runaway"}

TypeOK ==
    /\ has_meta \in BOOLEAN /\ have \subseteq Pieces
    /\ deadlines \subseteq Pieces /\ finished \subseteq have /\ reads \subseteq have \cup (Int \ Pieces)
    /\ cache \subseteq have /\ downloaded \subseteq have /\ requested \subseteq Int
    /\ cancel \in {"not_requested", "requested", "completed"} /\ abort_io \in BOOLEAN
    /\ offset \in Int
    /\ pc \in {"closed", "idle", "begin", "look", "try", "sleep", "meta", "meta_sleep"}
              \cup {"seek_ahead", "request", "read_ahead", "runaway"}
    /\ call \in [op : {"none", "read", "seek"}, size : ReadSizes \cup {0, SeekSize},
                 range : Ranges, next : Int]
    /\ result \in [from : Int, first : Int, count : Nat]
    /\ failures \subseteq Int

Init ==
    /\ has_meta = FALSE /\ have \in SUBSET Found
    /\ deadlines = {} /\ finished = {} /\ reads = {}
    /\ cache = {} /\ downloaded = {} /\ requested = {}
    /\ cancel = "not_requested" /\ abort_io = FALSE
    /\ offset = 0 /\ pc = "closed" /\ call = NoCall /\ result = NoResult /\ failures = {}
-----------------------------------------------------------------------------
(* libtorrent. *)

Metadata ==
    /\ ~has_meta /\ has_meta' = TRUE
    /\ UNCHANGED <<have, deadlines, finished, reads, pieces, flags, reader, failures>>

Download(p) ==
    /\ has_meta /\ p \notin have
    /\ have' = have \cup {p} /\ finished' = finished \cup {p}
    /\ deadlines' = deadlines \ {p}
    /\ reads' = IF p \in deadlines THEN reads \cup {p} ELSE reads        \* alert_when_available
    /\ UNCHANGED <<has_meta, pieces, flags, reader, failures>>

(* A deadline on a piece that is there reads it, on one that is not in the
   torrent is answered as a failed read. *)
SetPieceDeadline(p) ==
    /\ deadlines' = IF p \in Pieces \ have THEN deadlines \cup {p} ELSE deadlines
    /\ reads' = IF p \in Pieces \ have THEN reads ELSE reads \cup {p}

ReadPiece(p) == reads' = reads \cup {p} /\ UNCHANGED deadlines
-----------------------------------------------------------------------------
(* The alert thread; each handler is one critical section of the cache. *)

HandlePieceFinished(p) ==
    /\ p \in finished /\ finished' = finished \ {p}
    /\ downloaded' = downloaded \cup {p}
    /\ requested' = requested \ {p}
    /\ IF p \in requested THEN ReadPiece(p) ELSE UNCHANGED <<deadlines, reads>>
    /\ UNCHANGED <<has_meta, have, cache, flags, reader, failures>>

(* A piece that is not in the torrent cannot be read. *)
Answered(p, ok) == IF ok THEN p \in have ELSE p \in Unreliable \/ p \notin Pieces

(* Mutant: only data that is still requested is kept. *)
HandlePieceReadRequested(p, ok) ==
    /\ p \in reads /\ Answered(p, ok)
    /\ reads' \in {reads, reads \ {p}}
    /\ cache' = IF ok /\ p \in requested THEN cache \cup {p} ELSE cache \ {p}
    /\ failures' = IF ~ok /\ InCall THEN failures \cup {p} ELSE failures
    /\ UNCHANGED <<has_meta, have, deadlines, finished, downloaded, requested, flags, reader>>

(* A failed read comes without a buffer, and replaces what was there.  A
   piece that was asked for twice may be answered twice. *)
HandlePieceRead(p, ok) ==
    /\ p \in reads /\ Answered(p, ok)
    /\ reads' \in {reads, reads \ {p}}
    /\ cache' = IF ok THEN cache \cup {p} ELSE cache \ {p}
    /\ failures' = IF ~ok /\ InCall THEN failures \cup {p} ELSE failures
    /\ UNCHANGED <<has_meta, have, deadlines, finished, downloaded, requested, flags, reader>>
-----------------------------------------------------------------------------
(* Whoever cancels: by the callbacks' answer, or by the torrent's own call.
   That sets a flag of the torrent and one of the cache; they are one here,
   because each is cleared when the wait that looks at it begins. *)

AbortIo ==
    /\ ~abort_io /\ abort_io' = TRUE
    /\ UNCHANGED <<torrent, pieces, cancel, reader, failures>>

CancelCurrentIoOperation ==
    /\ cancel' = "requested"
    /\ UNCHANGED <<torrent, pieces, abort_io, reader, failures>>
-----------------------------------------------------------------------------
(* The reader opens the torrent and waits for its metadata. *)

Open ==
    /\ pc = "closed" /\ pc' = "meta"
    /\ abort_io' = FALSE /\ cancel' = "not_requested"
    /\ UNCHANGED <<torrent, pieces, offset, call, result, failures>>

MetaLook ==
    /\ pc = "meta"
    /\ \/ has_meta /\ pc' = "idle" /\ UNCHANGED cancel
       \/ ~has_meta /\ abort_io /\ pc' = "closed" /\ UNCHANGED cancel
       \/ ~has_meta /\ ~abort_io /\ cancel # "not_requested"
          /\ cancel' = "completed" /\ pc' = "closed"
       \/ ~has_meta /\ ~abort_io /\ cancel = "not_requested"
          /\ pc' = "meta_sleep" /\ UNCHANGED cancel
    /\ UNCHANGED <<torrent, pieces, abort_io, offset, call, result, failures>>

MetaWake ==
    /\ pc = "meta_sleep" /\ pc' = "meta"
    /\ UNCHANGED <<torrent, pieces, flags, offset, call, result, failures>>

MetaTimeUp ==
    /\ pc = "meta_sleep" /\ pc' = "closed"
    /\ UNCHANGED <<torrent, pieces, flags, offset, call, result, failures>>
-----------------------------------------------------------------------------
(* The reader's calls. *)

BeginRead(size) ==
    /\ pc = "idle" /\ pc' = "begin" /\ result' = NoResult
    /\ call' = [NoCall EXCEPT !.op = "read", !.size = size]
    /\ UNCHANGED <<torrent, pieces, flags, offset, failures>>

(* Without streaming nothing is read ahead. *)
AheadOf(piece) == IF ReadAhead > 0 THEN ReadAheadRange(piece, ReadAhead) ELSE NoRange

(* Mutant: any offset is valid. *)
BeginSeekAnywhere(to) ==
    /\ pc = "idle" /\ offset' = to /\ result' = NoResult /\ pc' = "seek_ahead"
    /\ LET ahead == AheadOf(MapFile(to).piece)
       IN  call' = [op |-> "seek", size |-> SeekSize, range |-> ahead, next |-> ahead.begin]
    /\ UNCHANGED <<torrent, pieces, flags, failures>>

(* The offset is moved before it is known to be valid. *)
BeginSeek(to) ==
    /\ pc = "idle" /\ offset' = to /\ result' = NoResult
    /\ LET ahead == AheadOf(MapFile(to).piece)
       IN  \/ (to < 0 \/ to >= FileSize) /\ UNCHANGED <<pc, call>>
           \/ /\ to \in 0 .. (FileSize - 1) /\ pc' = "seek_ahead"
              /\ call' = [op |-> "seek", size |-> SeekSize, range |-> ahead, next |-> ahead.begin]
    /\ UNCHANGED <<torrent, pieces, flags, failures>>

(* get_pieces_data: an earlier cancel is forgotten. *)
BeginGetPiecesData ==
    /\ pc = "begin" /\ pc' = "request"
    /\ cancel' = "not_requested" /\ failures' = {}
    /\ LET range == GetPiecesRange(offset, call.size)
       IN  call' = [call EXCEPT !.range = range, !.next = range.begin]
    /\ UNCHANGED <<torrent, pieces, abort_io, offset, result>>

(* Mutant: a downloaded piece is taken to be in the cache. *)
RequestPieceUnread(p) ==
    \/ p \in cache \cup downloaded /\ UNCHANGED <<deadlines, reads, requested>>
    \/ p \notin cache /\ p \notin downloaded
       /\ requested' = requested \cup {p} /\ SetPieceDeadline(p)

(* request_piece, one critical section. *)
RequestPiece(p) ==
    \/ p \in cache /\ UNCHANGED <<deadlines, reads, requested>>
    \/ p \notin cache /\ p \in downloaded /\ ReadPiece(p) /\ UNCHANGED requested
    \/ p \notin cache /\ p \notin downloaded
       /\ requested' = requested \cup {p} /\ SetPieceDeadline(p)

RequestNext ==
    /\ Requesting /\ call.next < call.range.end
    /\ RequestPiece(call.next) /\ call' = [call EXCEPT !.next = @ + 1]
    /\ UNCHANGED <<has_meta, have, finished, cache, downloaded, flags, offset, pc, result, failures>>

(* The loop tests piece != piece_end: it does not stop for a range that ends
   before it begins.  What it then asks for is left out; nothing follows. *)
RequestRunsAway ==
    /\ Requesting /\ call.next > call.range.end /\ pc' = "runaway"
    /\ UNCHANGED <<torrent, pieces, flags, offset, call, result, failures>>

RequestsDone ==
    /\ Requesting /\ call.next = call.range.end
    /\ \/ pc = "seek_ahead" /\ pc' = "begin" /\ UNCHANGED <<call, failures>>
       \/ pc = "request" /\ pc' = "look" /\ UNCHANGED <<call, failures>>
       \/ pc = "read_ahead" /\ pc' = "idle" /\ call' = NoCall /\ failures' = {}
    /\ UNCHANGED <<torrent, pieces, flags, offset, result>>

(* The wait: is it over for another reason?  is the data there?  sleep. *)
EndCall == pc' = "idle" /\ call' = NoCall /\ failures' = {} /\ UNCHANGED <<offset, result>>

(* Mutant: only the callback can end the wait. *)
LookCallbackOnly ==
    /\ pc = "look"
    /\ \/ abort_io /\ EndCall
       \/ ~abort_io /\ pc' = "try" /\ UNCHANGED <<offset, call, result, failures>>
    /\ UNCHANGED <<torrent, pieces, flags>>

Look ==
    /\ pc = "look"
    /\ \/ abort_io /\ EndCall /\ UNCHANGED cancel
       \/ ~abort_io /\ cancel # "not_requested" /\ cancel' = "completed" /\ EndCall
       \/ ~abort_io /\ cancel = "not_requested"
          /\ pc' = "try" /\ UNCHANGED <<cancel, offset, call, result, failures>>
    /\ UNCHANGED <<torrent, pieces, abort_io>>

DataReady == PiecesOf(call.range) # {} /\ PiecesOf(call.range) \subseteq cache

(* A read copies, moves on, and asks for what comes next if it streams. *)
Deliver ==
    LET bytes == Copied(call.range, call.size)
        ahead == AheadOf(call.range.end - 1)
    IN  /\ result' = [from |-> offset, first |-> bytes.first, count |-> bytes.count]
        /\ offset' = offset + bytes.count /\ pc' = "read_ahead"
        /\ call' = [call EXCEPT !.range = ahead, !.next = ahead.begin]
        /\ UNCHANGED failures

Try ==
    /\ pc = "try"
    /\ \/ DataReady /\ call.op = "read" /\ Deliver
       \/ DataReady /\ call.op = "seek" /\ EndCall
       \/ ~DataReady /\ pc' = "sleep" /\ UNCHANGED <<offset, call, result, failures>>
    /\ UNCHANGED <<torrent, pieces, flags>>

Wake ==
    /\ pc = "sleep" /\ pc' = "look"
    /\ UNCHANGED <<torrent, pieces, flags, offset, call, result, failures>>

(* Mutant: the time is tested only after an abort. *)
TimeUpOnlyCancelled ==
    /\ pc = "sleep" /\ abort_io /\ EndCall
    /\ UNCHANGED <<torrent, pieces, flags>>

TimeUp ==
    /\ pc = "sleep" /\ EndCall
    /\ UNCHANGED <<torrent, pieces, flags>>
-----------------------------------------------------------------------------
ReaderGoesOn ==
    \/ MetaLook \/ BeginGetPiecesData \/ RequestNext \/ RequestRunsAway \/ RequestsDone
    \/ Look \/ Try

Next ==
    \/ Metadata \/ (\E p \in Pieces : Download(p) \/ HandlePieceFinished(p))
    \/ (\E p \in reads, ok \in BOOLEAN : HandlePieceRead(p, ok))
    \/ AbortIo \/ CancelCurrentIoOperation
    \/ Open \/ MetaWake \/ MetaTimeUp \/ Wake \/ TimeUp \/ ReaderGoesOn
    \/ (\E size \in ReadSizes : BeginRead(size)) \/ (\E to \in SeekTargets : BeginSeek(to))

Spec == Init /\ [][Next]_vars

(* Threads go on, a sleep ends, disk reads end, alerts are handled.  Nothing
   is assumed of the network, of the clock or of a caller. *)
Fairness ==
    /\ WF_vars(ReaderGoesOn) /\ WF_vars(MetaWake \/ MetaTimeUp) /\ WF_vars(Wake \/ TimeUp)
    /\ \A p \in Pieces : WF_vars(HandlePieceFinished(p))
    /\ \A p \in Pieces : WF_vars(\E ok \in BOOLEAN : HandlePieceRead(p, ok))
    /\ WF_vars(\E p \in reads \ Pieces : HandlePieceRead(p, FALSE))

FairSpec == Spec /\ Fairness
-----------------------------------------------------------------------------
(* A read that succeeds returns the bytes at the offset it began with,
   advances by as many, and by at least one (file::read, get_pieces_range,
   bytes_left).  It says nothing of the bytes read from in front of the
   torrent, after a refused seek to there. *)
ReadIsExact ==
    result # NoResult =>
        /\ FileStart + result.from >= 0 => result.first = FileStart + result.from
        /\ offset = result.from + result.count /\ result.count >= 1

(* Every request loop ends, but for one case: a read longer than a piece that
   begins at or past the end of the torrent, whose range is cut to an end
   before its begin (get_pieces_range and ensure_piece_range_valid against
   request_pieces). *)
LoopsEnd ==
    pc = "runaway" =>
        call.op = "read" /\ call.size > PieceLength /\ FileStart + offset >= TotalSize

(* While the reader waits, each piece of its range is in the cache, or its
   data is on the way, as a deadline or a read.  Only a failed
   read is not repeated within the wait (request_piece against
   handle_piece_finished and handle_piece_read). *)
NoRequestLost ==
    Waiting => PiecesOf(call.range) \subseteq cache \cup failures \cup deadlines \cup reads

(* When all pieces with the bytes asked for are in the cache, a wait for
   them succeeds: "Will block current thread until data ready or timeout
   reached" (get_pieces_data). *)
Needed ==
    {p \in Pieces : /\ p * PieceLength < FileStart + offset + call.size
                    /\ FileStart + offset < (p + 1) * PieceLength}
DataReadyIsReturned ==
    [][pc = "try" /\ pc' = "sleep" => ~(Needed # {} /\ Needed \subseteq cache)]_vars

(* A cancel or an abort that falls into a wait ends it, however long its
   timeout (get_pieces_data, wait_for_meta_data). *)
CancelEndsWait ==
    /\ (Waiting /\ (abort_io \/ cancel = "requested")) ~> ~Waiting
    /\ (InMetaWait /\ (abort_io \/ cancel = "requested")) ~> ~InMetaWait

(* Once libtorrent has the pieces of a wait, it ends, however long its
   timeout, unless a read fails. *)
DataEndsWait ==
    Waiting /\ PiecesOf(call.range) # {} /\ PiecesOf(call.range) \subseteq have
        ~> ~Waiting \/ PiecesOf(call.range) \cap failures # {}

(* If timeouts expire, every call returns, whatever the network does, unless
   its request loop runs away. *)
CallsEnd ==
    SF_vars(TimeUp) /\ SF_vars(MetaTimeUp) => (InCall ~> ~InCall \/ pc = "runaway")
=============================================================================
