------------------------- MODULE TorrentFile_proofs -------------------------
(***************************************************************************)
(* Proofs about PieceRanges and TorrentFile, for any torrent and file, and *)
(* reads and seeks of any size to and from any offset.                     *)
(***************************************************************************)
EXTENDS TorrentFile, TLAPS

(* Division of a place by a piece's length.                                 *)
LEMMA DivMod ==
    ASSUME NEW a \in Nat, NEW L \in Nat \ {0}
    PROVE  /\ a \div L \in Nat /\ a % L \in 0 .. (L - 1)
           /\ a = ((a \div L) * L) + (a % L)
  BY Z3

(* A smaller number of pieces has at least a piece's length fewer bytes.    *)
LEMMA Multiples ==
    ASSUME NEW a \in Int, NEW b \in Int, NEW L \in Nat \ {0}
    PROVE  /\ a < b => (a * L) + L <= b * L
           /\ a * L < b * L => a < b
           /\ a * L \in Int
  BY Z3

(* The last piece holds the last byte.                                      *)
LEMMA Geometry ==
    /\ NumPieces \in Nat \ {0} /\ LastPiece \in Nat
    /\ LastPiece * PieceLength < TotalSize /\ TotalSize <= NumPieces * PieceLength
<1> DEFINE a == TotalSize + PieceLength - 1
<1>1. PieceLength \in Nat \ {0} /\ TotalSize \in Nat \ {0} /\ a \in Nat
  BY GeometryAssumption
<1>2. /\ NumPieces \in Nat /\ a % PieceLength \in 0 .. (PieceLength - 1)
      /\ a = (NumPieces * PieceLength) + (a % PieceLength)
  BY <1>1, DivMod DEF NumPieces
<1>3. TotalSize <= NumPieces * PieceLength /\ NumPieces * PieceLength < TotalSize + PieceLength
  BY <1>1, <1>2, Multiples
<1>4. NumPieces # 0
  BY <1>1, <1>3
<1>5. (NumPieces - 1) * PieceLength = (NumPieces * PieceLength) - PieceLength
  BY <1>1, <1>2, Z3
<1> QED BY <1>1, <1>2, <1>3, <1>4, <1>5, Multiples DEF LastPiece

(* Dividing a negative number towards zero.                                 *)
LEMMA TowardsZeroFacts ==
    ASSUME NEW bytes \in Int
    PROVE  /\ TowardsZero(bytes) \in Int /\ TowardsZero(bytes) * PieceLength \in Int
           /\ bytes >= 0 => /\ TowardsZero(bytes) \in Nat
                            /\ TowardsZero(bytes) * PieceLength <= bytes
                            /\ bytes < (TowardsZero(bytes) * PieceLength) + PieceLength
           /\ bytes < 0 => /\ TowardsZero(bytes) <= 0
                           /\ bytes <= TowardsZero(bytes) * PieceLength
                           /\ (TowardsZero(bytes) * PieceLength) - PieceLength < bytes
           /\ TowardsZero(bytes) >= 0 \/ bytes <= -PieceLength
<1>0. PieceLength \in Nat \ {0}
  BY GeometryAssumption
<1>1. CASE bytes >= 0
  <2>1. /\ bytes \div PieceLength \in Nat /\ bytes % PieceLength \in 0 .. (PieceLength - 1)
        /\ bytes = ((bytes \div PieceLength) * PieceLength) + (bytes % PieceLength)
    <3>1. bytes \in Nat
      BY <1>1
    <3> QED BY <1>0, <3>1, DivMod
  <2> QED BY <1>0, <1>1, <2>1, Multiples DEF TowardsZero
<1>2. CASE bytes < 0
  <2> DEFINE q == (-bytes) \div PieceLength
             r == (-bytes) % PieceLength
  <2>1. q \in Nat /\ r \in 0 .. (PieceLength - 1) /\ -bytes = (q * PieceLength) + r
    <3>1. -bytes \in Nat
      BY <1>2
    <3> QED BY <1>0, <3>1, DivMod
  <2>2. TowardsZero(bytes) = -q
    BY <1>2 DEF TowardsZero
  <2> HIDE DEF q, r
  <2>3. (-q) * PieceLength = -(q * PieceLength) /\ q * PieceLength \in Int
    BY <1>0, <2>1, Z3
  <2>4. q # 0 => q * PieceLength >= PieceLength
    BY <1>0, <2>1, Z3
  <2> QED BY <1>0, <1>2, <2>1, <2>2, <2>3, <2>4
<1> QED BY <1>1, <1>2

(* map_file: the piece and the place in it that hold the byte at offset;    *)
(* the place is negative for an offset before the torrent.                  *)
LEMMA MapFileFacts ==
    ASSUME NEW pos \in Int
    PROVE  /\ MapFile(pos).piece \in Int /\ MapFile(pos).piece <= NumPieces
           /\ MapFile(pos).start \in Int /\ MapFile(pos).start < PieceLength
           /\ FileStart + pos < TotalSize =>
                /\ MapFile(pos).piece < NumPieces
                /\ (MapFile(pos).piece * PieceLength) + MapFile(pos).start = FileStart + pos
           /\ FileStart + pos >= 0 /\ FileStart + pos < TotalSize =>
                MapFile(pos).piece \in Pieces
           /\ FileStart + pos >= TotalSize => MapFile(pos).piece = NumPieces /\ MapFile(pos).start = 0
<1> DEFINE at == FileStart + pos
           q  == TowardsZero(at)
<1>0. at \in Int /\ PieceLength \in Nat \ {0} /\ TotalSize \in Nat /\ NumPieces \in Nat \ {0}
      /\ TotalSize <= NumPieces * PieceLength /\ LastPiece = NumPieces - 1
  BY GeometryAssumption, Geometry DEF LastPiece
<1>1. CASE at >= TotalSize
  <2>1. MapFile(pos) = [piece |-> NumPieces, start |-> 0]
    BY <1>1 DEF MapFile
  <2> QED BY <1>0, <1>1, <2>1
<1>2. CASE at < TotalSize
  <2>1. MapFile(pos) = [piece |-> q, start |-> at - (q * PieceLength)]
    BY <1>0, <1>2 DEF MapFile
  <2>2. /\ q \in Int /\ q * PieceLength \in Int
        /\ at >= 0 => q \in Nat /\ q * PieceLength <= at /\ at < (q * PieceLength) + PieceLength
        /\ at < 0 => q <= 0 /\ at <= q * PieceLength
    BY <1>0, TowardsZeroFacts
  <2> HIDE DEF at, q
  <2>3. at >= 0 => q < NumPieces
    <3>1. at >= 0 => q * PieceLength < NumPieces * PieceLength
      BY <1>0, <1>2, <2>2, Multiples
    <3> QED BY <1>0, <2>2, <3>1, Multiples
  <2>4. q < NumPieces /\ at - (q * PieceLength) < PieceLength /\ (at >= 0 => q \in 0 .. LastPiece)
    BY <1>0, <2>2, <2>3
  <2> QED BY <1>0, <1>2, <2>1, <2>2, <2>4 DEF at, Pieces
<1> QED BY <1>0, <1>1, <1>2

(* Less than a piece more than a length is one piece more; a negative       *)
(* number of bytes is no negative number of pieces, short of a whole one.   *)
LEMMA PiecesForFacts ==
    ASSUME NEW bytes \in Int, bytes > -PieceLength
    PROVE  PiecesFor(bytes) \in Nat /\ (bytes > 0 => PiecesFor(bytes) >= 1)
<1>0. PieceLength \in Nat \ {0}
  BY GeometryAssumption
<1>1. TowardsZero(bytes) \in Nat
  BY <1>0, TowardsZeroFacts
<1>2. bytes > 0 /\ bytes % PieceLength = 0 => TowardsZero(bytes) # 0
  <2> SUFFICES ASSUME bytes > 0, bytes % PieceLength = 0 PROVE bytes \div PieceLength # 0
    BY DEF TowardsZero
  <2>1. bytes = ((bytes \div PieceLength) * PieceLength) + (bytes % PieceLength)
        /\ bytes \div PieceLength \in Nat
    BY <1>0, DivMod
  <2> QED BY <1>0, <2>1, Z3
<1> QED BY <1>0, <1>1, <1>2 DEF PiecesFor

(* A range that a request loop ends on: `piece != piece_end` never turns    *)
(* false when begin is past end.                                            *)
WellFormed(range) == range \in Ranges /\ range.begin <= range.end

(* get_pieces_range: the request loop over what it returns ends, also where *)
(* the end was cut, but for a read past the torrent that is longer than a   *)
(* piece.                                                                   *)
LEMMA RangeFacts ==
    ASSUME NEW pos \in Int, NEW size \in Nat \ {0}
    PROVE  LET range == GetPiecesRange(pos, size)
           IN  /\ range \in Ranges
               /\ WellFormed(range) \/ (size > PieceLength /\ FileStart + pos >= TotalSize)
               /\ range = NoRange \/ (/\ range.begin = MapFile(pos).piece
                                      /\ range.start = MapFile(pos).start)
<1> DEFINE first == MapFile(pos)
           one   == [begin |-> first.piece, end |-> first.piece + 1, start |-> first.start]
           rest  == size - (PieceLength - first.start)
           more  == [one EXCEPT !.end = @ + PiecesFor(rest)]
<1>0. /\ PieceLength \in Nat \ {0} /\ NumPieces \in Nat \ {0} /\ LastPiece = NumPieces - 1
      /\ FileStart \in Nat /\ TotalSize \in Nat
  BY GeometryAssumption, Geometry DEF LastPiece
<1>1. /\ first.piece \in Int /\ first.piece <= NumPieces
      /\ first.start \in Int /\ first.start < PieceLength
      /\ FileStart + pos < TotalSize => first.piece < NumPieces
      /\ FileStart + pos >= TotalSize => first.start = 0
  BY MapFileFacts
<1>2. FileStart + pos < TotalSize \/ FileStart + pos >= TotalSize
  BY <1>0
<1> HIDE DEF first
<1>3. CASE rest <= 0
  <2>1. GetPiecesRange(pos, size) = one
    BY <1>3 DEF GetPiecesRange, first
  <2> QED BY <1>0, <1>1, <2>1 DEF WellFormed, Ranges, first
<1>4. CASE rest > 0 /\ PiecesFor(rest) > NumPieces
  <2>1. GetPiecesRange(pos, size) = NoRange
    BY <1>0, <1>1, <1>4 DEF GetPiecesRange, first
  <2> QED BY <1>0, <2>1 DEF WellFormed, Ranges, NoRange
<1>5. CASE rest > 0 /\ ~(PiecesFor(rest) > NumPieces)
  <2>1. GetPiecesRange(pos, size) = EnsureRangeValid(more)
    BY <1>0, <1>1, <1>5 DEF GetPiecesRange, first
  <2>2. PiecesFor(rest) \in Nat /\ PiecesFor(rest) >= 1
    BY <1>0, <1>1, <1>5, PiecesForFacts
  <2>3. PICK end \in Int : end = first.piece + 1 + PiecesFor(rest) /\ end > first.piece
    BY <1>1, <2>2
  <2>4. more = [begin |-> first.piece, end |-> end, start |-> first.start]
    BY <2>3
  <2> HIDE DEF more
  <2>5. EnsureRangeValid(more) = [begin |-> first.piece, end |-> SmallerOf(end, LastPiece),
                                  start |-> first.start]
    BY <2>4 DEF EnsureRangeValid
  <2>6. /\ SmallerOf(end, LastPiece) \in Int /\ SmallerOf(end, LastPiece) <= LastPiece
        /\ first.piece <= LastPiece => first.piece <= SmallerOf(end, LastPiece)
    BY <1>0, <1>1, <2>3 DEF SmallerOf
  <2>7. EnsureRangeValid(more) \in Ranges
    BY <1>0, <1>1, <2>5, <2>6 DEF Ranges
  <2>8. CASE FileStart + pos < TotalSize
    BY <1>0, <1>1, <2>1, <2>5, <2>6, <2>7, <2>8 DEF WellFormed, first
  <2>9. CASE FileStart + pos >= TotalSize
    <3>1. size > PieceLength
      BY <1>0, <1>1, <1>5, <2>9
    <3> QED BY <2>1, <2>5, <2>7, <2>9, <3>1 DEF first
  <2> QED BY <1>2, <2>8, <2>9
<1> QED BY <1>0, <1>1, <1>3, <1>4, <1>5

(* get_pieces_read_ahead_range, from a piece of the torrent.                *)
LEMMA ReadAheadFacts ==
    ASSUME NEW piece \in Pieces, NEW size \in Nat \ {0}
    PROVE  WellFormed(ReadAheadRange(piece, size))
<1> DEFINE range == [begin |-> piece, start |-> -1, end |-> piece + 1 + PiecesFor(size - PieceLength)]
<1>0. /\ PieceLength \in Nat \ {0} /\ NumPieces \in Nat \ {0} /\ LastPiece = NumPieces - 1
      /\ piece \in 0 .. LastPiece
  BY GeometryAssumption, Geometry DEF LastPiece, Pieces
<1>1. PiecesFor(size - PieceLength) \in Nat
  BY <1>0, PiecesForFacts
<1>2. EnsureRangeValid(range).end \in piece .. LastPiece
  BY <1>0, <1>1 DEF EnsureRangeValid, SmallerOf
<1>3. EnsureRangeValid(range) = [begin |-> piece, start |-> -1, end |-> EnsureRangeValid(range).end]
  BY DEF EnsureRangeValid
<1> QED BY <1>0, <1>2, <1>3 DEF ReadAheadRange, WellFormed, Ranges

(* file::read: from a range of get_pieces_range whose pieces are all there  *)
(* it copies the bytes at the offset, at least one and at most size.        *)
LEMMA CopiedFacts ==
    ASSUME NEW pos \in Int, NEW size \in Nat \ {0},
           PiecesOf(GetPiecesRange(pos, size)) # {},
           PiecesOf(GetPiecesRange(pos, size)) \subseteq Pieces
    PROVE  LET bytes == Copied(GetPiecesRange(pos, size), size)
           IN  bytes.first = FileStart + pos /\ bytes.first \in Int /\ bytes.count \in 1 .. size
<1> DEFINE range == GetPiecesRange(pos, size)
           last  == SmallerOf(range.end * PieceLength, TotalSize)
<1>0. /\ PieceLength \in Nat \ {0} /\ NumPieces \in Nat \ {0} /\ LastPiece = NumPieces - 1
      /\ TotalSize \in Nat /\ FileStart \in Nat
  BY GeometryAssumption, Geometry DEF LastPiece
<1>1. range \in Ranges /\ (range = NoRange \/ (/\ range.begin = MapFile(pos).piece
                                              /\ range.start = MapFile(pos).start))
  BY RangeFacts
<1>2. range.begin \in Int /\ range.end \in Int
  BY <1>1 DEF Ranges
<1>3. range.begin < range.end /\ range.begin \in Pieces
  BY <1>2 DEF PiecesOf
<1>4. range.begin = MapFile(pos).piece /\ range.start = MapFile(pos).start
  BY <1>0, <1>1, <1>3 DEF NoRange, Pieces
<1>5. FileStart + pos < TotalSize
  BY <1>0, <1>3, <1>4, MapFileFacts DEF Pieces
<1>6. /\ range.start \in Int /\ range.start < PieceLength
      /\ (range.begin * PieceLength) + range.start = FileStart + pos
  BY <1>4, <1>5, MapFileFacts
<1>7. (range.begin * PieceLength) + PieceLength <= range.end * PieceLength
      /\ range.begin * PieceLength \in Int /\ range.end * PieceLength \in Int
  BY <1>0, <1>2, <1>3, Multiples
<1>8. last \in Int /\ last > FileStart + pos /\ last <= TotalSize
  BY <1>0, <1>5, <1>6, <1>7 DEF SmallerOf
<1>9. Copied(range, size) = [first |-> FileStart + pos,
                             count |-> SmallerOf(last - (FileStart + pos), size)]
  BY <1>6 DEF Copied
<1> QED BY <1>0, <1>5, <1>8, <1>9 DEF SmallerOf
-----------------------------------------------------------------------------
Getting == pc = "request" \/ Waiting

(* A read that begins past the torrent and is longer than a piece.          *)
Past == call.op = "read" /\ call.size > PieceLength /\ FileStart + offset >= TotalSize

(* Where the reader is in a call: a request loop stays inside its range or  *)
(* belongs to a read past the torrent, a wait begins when all of its range  *)
(* has been requested, and the range is that of the offset, which does not  *)
(* move until the data is there.                                            *)
CallInv ==
    /\ WellFormed(call.range) \/ (pc \in {"request", "runaway"} /\ Past)
    /\ pc = "runaway" => Past
    /\ Requesting \/ Waiting => /\ call.range.begin <= call.next
                                /\ call.next <= call.range.end \/ (pc = "request" /\ Past)
    /\ Waiting => call.next = call.range.end
    /\ Getting => call.range = GetPiecesRange(offset, call.size)
    /\ Getting \/ pc \in {"seek_ahead", "begin"} =>
         /\ call.op \in {"read", "seek"} /\ call.size \in Nat \ {0}
         /\ call.op = "seek" => FileStart + offset < TotalSize

(* What has been requested in this wait is there, failed, or on the way.    *)
RequestInv ==
    Getting => call.range.begin .. (call.next - 1) \subseteq cache \cup failures \cup deadlines \cup reads

IInv == TypeOK /\ CallInv /\ RequestInv /\ ReadIsExact

(* Opened with nothing requested.                                           *)
LEMMA InitIInv == Init => IInv
<1> SUFFICES ASSUME Init PROVE IInv
  OBVIOUS
<1>0. /\ PieceLength \in Nat \ {0} /\ NumPieces \in Nat \ {0} /\ LastPiece = NumPieces - 1
      /\ FileStart \in Nat /\ TotalSize \in Nat /\ FileStart <= TotalSize
  BY GeometryAssumption, Geometry DEF LastPiece
<1>1. NoRange \in Ranges /\ WellFormed(NoRange)
  BY <1>0 DEF NoRange, Ranges, WellFormed
<1>2. NoCall \in [op : {"none", "read", "seek"}, size : ReadSizes \cup {0, SeekSize},
                  range : Ranges, next : Int]
  BY <1>1 DEF NoCall
<1>3. NoResult \in [from : Int, first : Int, count : Nat]
  BY DEF NoResult
<1>4. TypeOK
  <2>1. have \subseteq Pieces
    BY SizesAssumption DEF Init, Pieces
  <2>2. offset \in Int
    BY DEF Init
  <2>3. /\ deadlines \subseteq Pieces /\ finished \subseteq have
        /\ reads \subseteq have \cup (Int \ Pieces) /\ cache \subseteq have
        /\ downloaded \subseteq have /\ requested \subseteq Int /\ failures \subseteq Int
    BY DEF Init
  <2> QED BY <1>2, <1>3, <2>1, <2>2, <2>3 DEF Init, TypeOK
<1>5. CallInv
  BY <1>1 DEF Init, CallInv, Past, Getting, Waiting, Requesting, NoCall
<1>6. RequestInv /\ ReadIsExact
  BY DEF Init, RequestInv, Getting, Waiting, ReadIsExact
<1> QED BY <1>4, <1>5, <1>6 DEF IInv

(* Downloads and alerts leave the reader alone; data that leaves one of the *)
(* sets of RequestInv enters another.                                       *)
LEMMA TorrentStep ==
    ASSUME IInv,
           Metadata \/ (\E p \in Pieces : Download(p) \/ HandlePieceFinished(p))
                    \/ (\E p \in reads, ok \in BOOLEAN : HandlePieceRead(p, ok))
    PROVE  IInv'
<1> USE DEF IInv, torrent, pieces, flags, reader
<1>1. UNCHANGED <<offset, pc, call, result>>
  BY DEF Metadata, Download, HandlePieceFinished, HandlePieceRead
<1>2. CallInv' /\ ReadIsExact'
  BY <1>1 DEF CallInv, Past, ReadIsExact, Getting, Waiting, Requesting
<1>3. TypeOK'
  <2>1. CASE Metadata
    BY <2>1 DEF Metadata, TypeOK
  <2>2. ASSUME NEW p \in Pieces, Download(p) PROVE TypeOK'
    BY <2>2 DEF Download, TypeOK
  <2>3. ASSUME NEW p \in Pieces, HandlePieceFinished(p) PROVE TypeOK'
    BY <2>3 DEF HandlePieceFinished, ReadPiece, TypeOK
  <2>4. ASSUME NEW p \in reads, NEW ok \in BOOLEAN, HandlePieceRead(p, ok) PROVE TypeOK'
    <3>1. p \in Int
      BY DEF TypeOK, Pieces
    <3> QED BY <2>4, <3>1 DEF HandlePieceRead, Answered, TypeOK
  <2> QED BY <2>1, <2>2, <2>3, <2>4
<1>4. RequestInv'
  <2> SUFFICES ASSUME Getting', NEW q \in (call.range.begin .. (call.next - 1))'
               PROVE  (q \in cache \cup failures \cup deadlines \cup reads)'
    BY DEF RequestInv
  <2>0. q \in cache \cup failures \cup deadlines \cup reads /\ InCall
    BY <1>1 DEF RequestInv, Getting, Waiting, InCall, Requesting
  <2>1. CASE Metadata
    BY <2>0, <2>1 DEF Metadata
  <2>2. ASSUME NEW p \in Pieces, Download(p) PROVE (q \in cache \cup failures \cup deadlines \cup reads)'
    BY <2>0, <2>2 DEF Download
  <2>3. ASSUME NEW p \in Pieces, HandlePieceFinished(p)
        PROVE (q \in cache \cup failures \cup deadlines \cup reads)'
    BY <2>0, <2>3 DEF HandlePieceFinished, ReadPiece
  <2>4. ASSUME NEW p \in reads, NEW ok \in BOOLEAN, HandlePieceRead(p, ok)
        PROVE (q \in cache \cup failures \cup deadlines \cup reads)'
    BY <2>0, <2>4 DEF HandlePieceRead
  <2> QED BY <2>1, <2>2, <2>3, <2>4
<1> QED BY <1>2, <1>3, <1>4

(* Cancelling and waiting for metadata leave the cache and its calls alone. *)
LEMMA MetaStep ==
    ASSUME IInv, AbortIo \/ CancelCurrentIoOperation \/ Open \/ MetaLook \/ MetaWake \/ MetaTimeUp
    PROVE  IInv'
<1> USE DEF AbortIo, CancelCurrentIoOperation, Open, MetaLook, MetaWake, MetaTimeUp
<1>1. UNCHANGED <<torrent, pieces, offset, call, result, failures>>
  BY DEF reader
<1>2. pc' = pc \/ (/\ pc \in {"closed", "meta", "meta_sleep"}
                   /\ pc' \in {"closed", "idle", "meta", "meta_sleep"})
  BY DEF reader
<1>3. cancel' \in {"not_requested", "requested", "completed"} /\ abort_io' \in BOOLEAN
  BY DEF IInv, TypeOK, flags
<1> USE DEF torrent, pieces
<1>4. TypeOK'
  BY <1>1, <1>2, <1>3 DEF IInv, TypeOK
<1>5. CallInv'
  BY <1>1, <1>2 DEF IInv, CallInv, Past, Getting, Waiting, Requesting
<1>6. RequestInv' /\ ReadIsExact'
  BY <1>1, <1>2 DEF IInv, RequestInv, ReadIsExact, Getting, Waiting
<1> QED BY <1>4, <1>5, <1>6 DEF IInv

(* Beginning a call: a seek moves the offset and drops the last result; the *)
(* read-ahead range is well-formed, and that of the wait but for a read     *)
(* past the torrent.                                                        *)
LEMMA BeginStep ==
    ASSUME IInv,
           BeginGetPiecesData \/ (\E size \in ReadSizes : BeginRead(size))
                              \/ (\E to \in SeekTargets : BeginSeek(to))
    PROVE  IInv'
<1> DEFINE Calls == [op : {"none", "read", "seek"}, size : ReadSizes \cup {0, SeekSize},
                     range : Ranges, next : Int]
<1>0. /\ FileStart \in Nat /\ TotalSize \in Nat /\ FileSize \in Nat
      /\ FileStart + FileSize <= TotalSize /\ NumPieces \in Nat
  BY GeometryAssumption, Geometry
<1>1. WellFormed(NoRange) /\ NoResult \in [from : Int, first : Int, count : Nat]
  BY <1>0 DEF NoRange, Ranges, WellFormed, NoResult
<1>2. ASSUME NEW range \in Ranges
      PROVE  range.begin \in Int /\ range.end \in Int
             /\ range.begin .. (range.begin - 1) = {}
  BY <1>2 DEF Ranges
<1>3. ASSUME NEW size \in ReadSizes, BeginRead(size) PROVE IInv'
  <2>1. call' \in Calls /\ call'.range = NoRange /\ call'.op = "read" /\ call'.size = size
    <3>1. call' = [op |-> "read", size |-> size, range |-> NoRange, next |-> -1]
      BY <1>3 DEF BeginRead, NoCall
    <3>2. NoRange \in Ranges /\ -1 \in Int
      BY <1>1 DEF WellFormed
    <3> QED BY <3>1, <3>2
  <2>2. TypeOK'
    BY <1>1, <1>3, <2>1 DEF BeginRead, IInv, TypeOK, torrent, pieces, flags
  <2>3. CallInv'
    BY <1>1, <1>3, <2>1, SizesAssumption DEF BeginRead, CallInv, Getting, Waiting, Requesting
  <2> QED BY <1>3, <2>2, <2>3 DEF BeginRead, IInv, RequestInv, ReadIsExact, Getting, Waiting
<1>4. ASSUME NEW to \in SeekTargets, BeginSeek(to) PROVE IInv'
  <2>0. to \in Int
    BY SizesAssumption
  <2>1. CASE pc' = pc /\ call' = call
    <3>1. TypeOK'
      BY <1>1, <1>4, <2>0, <2>1 DEF BeginSeek, IInv, TypeOK, torrent, pieces, flags
    <3> QED BY <1>4, <2>1, <3>1 DEF BeginSeek, IInv, CallInv, RequestInv, ReadIsExact, Getting,
                                    Waiting, Requesting
  <2>2. CASE ~(pc' = pc /\ call' = call)
    <3> DEFINE ahead == AheadOf(MapFile(to).piece)
    <3>1. /\ to \in 0 .. (FileSize - 1) /\ pc' = "seek_ahead" /\ offset' = to
          /\ call' = [op |-> "seek", size |-> SeekSize, range |-> ahead, next |-> ahead.begin]
      BY <1>4, <2>2 DEF BeginSeek
    <3>2. FileStart + to >= 0 /\ FileStart + to < TotalSize
      BY <1>0, <3>1
    <3>3. MapFile(to).piece \in Pieces
      BY <2>0, <3>2, MapFileFacts
    <3>4. WellFormed(ahead)
      BY <1>1, <3>3, ReadAheadFacts, SizesAssumption DEF AheadOf
    <3> HIDE DEF ahead
    <3>5. ahead \in Ranges /\ ahead.begin \in Int /\ ahead.begin <= ahead.begin /\ ahead.begin <= ahead.end
      BY <1>2, <3>4 DEF WellFormed
    <3>6. call' \in Calls /\ call'.range = ahead /\ call'.next = ahead.begin /\ call'.op = "seek"
          /\ call'.size = SeekSize
      BY <3>1, <3>5
    <3>7. TypeOK'
      BY <1>1, <1>4, <2>0, <3>1, <3>6 DEF BeginSeek, IInv, TypeOK, torrent, pieces, flags
    <3>8. CallInv'
      BY <3>1, <3>2, <3>4, <3>5, <3>6, SizesAssumption DEF CallInv, Getting, Waiting, Requesting
    <3> QED BY <1>4, <3>1, <3>7, <3>8 DEF BeginSeek, IInv, RequestInv, ReadIsExact, Getting, Waiting
  <2> QED BY <2>1, <2>2
<1>5. CASE BeginGetPiecesData
  <2> DEFINE range == GetPiecesRange(offset, call.size)
  <2>1. /\ pc = "begin" /\ pc' = "request" /\ cancel' = "not_requested" /\ failures' = {}
        /\ call' = [call EXCEPT !.range = range, !.next = range.begin]
        /\ UNCHANGED <<torrent, pieces, abort_io, offset, result>>
    BY <1>5 DEF BeginGetPiecesData
  <2>2. /\ call \in Calls /\ call.op \in {"read", "seek"} /\ call.size \in Nat \ {0} /\ offset \in Int
        /\ call.op = "seek" => FileStart + offset < TotalSize
    BY <2>1 DEF IInv, TypeOK, CallInv
  <2>3. /\ range \in Ranges
        /\ WellFormed(range) \/ (call.size > PieceLength /\ FileStart + offset >= TotalSize)
    BY <2>2, RangeFacts
  <2>4. range.begin \in Int /\ range.begin <= range.begin /\ range.begin .. (range.begin - 1) = {}
    BY <1>2, <2>3
  <2>5. call' \in Calls /\ call'.range = range /\ call'.next = range.begin /\ call'.op = call.op
        /\ call'.size = call.size
    BY <2>1, <2>2, <2>3, <2>4
  <2>6. TypeOK'
    BY <2>1, <2>5 DEF IInv, TypeOK, torrent, pieces
  <2>7. call'.range = GetPiecesRange(offset', call'.size)
    BY <2>1, <2>5
  <2> HIDE DEF range
  <2>8. WellFormed(range) \/ Past'
    <3>1. call.op = "seek" \/ call.op = "read"
      BY <2>2
    <3>2. FileStart + offset >= TotalSize => ~(FileStart + offset < TotalSize)
      BY <1>0, <2>2
    <3> QED BY <2>1, <2>2, <2>3, <2>5, <3>1, <3>2 DEF Past
  <2>9. range.begin <= range.end \/ Past'
    BY <2>8 DEF WellFormed
  <2>10. CallInv'
    BY <2>1, <2>2, <2>4, <2>5, <2>7, <2>8, <2>9 DEF CallInv, Getting, Waiting, Requesting
  <2>11. RequestInv'
    BY <2>4, <2>5 DEF RequestInv
  <2>12. ReadIsExact'
    BY <2>1 DEF IInv, ReadIsExact
  <2> QED BY <2>6, <2>10, <2>11, <2>12 DEF IInv
<1> QED BY <1>3, <1>4, <1>5

(* The request loop: the piece it passes is in the cache, being read, or a  *)
(* deadline (request_piece); it ends at the end of its range, or never.     *)
LEMMA RequestStep ==
    ASSUME IInv, RequestNext \/ RequestRunsAway \/ RequestsDone
    PROVE  IInv'
<1> DEFINE Calls == [op : {"none", "read", "seek"}, size : ReadSizes \cup {0, SeekSize},
                     range : Ranges, next : Int]
<1>0. call \in Calls /\ call.range.begin \in Int /\ call.range.end \in Int /\ call.next \in Int
  BY DEF IInv, TypeOK, Ranges
<1>1. CASE RequestNext
  <2> DEFINE p == call.next
  <2>1. /\ Requesting /\ p < call.range.end /\ RequestPiece(p)
        /\ call' = [call EXCEPT !.next = p + 1]
        /\ UNCHANGED <<has_meta, have, finished, cache, downloaded, flags, offset, pc, result, failures>>
    BY <1>1 DEF RequestNext
  <2>2. call.range.begin <= p
    BY <2>1 DEF IInv, CallInv
  <2>3. /\ call'.range = call.range /\ call'.next = p + 1 /\ call'.op = call.op /\ call'.size = call.size
        /\ call' \in Calls
    <3> HIDE DEF p
    <3>1. p + 1 \in Int
      BY <1>0 DEF p
    <3> QED BY <1>0, <2>1, <3>1
  <2>4. call.range.begin <= p + 1 /\ p + 1 <= call.range.end
    BY <1>0, <2>1, <2>2
  <2>5. /\ p \in cache \/ p \in deadlines' \/ p \in reads'
        /\ deadlines \subseteq deadlines' /\ reads \subseteq reads'
        /\ deadlines' \subseteq Pieces /\ reads' \subseteq have \cup (Int \ Pieces)
        /\ requested' \subseteq Int
    <3>0. p \in Int
      BY <1>0
    <3> HIDE DEF p
    <3>1. /\ have \subseteq Pieces /\ deadlines \subseteq Pieces /\ reads \subseteq have \cup (Int \ Pieces)
          /\ downloaded \subseteq have /\ requested \subseteq Int
      BY DEF IInv, TypeOK
    <3> QED BY <2>1, <3>0, <3>1 DEF RequestPiece, ReadPiece, SetPieceDeadline
  <2>6. TypeOK'
    BY <2>1, <2>3, <2>5 DEF IInv, TypeOK, flags
  <2>7. CallInv'
    <3>1. ~Waiting /\ ~Waiting' /\ pc # "runaway"
      BY <2>1 DEF Requesting, Waiting
    <3>2. Past' <=> Past
      BY <2>1, <2>3 DEF Past
    <3> QED BY <2>1, <2>3, <2>4, <3>1, <3>2 DEF IInv, CallInv, Getting, Requesting
  <2>8. RequestInv'
    <3>1. call.range.begin .. ((p + 1) - 1) \subseteq (call.range.begin .. (p - 1)) \cup {p}
      BY <1>0
    <3> QED BY <2>1, <2>3, <2>5, <3>1 DEF IInv, RequestInv, Getting, Waiting
  <2> QED BY <2>1, <2>6, <2>7, <2>8 DEF IInv, ReadIsExact
<1>2. CASE RequestRunsAway
  <2>1. /\ Requesting /\ call.next > call.range.end /\ pc' = "runaway"
        /\ UNCHANGED <<torrent, pieces, flags, offset, call, result, failures>>
    BY <1>2 DEF RequestRunsAway
  <2>2. Past /\ (Past' <=> Past)
    <3>1. ~(call.next <= call.range.end)
      BY <1>0, <2>1
    <3> QED BY <2>1, <3>1 DEF IInv, CallInv, Past
  <2>3. TypeOK'
    BY <2>1 DEF IInv, TypeOK, torrent, pieces, flags
  <2>4. CallInv'
    BY <2>1, <2>2 DEF CallInv, Getting, Waiting, Requesting
  <2>5. RequestInv'
    BY <2>1 DEF RequestInv, Getting, Waiting
  <2> QED BY <2>1, <2>3, <2>4, <2>5 DEF IInv, ReadIsExact
<1>3. CASE RequestsDone
  <2>1. /\ Requesting /\ call.next = call.range.end
        /\ \/ pc = "seek_ahead" /\ pc' = "begin" /\ UNCHANGED <<call, failures>>
           \/ pc = "request" /\ pc' = "look" /\ UNCHANGED <<call, failures>>
           \/ pc = "read_ahead" /\ pc' = "idle" /\ call' = NoCall /\ failures' = {}
        /\ UNCHANGED <<torrent, pieces, flags, offset, result>>
    BY <1>3 DEF RequestsDone
  <2>2. WellFormed(NoRange) /\ WellFormed(call.range) /\ call.next <= call.range.end
    <3>1. NumPieces \in Nat
      BY Geometry
    <3>2. call.range \in Ranges /\ call.range.begin <= call.next
      BY <1>0, <2>1 DEF IInv, CallInv
    <3> QED BY <1>0, <2>1, <3>1, <3>2 DEF NoRange, Ranges, WellFormed
  <2>3. TypeOK'
    <3>1. NoCall \in Calls
      <4>1. NoRange \in Ranges /\ -1 \in Int
        BY <2>2 DEF WellFormed
      <4> QED BY <4>1 DEF NoCall
    <3>2. call' \in Calls
      BY <1>0, <2>1, <3>1
    <3> HIDE DEF Calls
    <3>3. pc' \in {"begin", "look", "idle"} /\ failures' \subseteq Int
      BY <2>1 DEF IInv, TypeOK
    <3> QED BY <2>1, <3>2, <3>3 DEF Calls, IInv, TypeOK, torrent, pieces, flags
  <2>4. CallInv'
    BY <2>1, <2>2 DEF IInv, CallInv, Getting, Waiting, Requesting, NoCall
  <2>5. RequestInv'
    BY <2>1 DEF IInv, RequestInv, Getting, Waiting, torrent, pieces
  <2> QED BY <2>1, <2>3, <2>4, <2>5 DEF IInv, ReadIsExact
<1> QED BY <1>1, <1>2, <1>3

(* The wait: only a read whose pieces are all there moves the offset, and   *)
(* by what it copied.                                                       *)
LEMMA WaitStep ==
    ASSUME IInv, Look \/ Try \/ Wake \/ TimeUp
    PROVE  IInv'
<1>0. NumPieces \in Nat
  BY Geometry
<1>1. WellFormed(NoRange)
  BY <1>0 DEF NoRange, Ranges, WellFormed
<1>2. pc \in {"look", "try", "sleep"} /\ UNCHANGED <<torrent, pieces, abort_io>>
      /\ cancel' \in {"not_requested", "requested", "completed"}
  BY DEF Look, Try, Wake, TimeUp, IInv, TypeOK, flags
<1>3. CASE EndCall
  <2>1. TypeOK'
    BY <1>1, <1>2, <1>3 DEF EndCall, IInv, TypeOK, NoCall, WellFormed, torrent, pieces
  <2>2. CallInv' /\ RequestInv' /\ ReadIsExact'
    BY <1>1, <1>3 DEF EndCall, IInv, CallInv, RequestInv, ReadIsExact, Getting, Waiting, Requesting, NoCall
  <2> QED BY <2>1, <2>2 DEF IInv
<1>4. CASE pc' \in {"look", "try", "sleep"} /\ UNCHANGED <<offset, call, result, failures>>
  <2>1. TypeOK'
    BY <1>2, <1>4 DEF IInv, TypeOK, torrent, pieces
  <2>2. CallInv' /\ RequestInv' /\ ReadIsExact'
    BY <1>2, <1>4 DEF IInv, CallInv, Past, RequestInv, ReadIsExact, Getting, Waiting, Requesting, torrent, pieces
  <2> QED BY <2>1, <2>2 DEF IInv
<1>5. CASE pc = "try" /\ DataReady /\ call.op = "read" /\ Deliver
  <2> DEFINE bytes == Copied(call.range, call.size)
             ahead == AheadOf(call.range.end - 1)
  <2>1. /\ result' = [from |-> offset, first |-> bytes.first, count |-> bytes.count]
        /\ offset' = offset + bytes.count /\ pc' = "read_ahead"
        /\ call' = [call EXCEPT !.range = ahead, !.next = ahead.begin]
        /\ UNCHANGED failures
    BY <1>5 DEF Deliver
  <2>2. /\ call \in [op : {"none", "read", "seek"}, size : ReadSizes \cup {0, SeekSize},
                    range : Ranges, next : Int]
        /\ call.range = GetPiecesRange(offset, call.size) /\ call.size \in Nat \ {0} /\ offset \in Int
        /\ call.range.begin \in Int /\ call.range.end \in Int
    BY <1>5 DEF IInv, TypeOK, CallInv, Getting, Waiting, Ranges
  <2>3. PiecesOf(call.range) # {} /\ PiecesOf(call.range) \subseteq Pieces
    BY <1>5 DEF DataReady, IInv, TypeOK
  <2>4. bytes.first = FileStart + offset /\ bytes.first \in Int /\ bytes.count \in 1 .. call.size
    BY <2>2, <2>3, CopiedFacts
  <2>5. call.range.end - 1 \in Pieces
    BY <2>2, <2>3 DEF PiecesOf
  <2>6. WellFormed(ahead)
    BY <1>1, <2>5, ReadAheadFacts, SizesAssumption DEF AheadOf
  <2>7. ahead \in Ranges /\ ahead.begin \in Int /\ ahead.begin <= ahead.begin /\ ahead.begin <= ahead.end
    BY <2>6 DEF WellFormed, Ranges
  <2>8. offset' \in Int /\ bytes.count \in Nat /\ bytes.count >= 1
    BY <2>1, <2>2, <2>4
  <2> HIDE DEF bytes, ahead
  <2>9. call'.range = ahead /\ call'.next = ahead.begin
        /\ call' \in [op : {"none", "read", "seek"}, size : ReadSizes \cup {0, SeekSize},
                      range : Ranges, next : Int]
    BY <2>1, <2>2, <2>7
  <2>10. TypeOK'
    BY <1>2, <2>1, <2>2, <2>4, <2>8, <2>9 DEF IInv, TypeOK, torrent, pieces
  <2>11. CallInv'
    BY <2>1, <2>6, <2>7, <2>9 DEF CallInv, Getting, Waiting, Requesting
  <2>12. RequestInv'
    BY <2>1 DEF RequestInv, Getting, Waiting
  <2>13. ReadIsExact'
    BY <2>1, <2>4, <2>8 DEF ReadIsExact
  <2> QED BY <2>10, <2>11, <2>12, <2>13 DEF IInv
<1>6. EndCall \/ (pc' \in {"look", "try", "sleep"} /\ UNCHANGED <<offset, call, result, failures>>)
              \/ (pc = "try" /\ DataReady /\ call.op = "read" /\ Deliver)
  BY DEF Look, Try, Wake, TimeUp
<1> QED BY <1>3, <1>4, <1>5, <1>6

(* Every step keeps the invariant.                                          *)
LEMMA NextIInv == IInv /\ [Next]_vars => IInv'
<1> SUFFICES ASSUME IInv, [Next]_vars PROVE IInv'
  OBVIOUS
<1>1. CASE UNCHANGED vars
  BY <1>1 DEF vars, torrent, pieces, flags, reader, IInv, TypeOK, CallInv, Past, RequestInv, ReadIsExact,
              Getting, Waiting, Requesting
<1>2. CASE Next
  BY <1>2, TorrentStep, MetaStep, BeginStep, RequestStep, WaitStep DEF Next, ReaderGoesOn
<1> QED BY <1>1, <1>2

(* While the reader waits, every piece of its range was requested.          *)
LEMMA InvNoRequestLost == IInv => NoRequestLost
<1> SUFFICES ASSUME IInv, Waiting PROVE PiecesOf(call.range) \subseteq cache \cup failures \cup deadlines \cup reads
  BY DEF NoRequestLost
<1>1. call.next = call.range.end
  BY DEF IInv, CallInv
<1> QED BY <1>1 DEF IInv, RequestInv, Getting, PiecesOf

(* The invariant of the torrent file holds in every state.                  *)
LEMMA Invariant == Spec => []IInv
  BY InitIInv, NextIInv, PTL DEF Spec

(* Types: no range and no read leaves the torrent at its end but for the    *)
(* piece one past it, and only pieces that are there are in the cache,      *)
(* whatever sizes and offsets are asked for.                                *)
THEOREM TypeCorrect == Spec => []TypeOK
<1>1. IInv => TypeOK
  BY DEF IInv
<1> QED BY <1>1, Invariant, PTL

(* Every request loop ends, but for that of a read past the torrent that is *)
(* longer than a piece.                                                     *)
THEOREM RequestLoopsEnd == Spec => []LoopsEnd
<1>1. IInv => LoopsEnd
  BY DEF IInv, CallInv, Past, LoopsEnd
<1> QED BY <1>1, Invariant, PTL

(* file::read returns the bytes at its offset, for any piece length and any *)
(* place of the file in the torrent.                                        *)
THEOREM ReadsExact == Spec => []ReadIsExact
<1>1. IInv => ReadIsExact
  BY DEF IInv
<1> QED BY <1>1, Invariant, PTL

(* No piece of a wait is forgotten between request_piece and the alerts.    *)
THEOREM RequestsKept == Spec => []NoRequestLost
  BY InvNoRequestLost, Invariant, PTL
=============================================================================
