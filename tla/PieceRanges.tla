----------------------------- MODULE PieceRanges -----------------------------
(***************************************************************************)
(* Which pieces of a torrent hold a part of a file                         *)
(* (cpaf_libs/torrent/torrent.cpp).  Pieces are numbered from 0, all of    *)
(* PieceLength bytes but the last, and the files of a torrent lie one      *)
(* after the other in them.  A range is [begin, end), and start is where   *)
(* the wanted bytes begin in its first piece.  An offset may lie outside   *)
(* the file, before it as well: a refused seek leaves it there.            *)
(***************************************************************************)
EXTENDS Integers

CONSTANTS PieceLength,
          TotalSize,     \* bytes in all files of the torrent
          FileStart,     \* where the file begins among them
          FileSize

ASSUME GeometryAssumption ==
    /\ PieceLength \in Nat \ {0} /\ FileStart \in Nat /\ FileSize \in Nat \ {0}
    /\ TotalSize \in Nat /\ FileStart + FileSize <= TotalSize

SmallerOf(a, b) == IF a < b THEN a ELSE b

NumPieces == (TotalSize + PieceLength - 1) \div PieceLength
LastPiece == NumPieces - 1
Pieces == 0 .. LastPiece
Ranges == {range \in [begin : Int, end : Int, start : Int] :
              range.begin <= NumPieces /\ range.end <= NumPieces + 1}

(* C++ divides towards zero. *)
TowardsZero(bytes) ==
    IF bytes < 0 THEN -((-bytes) \div PieceLength) ELSE bytes \div PieceLength

(* libtorrent's map_file: an offset past all files maps to no piece.  The
   remainder of a division towards zero is negative for a place before them. *)
MapFile(offset) ==
    LET at == FileStart + offset
    IN  IF at >= TotalSize THEN [piece |-> NumPieces, start |-> 0]
        ELSE [piece |-> TowardsZero(at), start |-> at - TowardsZero(at) * PieceLength]

NoRange == [begin |-> -1, end |-> -1, start |-> -1]

(* Mutant: a range is not cut. *)
EnsureRangeValidNot(range) == range

(* piece_index_end() is the last piece, not one past it: it is cut off. *)
EnsureRangeValid(range) == [range EXCEPT !.end = SmallerOf(@, LastPiece)]

(* bytes is negative when less than one piece is to be read ahead. *)
PiecesFor(bytes) == TowardsZero(bytes) + (IF bytes % PieceLength = 0 THEN 0 ELSE 1)

GetPiecesRange(offset, size) ==
    LET first == MapFile(offset)
        one   == [begin |-> first.piece, end |-> first.piece + 1, start |-> first.start]
        rest  == size - (PieceLength - first.start)
    IN  IF rest <= 0 THEN one
        ELSE IF PiecesFor(rest) > NumPieces THEN NoRange
        ELSE EnsureRangeValid([one EXCEPT !.end = @ + PiecesFor(rest)])

ReadAheadRange(piece, size) ==
    EnsureRangeValid([begin |-> piece, start |-> -1,
                      end |-> piece + 1 + PiecesFor(size - PieceLength)])

PiecesOf(range) == range.begin .. (range.end - 1)

(* Mutant: the first piece is copied from its start. *)
CopiedFromStart(range, size) ==
    LET first == range.begin * PieceLength
        last  == SmallerOf(range.end * PieceLength, TotalSize)
    IN  [first |-> first, count |-> SmallerOf(last - first, size)]

(* The bytes read() copies from a range whose pieces are all there: it skips
   start, and the last piece may be shorter.  Bytes are named by their place
   in the torrent, which has none at a negative place: those are read from in
   front of a buffer. *)
Copied(range, size) ==
    LET first == range.begin * PieceLength + range.start
        last  == SmallerOf(range.end * PieceLength, TotalSize)
    IN  [first |-> first, count |-> SmallerOf(last - first, size)]
=============================================================================
