--------------------------- MODULE MCTorrentFile ---------------------------
(* TorrentFile for TLC: pieces of two bytes, and seeks into the file, to    *)
(* its end, which is the torrent's, and to a byte before the torrent.       *)
EXTENDS TorrentFile

MCSeekTargets == {2, 4, -2}
=============================================================================
