-------------------------- MODULE MCSubtitlesQueue --------------------------
(* The subtitles queue with its two popping threads. *)
EXTENDS SubtitlesQueue
=============================================================================
