----------------------------- MODULE MCSubtitles -----------------------------
(* Subtitles for TLC: files of two subtitles, the second of which begins   *)
(* when the first ends, and a time behind them at which none is due.  The   *)
(* second turn of reader and UI thread matters with these times.            *)
EXTENDS Subtitles

MCTimes == <<<<0, 2>>, <<2, 3>>>>

ASSUME TimesAreWell == WellTimed
=============================================================================
