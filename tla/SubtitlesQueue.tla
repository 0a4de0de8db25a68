--------------------------- MODULE SubtitlesQueue ---------------------------
(***************************************************************************)
(* The subtitles queue of pipeline_threads is an srsw_fifo without a lock. *)
(* The subtitle reader thread pushes to it.  Two threads pop it: the UI    *)
(* thread in video_render_thread::update_current_subtitle, and the packet  *)
(* reader in pipeline_threads::flush_queues when it serves a seek; nothing *)
(* keeps the one out while the other is inside.                            *)
(***************************************************************************)
EXTENDS SrswFifo

CONSTANTS Render,        \* the UI thread
          PacketReader   \* the packet reader thread

(* update_current_subtitle: pop what is too old, then move the front out if *)
(* it is due.                                                               *)
UpdateCurrentSubtitle ==
    \/ EmptyCheck(Render) \/ Peek(Render) \/ Take(Render)
    \/ PopCheck(Render) \/ PopLoad(Render) \/ PopAdvance(Render)

(* subtitles_queue_.flush() *)
FlushSubtitles ==
    \/ FlushBegin(PacketReader) \/ FlushPop(PacketReader) \/ FlushEnd(PacketReader)
    \/ PopCheck(PacketReader) \/ PopLoad(PacketReader) \/ PopAdvance(PacketReader)

SubtitlesNext == Writer \/ UpdateCurrentSubtitle \/ FlushSubtitles

SubtitlesSpec == Init /\ [][SubtitlesNext]_vars

(* "Single reader, single writer lockless fifo" (srsw_fifo.hpp:16): the     *)
(* subtitle that the UI thread finds at the front after empty() said no is  *)
(* one that was queued, as it is when nobody else pops.                     *)
FrontSubtitleWasQueued ==
    r_pc[Render] = "front" => m_queue[m_read_index] \in Elems
=============================================================================
