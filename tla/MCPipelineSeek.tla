--------------------------- MODULE MCPipelineSeek ---------------------------
(* The seek protocol with a bounded number of seek calls and short queues. *)
EXTENDS PipelineSeek
=============================================================================
