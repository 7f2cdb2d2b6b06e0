------------------------- MODULE MCPipelineHistory --------------------------
(* Small instances of the observed pipeline for TLC.                       *)
EXTENDS PipelineHistory, MCPipeline
=============================================================================
