------------------------ MODULE MCPipelineRefinement ------------------------
(* Small instances of the refinement for TLC.                              *)
EXTENDS PipelineRefinement, MCPipeline
=============================================================================
