----------------------------- MODULE MCPipeline -----------------------------
(* The frame hand-off for TLC: a few frames of two chunks, one preview at a *)
(* time, a panel that may stop.                                             *)
EXTENDS Pipeline
=============================================================================
