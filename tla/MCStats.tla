------------------------------- MODULE MCStats -------------------------------
(***************************************************************************)
(* Model values for the run of BothStats, and so of PpsStats.              *)
(***************************************************************************)
EXTENDS BothStats, MCPpsStats
=============================================================================
