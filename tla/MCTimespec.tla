----------------------------- MODULE MCTimespec -----------------------------
(***************************************************************************)
(* Values for the run of Timespec: a second of 3 ns.                       *)
(***************************************************************************)
EXTENDS Timespec

(* Either sign, and enough to carry more than one second either way. *)
MCParts == -1 .. 1
MCNanoseconds == -7 .. 7
=============================================================================
