------------------------------ MODULE MCTimeref ------------------------------
(***************************************************************************)
(* Values for the runs of Timeref: a second has four quarters.             *)
(***************************************************************************)
EXTENDS Timeref

MCProcessing == {0, 1, 3}
MCDelays == {0, 1}

(* Far from the true time, either way. *)
MCGarbage == {-30, 9}

(* Clocks set at boot to an old date, a little early or late, right. *)
MCSkews == {-20, -3, -1, 0, 2, 6}
=============================================================================
