------------------------------- MODULE MCPpsd -------------------------------
(***************************************************************************)
(* Values for the runs of Ppsd, scaled down: a tick of 10 us changed by at *)
(* most 2, so that 1 us is 10 ppb, the coarse correction does 20 ns/s, the *)
(* fine one 10 ns/s, and a second is 100 ns.                               *)
(***************************************************************************)
EXTENDS Ppsd

(* Both signs; not to be corrected; within the frequency's reach, the tick's,
   and one, two and three coarse seconds; with and without complements. *)
MCOffsets == {-51, -47, -33, -20, -13, -7, 0, 2, 9, 10, 15, 20, 36, 47, 50, 51}
MCDeviations == {0, 3}
MCNoise == {-1, 0, 2}
MCInitFreqs == {0, 5}

(* Values of the options -o and -O. *)
MinusHalf == -50
Minus30 == -30
=============================================================================
