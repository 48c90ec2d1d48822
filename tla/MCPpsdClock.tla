---------------------------- MODULE MCPpsdClock ----------------------------
(***************************************************************************)
(* Values and properties for the run of PpsdClock, scaled down as those of *)
(* MCPpsd.  A time stamp may be 1 ns late, and the oscillator gains 4 or 5 *)
(* ns every second before it is corrected.                                 *)
(***************************************************************************)
EXTENDS PpsdClock

(* Not so near to half a second that the drift takes the clock out of the
   daemon's reach before its first correction. *)
MCInitErrors == {-20, 0, 12}
MCJitters == {0, 1}
MCInitFreqs == {0, 1}

MCDevice(waits, captures) ==
    [opens |-> TRUE, waits |-> waits, captures |-> captures]
MCDevices ==
    { MCDevice(TRUE, Edges), MCDevice(TRUE, {"assert"}),
      MCDevice(FALSE, Edges), MCDevice(TRUE, {}) }

(* What Ppsd allows; the estimates of the drift are the ones that matter. *)
MCOffsets == -90 .. 90
MCDeviations == 0 .. 30
MCNoise == {-1, 0, 1}
MinusHalf == -50

(* What ppsd is for: whatever its error was, the clock ends up as near to the
   pulses, less their known offset (option -H), as four times the jitter, and
   stays there, until a pulse is lost.  It does so on the edge the device
   captures, which may not be the one asked for (pps_helper.c:76-82). *)
SteadyAtLast == pc = "first" ~> (pc = "down" \/ [](Abs(Offset) <= 4))
=============================================================================
