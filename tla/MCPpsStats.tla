----------------------------- MODULE MCPpsStats -----------------------------
(***************************************************************************)
(* Model values and reference definitions for the runs of PpsStats.        *)
(***************************************************************************)
EXTENDS PpsStats
LOCAL INSTANCE TLC

MCOffsets == {-3, 1, 2}

(* The offsets held between two calls, sorted: the reference order. *)
Sorted == SortSeq(Window, LAMBDA a, b : a < b)

(* The list is "sorted by offset to evaluate the median" (pps_stats.c:19):
   of an even number of offsets, the mean of the two in the middle. *)
MedianOfEven ==
    pc = "idle" /\ HeldLength % 2 = 0 /\ HeldLength > 0 =>
        LET half == HeldLength \div 2
        IN  DoubleMedian = Sorted[half] + Sorted[half + 1]
=============================================================================
