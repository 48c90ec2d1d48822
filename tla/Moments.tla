------------------------------ MODULE Moments ------------------------------
(***************************************************************************)
(* The mean, the variance and the drift of a window of offsets: what       *)
(* pps_stats_mean and pps_stats_drift_ppb (src/pps_stats.c) return.        *)
(* PpsStats evaluates them as the code does, cell after cell, and is       *)
(* compared with this module; PpsdClock steers the clock with them.        *)
(*                                                                         *)
(* A window is a sequence, the oldest offset first.  Its offsets are one   *)
(* second apart, since ppsd_update adds one to the time reference for each *)
(* offset it stores: an offset's time is its index.  The code computes     *)
(* with long doubles, here a value is a fraction <<num, den>>, den > 0.    *)
(***************************************************************************)
EXTENDS Integers, Sequences, Sums

Total(w) == SumTo(w, Len(w))
Squares(w) == SumTo([i \in DOMAIN w |-> w[i] * w[i]], Len(w))

Zero == <<0, 1>>

(* A single offset has neither variance nor drift, and the code gives it no
   mean either: PPS_STATS_VAR_UNBIASED is 1. *)
Few(w) == Len(w) <= 1

MeanOf(w) == IF Few(w) THEN Zero ELSE <<Total(w), Len(w)>>

VarianceOf(w) ==
    IF Few(w)
    THEN Zero
    ELSE <<Len(w) * Squares(w) - Total(w) * Total(w), Len(w) * (Len(w) - 1)>>

(* The slope of the least squares line, in ns per second. *)
DriftOf(w) ==
    LET k == Len(w)
    IN  IF Few(w)
        THEN Zero
        ELSE <<6 * SumTo([i \in 1 .. k |-> (2 * i - k - 1) * w[i]], k),
               k * (k * k - 1)>>

Same(p, q) == p[1] * q[2] = q[1] * p[2]
Plus(p, q) == <<p[1] * q[2] + q[1] * p[2], p[2] * q[2]>>
Times(p, q) == <<p[1] * q[1], p[2] * q[2]>>

(* roundl: to the nearest, away from zero when halfway. *)
Rounded(q) ==
    LET up == (2 * (IF q[1] < 0 THEN -q[1] ELSE q[1]) + q[2]) \div (2 * q[2])
    IN  IF q[1] < 0 THEN -up ELSE up

(* roundl of sqrtl *)
RoundedRoot(q) ==
    CHOOSE r \in 0 .. q[1] :
        /\ (2 * r + 1) * (2 * r + 1) * q[2] > 4 * q[1]
        /\ r > 0 => (2 * r - 1) * (2 * r - 1) * q[2] <= 4 * q[1]
=============================================================================
