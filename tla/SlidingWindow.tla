---------------------------- MODULE SlidingWindow ----------------------------
(***************************************************************************)
(* What a pps_stats_t promises to its users: it holds the last Length      *)
(* offsets given to pps_stats_update, the oldest one first, and            *)
(* pps_stats_reset forgets them all.  PpsStats implements this             *)
(* specification with a circular buffer threaded by a sorted list.         *)
(***************************************************************************)
EXTENDS Integers, Sequences

CONSTANTS
    Length,   \* capacity, the length given to pps_stats_ctor
    Offsets   \* the offsets that can be measured, in ns

VARIABLE window   \* the offsets held, the oldest one first

TypeOK == window \in Seq(Offsets) /\ Len(window) <= Length

Init == window = << >>

(* pps_stats_update: the oldest offset leaves when there is no room left. *)
Push(v) ==
    window' = IF Len(window) = Length
              THEN Append(Tail(window), v)
              ELSE Append(window, v)

(* pps_stats_reset *)
Clear == window' = << >>

Next == Clear \/ \E v \in Offsets : Push(v)

Spec == Init /\ [][Next]_window
=============================================================================
