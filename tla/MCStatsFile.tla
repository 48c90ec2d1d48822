---------------------------- MODULE MCStatsFile ----------------------------
(***************************************************************************)
(* Values for the run of StatsFile: a second is 8 ns, printed in base 2, so *)
(* that a field of three characters stands for one of nine.                *)
(***************************************************************************)
EXTENDS StatsFile

(* The first is too wide for its field, the second fits, the last two carry. *)
MCOffsets == {-6, -3, 3}

(* With -H 3 the references are 5 ns after a second.  Columns of statistics
   only change how a line is read if they follow two fractions. *)
MCFormats ==
    {f \in [abs_tref : BOOLEAN, abs_toff : BOOLEAN, stats : BOOLEAN,
            fraction : {0, 5}, header : BOOLEAN, first : {0, 2}] :
        /\ f.header => ~f.abs_tref
        /\ f.abs_tref => f.first = 0
        /\ f.stats => f.abs_toff /\ f.fraction # 0}
=============================================================================
