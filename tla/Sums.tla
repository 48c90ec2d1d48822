-------------------------------- MODULE Sums --------------------------------
(***************************************************************************)
(* A sum added term after term, as the loops of src/pps_stats.c do.        *)
(***************************************************************************)
EXTENDS Integers

(* f[1] + ... + f[k] *)
SumTo(f, k) ==
    LET sum[n \in 0 .. k] == IF n = 0 THEN 0 ELSE sum[n - 1] + f[n]
    IN  sum[k]
=============================================================================
