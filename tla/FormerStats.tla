---------------------------- MODULE FormerStats ----------------------------
(***************************************************************************)
(* The statistics pps_stats.c has replaced: src/attics/ll_stats.c, with    *)
(* long doubles, and src/attics/ll_stats_ll.c, with integers.  They share  *)
(* a circular buffer with no sorted list and no time stamps; each keeps    *)
(* its own sums.  BothStats gives them the offsets pps_stats_update is given *)
(* and compares what they answer.                                          *)
(***************************************************************************)
EXTENDS Integers, Sums

CONSTANTS
    Length,   \* number of cells of the buffer
    Unsigned  \* 2^32: what the integer version cuts a square to

VARIABLES
    buff, k, is_full,   \* is_full > 0
    fcum, fcum2,        \* cum and cum2 of ll_stats.c
    icum, icum2         \* those of ll_stats_ll.c

ring == <<buff, k, is_full>>
sums == <<fcum, fcum2, icum, icum2>>

Cells == 0 .. Length - 1

(* The sum of g over the cells of S. *)
Sum(S, g) ==
    SumTo([i \in 1 .. Length |-> IF i - 1 \in S THEN g[i - 1] ELSE 0], Length)

(* ll_stats_init: the buffer is the caller's. *)
Init ==
    /\ buff = [i \in Cells |-> 0]
    /\ k = 0
    /\ is_full = FALSE
    /\ fcum = 0 /\ fcum2 = 0
    /\ icum = 0 /\ icum2 = 0

Restart ==
    /\ k' = 0
    /\ is_full' = FALSE
    /\ fcum' = 0 /\ fcum2' = 0
    /\ icum' = 0 /\ icum2' = 0
    /\ UNCHANGED buff

(* Both ll_stats_update.  The integer version cuts squares, those it adds as
   those it takes away. *)
Cut(n) == (n * n) % Unsigned

Update(x) ==
    LET y == IF is_full THEN buff[k] ELSE 0
    IN  /\ fcum' = fcum - y + x
        /\ fcum2' = fcum2 - y * y + x * x
        /\ icum' = icum - y + x
        /\ icum2' = icum2 - Cut(y) + Cut(x)
        /\ buff' = [buff EXCEPT ![k] = x]
        /\ k' = IF k + 1 = Length THEN 0 ELSE k + 1
        /\ is_full' = (is_full \/ k + 1 = Length)

-----------------------------------------------------------------------------
(* ll_stats_length *)
Held == IF is_full THEN Length ELSE k

(* FormerAgrees: the second loop starts one cell too far. *)
Recent_Bug(win) ==
    IF win <= k
    THEN k - win .. k - 1
    ELSE 0 .. k - 1 \cup Held - (win - k) + 1 .. Held - 1

(* The cells the two loops of ll_stats_window go over. *)
Recent(win) ==
    IF win <= k
    THEN k - win .. k - 1
    ELSE 0 .. k - 1 \cup Held - (win - k) .. Held - 1

(* The sums of ll_stats_window, and the length it divides them by. *)
WindowSums(win) ==
    IF win = 0 \/ win > Held
    THEN <<fcum, fcum2, Held>>
    ELSE << Sum(Recent(win), buff),
            Sum(Recent(win), [i \in Cells |-> buff[i] * buff[i]]),
            win >>

(* ll_stats_mean, a fraction.  Asked for a window of the buffer's length at
   most it goes through ll_stats_window, which leaves 0 for a single offset;
   asked for the whole buffer it does not. *)
Mean(win) ==
    LET sum == WindowSums(win)
    IN  IF Held = 0 THEN <<0, 1>>
        ELSE IF win = 0 \/ win > Length THEN <<fcum, Held>>
        ELSE IF Held = 1 THEN <<0, 1>> ELSE <<sum[1], sum[3]>>

(* ll_stats_var, for a window of 2 at least or the whole buffer. *)
Variance(win) ==
    LET sum == WindowSums(win)
        n == sum[3]
    IN  IF Held <= 1 THEN <<0, 1>>
        ELSE <<n * sum[2] - sum[1] * sum[1], n * (n - 1)>>

(* ll_stats_drift_ppb: an offset's time is its place in the buffer. *)
Drift ==
    LET n == Held
        covar == Sum(0 .. n - 1,
                     [i \in Cells |-> (n * buff[i] - fcum) * (2 * i - (n - 1))])
        var == Sum(0 .. n - 1,
                   [i \in Cells |-> (2 * i - (n - 1)) * (2 * i - (n - 1))])
    IN  IF n <= 1 THEN <<0, 1>> ELSE <<2 * covar, n * var>>

-----------------------------------------------------------------------------
(* The integer version: a C division goes toward zero. *)
Quotient(a, b) == IF a < 0 THEN -((-a) \div b) ELSE a \div b

IntMean == IF Held = 0 THEN 0 ELSE Quotient(icum, Held)

(* What ll_stats_var divides, in ll_stats_ll.c; it is unsigned there. *)
IntSpread == icum2 - Held * IntMean * IntMean
=============================================================================
