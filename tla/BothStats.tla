------------------------------ MODULE BothStats ------------------------------
(***************************************************************************)
(* The statistics and those they have replaced, side by side: whenever     *)
(* pps_stats_update is done, FormerStats is updated with the same offset,  *)
(* and both are reset together.                                            *)
(***************************************************************************)
EXTENDS PpsStats

CONSTANT Unsigned   \* 2^32, the numbers of an unsigned int

ASSUME UnsignedAssumption == Unsigned \in Nat \ {0}

VARIABLES buff, fk, is_full, fcum, fcum2, icum, icum2

F == INSTANCE FormerStats WITH k <- fk

former == <<buff, fk, is_full, fcum, fcum2, icum, icum2>>
both == <<vars, former>>

BothInit == Init /\ F!Init

BothReset == Reset /\ F!Restart
BothUpdate == (PlaceFirst \/ Link) /\ F!Update(x)
Meanwhile == (Evict \/ Place \/ Walk) /\ UNCHANGED former
BothSteps == BothUpdate \/ Meanwhile

BothNext ==
    \/ BothReset
    \/ BothSteps
    \/ \E v \in Offsets : Update(v) /\ UNCHANGED former

BothSpec == BothInit /\ [][BothNext]_both /\ WF_both(BothSteps)

(* The integer version's mean is the exact one without its fraction.  While no
   square held is over 32 bits, the unsigned number its variance divides never
   goes below zero; beyond, its sum of squares is wrong by whole multiples of
   2^32, which leave with the offset that brought them. *)
IntegerSums ==
    pc = "idle" =>
        /\ HeldLength > 0 =>
            /\ F!IntMean * icum >= 0
            /\ LET rest == icum - HeldLength * F!IntMean
               IN  -HeldLength < rest /\ rest < HeldLength
        /\ (cum2 - icum2) % Unsigned = 0
        /\ (\A i \in Live : ns[i] * ns[i] < Unsigned) =>
            /\ cum2 = icum2
            /\ F!IntSpread >= 0

(* The former statistics answer what those that replaced them do: "TODO Check
   sliding stats" (attics/ll_stats.c:68).  There are two exceptions: what is
   asked over a single offset, of which only the former ones have a mean, and
   a variance that divides by zero if others are held; and the drift once the
   buffer has wrapped, as an offset's place in it stands for its time. *)
FormerAgrees ==
    /\ IntegerSums
    /\ pc = "idle" =>
        /\ F!Held = HeldLength
        /\ \A win \in 0 .. Length + 1 :
            (HeldLength # 1 /\ win # 1) =>
                /\ M!Same(F!Mean(win), Mean(win))
                /\ M!Same(F!Variance(win), Variance(win))
        /\ fk = 0 \/ ~is_full => M!Same(F!Drift, Drift(0))
=============================================================================
