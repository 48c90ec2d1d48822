----------------------------- MODULE PpsdClock -----------------------------
(***************************************************************************)
(* The daemon of Ppsd with what it measures instead of any estimate: the   *)
(* system clock it stamps the pulses with and steers, the PPS device       *)
(* (src/pps_helper.c), and the two windows of offsets (src/pps_stats.c)    *)
(* it makes its estimates from.                                            *)
(*                                                                         *)
(* Each action is one of Ppsd, with the value it leaves open, together     *)
(* with what it does to the clock and the windows.  A window is the        *)
(* SlidingWindow that PpsStats implements; what is evaluated from it is    *)
(* in Moments.  That the estimates are among those Ppsd allows, whichever  *)
(* jitter the pulses have, is the property ImplementsPpsd.                 *)
(*                                                                         *)
(* MaxBehind is 0: a lost pulse ends the daemon.  A pulse lost inside a    *)
(* correction, which does not, leaves the offsets one second wrong for     *)
(* good (run ppsd_lost) and shows nothing more here.                       *)
(***************************************************************************)
EXTENDS Ppsd, Sequences

CONSTANTS
    InitErrors,      \* the clock's error when a daemon starts, in ns
    Jitters,         \* errors of a pulse's time stamp
    Devices,         \* what the PPS device may be when it is opened
    Asked,           \* options -A and -C: "assert" or "clear"
    PulseWidth,      \* how late a pulse is cleared after it is asserted
    HwOffset         \* option -H

Edges == {"assert", "clear"}
NoDevice == "none"

EdgeDelay(e) == IF e = "clear" THEN PulseWidth ELSE 0

(* The difference of a stamp with the second it belongs to, before -H. *)
Stamp(err, e) == err + EdgeDelay(e)

ASSUME ClockAssumption ==
    /\ MaxBehind = 0 /\ ~MayCrash
    /\ InitErrors \cup Jitters \cup {PulseWidth, HwOffset} \subseteq Int
    /\ Asked \in Edges
    /\ Devices \subseteq [opens : BOOLEAN, waits : BOOLEAN, captures : SUBSET Edges]
    \* ppsd_update rounds the first stamp to a second, before it subtracts -H
    /\ \A err \in InitErrors, e \in Edges, j \in Jitters :
           -HalfSecond <= Stamp(err, e) + j /\ Stamp(err, e) + j < HalfSecond

VARIABLES
    error,                   \* system clock minus true time, at the last pulse
    edge,                    \* capture_assert, or NoDevice
    off_stats, drift_stats   \* the two windows

windows == <<off_stats, drift_stats>>
clock == <<error, edge, windows>>
cvars == <<vars, clock>>

OffStats == INSTANCE SlidingWindow
    WITH Length <- OffNb, Offsets <- Int, window <- off_stats
DriftStats == INSTANCE SlidingWindow
    WITH Length <- DriftNb, Offsets <- Int, window <- drift_stats
M == INSTANCE Moments

CInit ==
    /\ Init
    /\ error = 0
    /\ edge = NoDevice
    /\ off_stats = << >>
    /\ drift_stats = << >>

-----------------------------------------------------------------------------
(* _pps_open: a device that cannot be opened, cannot wait or captures no edge
   (its parameters are refused) is released and main exits; an edge it does
   not capture is replaced by the other one. *)
Negotiated(d) ==
    IF Asked \in d.captures THEN Asked
    ELSE CHOOSE e \in Edges : e # Asked

Usable(d) == d.opens /\ d.waits /\ Negotiated(d) \in d.captures

(* ppsd_open, with the windows of ppsd_stats_init. *)
COpen ==
    /\ Start
    /\ error' \in InitErrors
    /\ \E d \in Devices : Usable(d) /\ edge' = Negotiated(d)
    /\ UNCHANGED windows

(* ppsd_close, or any other end of the process. *)
CClose == error' = 0 /\ edge' = NoDevice /\ OffStats!Clear /\ DriftStats!Clear

(* What the last second made of the clock's error. *)
Elapsed == NaturalDrift + freq + (tick - BootTick) * PerTick

(* ImplementsPpsd: the drift's window is not compensated. *)
Measure_BugBiased ==
    \E j \in Jitters :
        LET offset == Stamp(error', edge) + j - HwOffset + behind' * Second
        IN  OffStats!Push(offset) /\ DriftStats!Push(offset)

(* SteadyAtLast: -H is added. *)
Measure_BugSign ==
    \E j \in Jitters :
        LET offset == Stamp(error', edge) + j + HwOffset + behind' * Second
        IN  OffStats!Push(offset) /\ DriftStats!Push(offset + cum_off')

(* ppsd_update, once the pulse is stamped: no offset is an outlier, since
   every caller leaves dist2predict_max_ns at 0. *)
Measure ==
    \E j \in Jitters :
        LET offset == Stamp(error', edge) + j - HwOffset + behind' * Second
        IN  OffStats!Push(offset) /\ DriftStats!Push(offset + cum_off')

CPulse == error' = error + Elapsed /\ Measure /\ UNCHANGED edge
CQuiet == UNCHANGED clock

(* estimate_set, "offset estimate is not the mean!": the drift carries it from
   the middle of the window to after its end; then estimate_get, one second
   later. *)
OffsetEstimate ==
    LET ahead == <<Len(off_stats) + 2, 2>>
        drift == M!DriftOf(off_stats)
    IN  M!Rounded(M!Plus(M!MeanOf(off_stats), M!Times(ahead, drift)))
            + M!Rounded(drift)

(* The offset's turn. *)
CEvalOffset ==
    /\ pc = "offset"
    /\ off' = OffsetEstimate
    /\ dev' = M!RoundedRoot(M!VarianceOf(off_stats))
    /\ OffsetTurn(M!Rounded(M!DriftOf(off_stats)))
    /\ CQuiet

(* The offsets taken during a correction leave the offset's window. *)
CSettle == Settle /\ OffStats!Clear /\ UNCHANGED <<error, edge, drift_stats>>

(* The drift's turn. *)
CEvalDrift ==
    /\ EvalDriftAs(M!Rounded(M!DriftOf(drift_stats)))
    /\ DriftStats!Clear
    /\ UNCHANGED <<error, edge, off_stats>>

CSteps ==
    \/ First /\ pc' # "down" /\ UNCHANGED <<error, edge>> /\ Measure
    \/ First /\ pc' = "down" /\ CClose
    \/ (Wait \/ RunAgain) /\ CPulse
    \/ (Exit \/ Abort) /\ CClose
    \/ CEvalOffset
    \/ Jump /\ error' = error - off /\ UNCHANGED <<edge, windows>>
    \/ (Coarse \/ Fine \/ Trim) /\ CPulse
    \/ (Leave \/ Smooth \/ StartFine \/ SkipFine \/ StartTrim \/ SkipTrim) /\ CQuiet
    \/ CSettle
    \/ CEvalDrift

CNext == COpen \/ CSteps

CSpec == CInit /\ [][CNext]_cvars /\ WF_cvars(CSteps)
-----------------------------------------------------------------------------
(* Properties. *)

(* The offset the daemon measures, but for the jitter. *)
Offset == Stamp(error, edge) - HwOffset

(* An estimate is made of as many offsets as options -n and -N ask for,
   although corrections take pulses, which are not counted (the FIXME of
   ppsd.c:487), and a run ends with one more. *)
WindowsFull ==
    /\ pc = "offset" => Len(off_stats) = OffNb
    /\ pc = "drift" => Len(drift_stats) = DriftNb

(* Ppsd is right to take the drift evaluated for the true one but for an
   error in Noise, 1 ppb in the run: the window holds the offsets of a clock that is
   not corrected, also when the first correction of the frequency, at the
   offset's turn, falls inside the window (ppsd.c:481). *)
ImplementsPpsd == Spec
=============================================================================
