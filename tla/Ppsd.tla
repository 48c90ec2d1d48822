-------------------------------- MODULE Ppsd --------------------------------
(***************************************************************************)
(* The daemon (src/ppsd.c, with its waits in src/pps_helper.c and its loop *)
(* in src/ppsd_main.c): it stamps one pulse per second with the system     *)
(* clock, estimates the clock's offset and drift over windows of pulses,   *)
(* and steers the kernel.  An offset is corrected by one jump or by        *)
(* changing the clock's rate for some seconds; while it does, the daemon   *)
(* goes on taking pulses from inside the correction.                       *)
(*                                                                         *)
(* One step is a wait for a pulse, or what the code does between two       *)
(* waits.  The windows are abstracted: an offset estimate is any member of *)
(* Offsets with any deviation, a drift estimate is the true drift but for  *)
(* an error in Noise.  Time is counted in half seconds, since a wait lasts *)
(* until the next pulse or for one second and a half.                      *)
(***************************************************************************)
EXTENDS Adjtimex

CONSTANTS
    TickUnit,                \* 1000: the tick must be a multiple of it
    TickAdjMax,              \* the largest change of the tick, in us
    HalfSecond,              \* the offsets the daemon is designed for, in ns
    MinOffset, MaxOffset,    \* options -o and -O
    MaxDrift,                \* option -D
    OffNb, DriftNb,          \* options -n and -N
    Once,                    \* option -1
    InitFreqs,               \* frequency corrections at boot
    NaturalDrift, Noise,     \* drift of the oscillator, errors of its estimate
    Offsets, Deviations,     \* estimates of the offset
    MayTimeOut, MayRetry,    \* whether pulses are lost, reported or not
    MaxBehind,               \* bound on the pulses lost by one process
    MayCrash                 \* whether the process may be killed

ASSUME DaemonAssumption ==
    /\ {TickUnit, TickAdjMax, HalfSecond, OffNb, DriftNb} \subseteq Nat \ {0}
    /\ MinTick <= BootTick - TickAdjMax /\ BootTick + TickAdjMax <= MaxTick
    /\ BootTick % TickUnit = 0 /\ TickAdjMax < TickUnit
    /\ PerTick \in Nat \ {0}
    /\ {MinOffset, MaxOffset, NaturalDrift} \cup Noise \cup Offsets \subseteq Int
    /\ InitFreqs \subseteq -MaxFreq .. MaxFreq
    /\ {MaxDrift, MaxBehind} \cup Deviations \subseteq Nat
    /\ {Once, MayTimeOut, MayRetry, MayCrash} \subseteq BOOLEAN

VARIABLES
    pc,                  \* where the process stands; "down" when there is none
    pps_cnt,             \* pulses counted by ppsd_run
    late,                \* half seconds since the last pulse, seen or not
    behind,              \* that pulse's true second, minus timeref
    cum_off, cum_drift,  \* cumulated corrections of the offset and the drift
    off, dev,            \* offset_ns and stddev_ns of ppsd_adj_offset_ns
    smooth_min,          \* its smooth_min_ppb
    s,                   \* its seconds of coarse correction left
    complement,          \* its complement_ns
    adj,                 \* the temporary change it has to undo
    \* not in the code, for the properties:
    tick0, freq0,        \* the settings when no offset is being corrected
    moved,               \* what the corrections moved the clock by, in ns,
                         \* since cum_off was last reset
    goal                 \* the cum_off that would correct the whole offset

kernel == <<tick, freq>>
estimate == <<off, dev>>
smooth == <<smooth_min, s, complement, adj>>
time == <<late, behind, moved>>
base == <<tick0, freq0>>
vars == <<kernel, pc, pps_cnt, time, cum_off, cum_drift, estimate, smooth,
          base, goal>>

Abs(n) == IF n < 0 THEN -n ELSE n

(* Definitions whose name ends in _Bug are seeded bugs: each is a mistake the
   code could hold where the definition that follows stands, and the property
   named catches it. *)

(* WholeCorrection: the change of rate is never negative. *)
Signed_Bug(n) == n

Signed(n) == IF off > 0 THEN n ELSE -n

(* DriftEvaluated: the run is as long as the offset's window. *)
PpsNb_Bug == OffNb

PpsNb == IF OffNb > DriftNb THEN OffNb ELSE DriftNb

-----------------------------------------------------------------------------
(* The process is gone; what it had set in the kernel remains. *)
Gone ==
    /\ pc' = "down"
    /\ pps_cnt' = 0
    /\ late' = 0
    /\ behind' = 0
    /\ moved' = 0
    /\ cum_off' = 0
    /\ cum_drift' = 0
    /\ off' = 0 /\ dev' = 0
    /\ smooth_min' = 0 /\ s' = 0 /\ complement' = 0 /\ adj' = 0
    /\ goal' = 0
    /\ UNCHANGED <<kernel, base>>

Init ==
    /\ tick = BootTick
    /\ freq \in InitFreqs
    /\ pc = "down"
    /\ pps_cnt = 0
    /\ late = 0
    /\ behind = 0
    /\ moved = 0
    /\ cum_off = 0
    /\ cum_drift = 0
    /\ off = 0 /\ dev = 0
    /\ smooth_min = 0 /\ s = 0 /\ complement = 0 /\ adj = 0
    /\ tick0 = tick /\ freq0 = freq
    /\ goal = 0

(* ppsd_open, by main.  The service manager restarts what has exited. *)
Start ==
    /\ pc = "down"
    /\ pc' = "first"
    /\ cum_drift' = freq
    /\ tick0' = tick /\ freq0' = freq
    /\ UNCHANGED <<kernel, pps_cnt, time, cum_off, estimate, smooth, goal>>

(* Half seconds pass; the clock moves by what a correction adds to its rate. *)
Elapse(halves) ==
    moved' = moved + (halves * ((tick - tick0) * PerTick + freq - freq0)) \div 2

(* The three ways a wait ends in pps_get_timestamp: with the next pulse, with
   an error after one second and a half, or with the same but for an elapsed
   time that looks shorter, and the code waits again. *)
Stamped ==
    /\ Elapse(2 - late)
    /\ late' = 0
    /\ UNCHANGED behind

Lost ==
    /\ behind + 1 + late <= MaxBehind
    /\ Elapse(3)
    /\ late' = 1 - late
    /\ behind' = behind + 1 + late

TimedOut == MayTimeOut /\ Lost

Retry ==
    /\ MayRetry
    /\ pc \in {"wait", "coarse", "fine", "trim"}
    /\ Lost
    /\ UNCHANGED <<kernel, pc, pps_cnt, cum_off, cum_drift, estimate, smooth,
                   base, goal>>

(* The first ppsd_update after ppsd_open: the time reference is that pulse's
   second, lost pulses before it do not matter. *)
First ==
    /\ pc = "first"
    /\ \/ /\ pps_cnt' = 1
          /\ pc' = IF OffNb = 1 THEN "offset"
                   ELSE IF DriftNb = 1 THEN "drift" ELSE "wait"
          /\ UNCHANGED <<kernel, time, cum_off, cum_drift, estimate, smooth,
                         base, goal>>
       \/ MayTimeOut /\ Gone

(* The ppsd_update of the loop of ppsd_run, and what its counter calls for.
   The last pulse of a run is not counted; main then runs again, or exits. *)
Wait ==
    /\ pc = "wait"
    /\ pps_cnt < PpsNb
    /\ Stamped
    /\ pps_cnt' = pps_cnt + 1
    /\ pc' = IF (pps_cnt + 1) % OffNb = 0 THEN "offset"
             ELSE IF (pps_cnt + 1) % DriftNb = 0 THEN "drift" ELSE "wait"
    /\ UNCHANGED <<kernel, cum_off, cum_drift, estimate, smooth, base, goal>>

RunAgain ==
    /\ pc = "wait"
    /\ pps_cnt = PpsNb
    /\ ~Once
    /\ Stamped
    /\ pps_cnt' = 0
    /\ UNCHANGED <<kernel, pc, cum_off, cum_drift, estimate, smooth, base, goal>>

Exit ==
    /\ pc = "wait"
    /\ (Once /\ pps_cnt = PpsNb) \/ MayTimeOut
    /\ Gone

-----------------------------------------------------------------------------
(* ppsd_adj_drift_ppb *)
AdjDrift(drift) ==
    IF Abs(drift) <= MaxDrift
    THEN /\ AdjFreq(-drift)
         /\ cum_drift' = cum_drift + drift
         /\ freq0' = freq'
    ELSE UNCHANGED <<kernel, cum_drift, freq0>>

(* The offset's turn in ppsd_run: a new estimate, and a first correction of
   the frequency if there has been none. *)
OffsetTurn(drift) ==
    /\ IF freq = 0 /\ MaxDrift > 0
       THEN AdjDrift(drift)
       ELSE UNCHANGED <<kernel, cum_drift, freq0>>
    /\ goal' = cum_off
    /\ pc' = "adjust"
    /\ UNCHANGED <<pps_cnt, time, cum_off, smooth, tick0>>

EvalOffset ==
    /\ pc = "offset"
    /\ off' \in Offsets
    /\ dev' \in Deviations
    /\ \E e \in Noise : OffsetTurn(NaturalDrift + freq + e)

(* The conditions of ppsd_adj_offset_ns, in its order. *)
Bypassed == MinOffset > MaxOffset
Insignificant == -dev < off /\ off < dev

(* NeverJumpsBack: no upper limit. *)
TooFar_Bug == off < -HalfSecond

TooFar == off < -HalfSecond \/ off > HalfSecond
Corrected == ~Bypassed /\ ~Insignificant /\ ~TooFar
Abrupt == MinOffset = MaxOffset \/ off < MinOffset \/ off > MaxOffset

(* LeftoverBounded: any tick will do. *)
UsableTick_Bug == TickUnit < tick /\ tick <= 1000 * TickUnit

(* ppsd_tick_us *)
UsableTick == /\ tick % TickUnit = 0
              /\ TickUnit < tick /\ tick <= 1000 * TickUnit

Leave ==
    /\ pc = "adjust"
    /\ ~Corrected \/ (~Abrupt /\ ~UsableTick)
    /\ pc' = "settled"
    /\ UNCHANGED <<kernel, pps_cnt, time, cum_off, cum_drift, estimate, smooth,
                   base, goal>>

(* adjtimex_set_offset *)
Jump ==
    /\ pc = "adjust"
    /\ Corrected
    /\ Abrupt
    /\ moved' = moved - off
    /\ cum_off' = cum_off + off
    /\ goal' = cum_off + off
    /\ pc' = "settled"
    /\ UNCHANGED <<kernel, pps_cnt, late, behind, cum_drift, estimate, smooth,
                   base>>

(* How an offset is cut: whole seconds at the largest change of the tick,
   then one second at a smaller one, then one second of frequency. *)
(* TypeOK: the sign is not taken off. *)
CoarseSeconds_Bug(unit) == off \div (TickAdjMax * unit)

CoarseSeconds(unit) == Abs(off) \div (TickAdjMax * unit)
Complement(unit) == Abs(off) % (TickAdjMax * unit)

Smooth ==
    /\ pc = "adjust"
    /\ Corrected
    /\ ~Abrupt
    /\ UsableTick
    /\ smooth_min' = Second \div tick
    /\ s' = CoarseSeconds(smooth_min')
    /\ complement' = Complement(smooth_min')
    /\ IF s' > 0
       THEN /\ adj' = Signed(TickAdjMax)
            /\ AdjTick(-adj')
            /\ pc' = "coarse"
       ELSE UNCHANGED <<kernel, adj>> /\ pc' = "rest"
    /\ goal' = cum_off + off
    /\ UNCHANGED <<pps_cnt, time, cum_off, cum_drift, estimate, base>>

(* SlewBounded: an error returns before the tick is back. *)
Coarse_BugEarlyReturn ==
    /\ pc = "coarse"
    /\ cum_off' = cum_off + adj * smooth_min
    /\ s' = s - 1
    /\ \/ Stamped /\ s > 1 /\ UNCHANGED <<kernel, pc, adj>>
       \/ Stamped /\ s = 1 /\ AdjTick(adj) /\ adj' = 0 /\ pc' = "rest"
       \/ TimedOut /\ UNCHANGED kernel /\ adj' = 0 /\ pc' = "rest"
    /\ UNCHANGED <<pps_cnt, cum_drift, estimate, smooth_min, complement, base,
                   goal>>

(* CorrectionEnds: a stray semicolon after the loop's condition. *)
Coarse_BugNoBody == pc = "coarse" /\ UNCHANGED vars

(* WindowsFull: the pulses of a correction are counted. *)
Coarse_BugCounts ==
    /\ pc = "coarse"
    /\ cum_off' = cum_off + adj * smooth_min
    /\ s' = s - 1
    /\ pps_cnt' = IF pps_cnt < PpsNb THEN pps_cnt + 1 ELSE pps_cnt
    /\ \/ Stamped /\ s > 1 /\ UNCHANGED <<kernel, pc, adj>>
       \/ Stamped /\ s = 1 /\ AdjTick(adj) /\ adj' = 0 /\ pc' = "rest"
    /\ UNCHANGED <<cum_drift, estimate, smooth_min, complement, base, goal>>

(* One turn of the coarse loop.  The last one, or an error, undoes the change
   of the tick. *)
Coarse ==
    /\ pc = "coarse"
    /\ cum_off' = cum_off + adj * smooth_min
    /\ s' = s - 1
    /\ \/ /\ Stamped
          /\ s > 1
          /\ UNCHANGED <<kernel, pc, adj>>
       \/ /\ (Stamped /\ s = 1) \/ TimedOut
          /\ AdjTick(adj)
          /\ adj' = 0
          /\ pc' = "rest"
    /\ UNCHANGED <<pps_cnt, cum_drift, estimate, smooth_min, complement, base,
                   goal>>

(* smooth_max_ppb, which the coarse correction has given the offset's sign. *)
SmoothMax ==
    LET max == TickAdjMax * smooth_min
    IN  IF Abs(off) >= max THEN Signed(max) ELSE max

(* The assertions before and after the fine correction: the daemon exits. *)
Abort ==
    /\ \/ pc = "rest" /\ complement >= SmoothMax
       \/ pc = "last" /\ complement >= smooth_min
    /\ Gone

StartFine ==
    /\ pc = "rest"
    /\ complement < SmoothMax
    /\ complement > smooth_min
    /\ adj' = Signed(complement \div smooth_min)
    /\ complement' = complement % smooth_min
    /\ AdjTick(-adj')
    /\ cum_off' = cum_off + adj' * smooth_min
    /\ pc' = "fine"
    /\ UNCHANGED <<pps_cnt, time, cum_drift, estimate, smooth_min, s, base, goal>>

SkipFine ==
    /\ pc = "rest"
    /\ complement < SmoothMax
    /\ complement <= smooth_min
    /\ pc' = "last"
    /\ UNCHANGED <<kernel, pps_cnt, time, cum_off, cum_drift, estimate, smooth,
                   base, goal>>

(* TickRestored: an error returns before the tick is back. *)
Fine_Bug ==
    /\ pc = "fine"
    /\ \/ Stamped /\ AdjTick(adj)
       \/ TimedOut /\ UNCHANGED kernel
    /\ adj' = 0
    /\ pc' = "last"
    /\ UNCHANGED <<pps_cnt, cum_off, cum_drift, estimate, smooth_min, s,
                   complement, base, goal>>

(* The result of the nested ppsd_update is ignored. *)
Fine ==
    /\ pc = "fine"
    /\ Stamped \/ TimedOut
    /\ AdjTick(adj)
    /\ adj' = 0
    /\ pc' = "last"
    /\ UNCHANGED <<pps_cnt, cum_off, cum_drift, estimate, smooth_min, s,
                   complement, base, goal>>

StartTrim ==
    /\ pc = "last"
    /\ complement < smooth_min
    /\ complement > dev
    /\ adj' = Signed(complement)
    /\ AdjFreq(-adj')
    /\ cum_off' = cum_off + adj'
    /\ pc' = "trim"
    /\ UNCHANGED <<pps_cnt, time, cum_drift, estimate, smooth_min, s,
                   complement, base, goal>>

SkipTrim ==
    /\ pc = "last"
    /\ complement < smooth_min
    /\ complement <= dev
    /\ pc' = "settled"
    /\ UNCHANGED <<kernel, pps_cnt, time, cum_off, cum_drift, estimate, smooth,
                   base, goal>>

Trim ==
    /\ pc = "trim"
    /\ Stamped \/ TimedOut
    /\ AdjFreq(adj)
    /\ adj' = 0
    /\ pc' = "settled"
    /\ UNCHANGED <<pps_cnt, cum_off, cum_drift, estimate, smooth_min, s,
                   complement, base, goal>>

(* ppsd_adj_offset_ns has returned and its locals are forgotten. *)
Settle ==
    /\ pc = "settled"
    /\ off' = 0 /\ dev' = 0
    /\ smooth_min' = 0 /\ s' = 0 /\ complement' = 0 /\ adj' = 0
    /\ goal' = 0
    /\ pc' = IF pps_cnt % DriftNb = 0 THEN "drift" ELSE "wait"
    /\ UNCHANGED <<kernel, pps_cnt, time, cum_off, cum_drift, base>>

(* DriftUnbiased: the cumulated offset outlives the window. *)
EvalDriftAs_Bug(drift) ==
    /\ pc = "drift"
    /\ AdjDrift(drift)
    /\ moved' = -(behind * Second)
    /\ pc' = "wait"
    /\ UNCHANGED <<pps_cnt, late, behind, cum_off, estimate, smooth, tick0, goal>>

(* The drift's turn in ppsd_run. *)
EvalDriftAs(drift) ==
    /\ pc = "drift"
    /\ AdjDrift(drift)
    /\ cum_off' = 0
    /\ moved' = -(behind * Second)
    /\ pc' = "wait"
    /\ UNCHANGED <<pps_cnt, late, behind, estimate, smooth, tick0, goal>>

EvalDrift == \E e \in Noise : EvalDriftAs(NaturalDrift + freq + e)

(* The process is killed, SIGTERM included: no signal is handled. *)
Crash ==
    /\ MayCrash
    /\ pc # "down"
    /\ Gone

Steps ==
    \/ First \/ Wait \/ RunAgain \/ Exit
    \/ EvalOffset \/ Leave \/ Jump \/ Smooth \/ Coarse \/ Abort
    \/ StartFine \/ SkipFine \/ Fine \/ StartTrim \/ SkipTrim \/ Trim
    \/ Settle \/ EvalDrift

Next == Start \/ Steps \/ Retry \/ Crash

Spec == Init /\ [][Next]_vars

(* The daemon runs whenever it can, and a wait ends: by a pulse, or by its
   timeout. *)
FairSpec == Spec /\ WF_vars(Steps)
-----------------------------------------------------------------------------
(* Properties. *)

TypeOK ==
    /\ tick \in MinTick .. MaxTick /\ tick0 \in MinTick .. MaxTick
    /\ freq \in -MaxFreq .. MaxFreq /\ freq0 \in -MaxFreq .. MaxFreq
    /\ pc \in {"down", "first", "wait", "offset", "adjust", "coarse", "rest",
               "fine", "last", "trim", "settled", "drift"}
    /\ pps_cnt \in 0 .. PpsNb
    /\ late \in {0, 1}
    /\ behind \in 0 .. MaxBehind
    /\ cum_off \in Int /\ cum_drift \in Int
    /\ off \in Offsets \cup {0}
    /\ dev \in Deviations \cup {0}
    /\ smooth_min \in Nat
    /\ s \in Nat
    /\ complement \in Nat
    /\ adj \in Int
    /\ moved \in Int
    /\ goal \in Int

(* ppsd "temporary adjust the clock frequency" (README.md:76): the tick has
   its value at boot whenever no offset is being corrected, whichever pulses
   were lost during the corrections (ppsd.c:386-412). *)
TickRestored == pc \notin {"coarse", "fine"} => tick = BootTick

(* The same of the frequency: after an offset correction it is what the last
   drift correction set (ppsd.c:421-425). *)
FreqRestored == pc # "trim" => freq = freq0

(* The clock's rate never changes by more than "smooth_max_ppb = +/-1%"
   (ppsd.c:364), and tick and frequency are never both changed. *)
SlewBounded ==
    /\ Abs((tick - tick0) * PerTick + freq - freq0) <= TickAdjMax * PerTick
    /\ tick = tick0 \/ freq = freq0

(* However often the daemon is killed and started again, the tick is never
   further from its value at boot than one correction takes it: a daemon that
   finds a tick another has left changed does not touch it (ppsd.c:299). *)
LeftoverBounded == Abs(tick - BootTick) <= TickAdjMax

(* "correct offset and increment cumulator for drift eval" (ppsd.c:486): the
   offset put in the drift's window (ppsd.c:246) is that of a clock whose
   offset is never corrected.  A measured offset holds what the corrections
   moved the clock by and the whole seconds timeref is behind; cum_off_ns
   compensates both.  In "fine" and "trim" the second has yet to pass.  A
   frequency less than one trim from the kernel's limit may be clamped. *)
DriftUnbiased ==
    pc \notin {"fine", "trim"} /\ Abs(freq0) + PerTick <= MaxFreq
       => moved + cum_off + behind * Second = 0

(* A correction that was begun is whole: however the offset was cut in
   seconds of tick and frequency, what remains is within the deviation. *)
WholeCorrection == pc = "settled" => Abs(goal - cum_off) <= dev

(* "jump in the future still doable", "never jump in the past", with a maximum
   of 500ms (README.md:82-86). *)
NeverJumpsBack ==
    [][pc = "adjust" /\ pc' # "down" => moved' >= moved]_vars

(* ppsd_adj_offset_ns returns, or the daemon exits: a correction takes a
   finite number of pulses, lost ones included. *)
CorrectionEnds == pc = "adjust" ~> pc \in {"wait", "drift", "down"}

(* A daemon that starts evaluates the drift, whatever -n and -N, or exits. *)
DriftEvaluated == pc = "first" ~> pc \in {"drift", "down"}

(* The assertion of ppsd.c:397, "complement_ns < smooth_max_ppb". *)
RestAssertion == pc = "rest" => complement < SmoothMax

(* timeref is "the 'absolute real' timestamp of the last PPS" (ppsd.h:32). *)
TimerefIsLastPulse == pc = "wait" /\ late = 0 => behind = 0
=============================================================================
