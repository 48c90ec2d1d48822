----------------------------- MODULE PpsdProofs -----------------------------
(***************************************************************************)
(* Proofs about Ppsd: whatever the estimates and the pulses lost, and      *)
(* wherever the daemon is killed, what it does to the tick is bounded, and *)
(* undone unless it is killed.                                             *)
(***************************************************************************)
EXTENDS Ppsd, TLAPS

-----------------------------------------------------------------------------
(* Division and remainders. *)

LEMMA DivIdentity ==
    ASSUME NEW a \in Int, NEW b \in Int, b > 0
    PROVE  a = (a \div b) * b + (a % b)
BY SMTT(20)

LEMMA DivMod ==
    ASSUME NEW a \in Nat, NEW b \in Nat \ {0}
    PROVE  /\ a \div b \in Nat
           /\ a % b \in 0 .. b - 1
           /\ a = (a \div b) * b + (a % b)
<1>1. a \div b \in Nat /\ a % b \in 0 .. b - 1
  OBVIOUS
<1>2. a \in Int /\ b \in Int /\ b > 0
  OBVIOUS
<1>3. a = (a \div b) * b + (a % b)
  BY <1>2, DivIdentity
<1> QED
  BY <1>1, <1>3

LEMMA DivBelow ==
    ASSUME NEW a \in Nat, NEW b \in Nat \ {0}, NEW c \in Nat, a < c * b
    PROVE  a \div b < c
<1> DEFINE q == a \div b
<1>1. q \in Nat /\ q * b <= a
  BY DivMod
<1> HIDE DEF q
<1>2. ASSUME q >= c PROVE FALSE
  <2>1. q - c \in Nat /\ (q - c) * b >= 0 /\ (q - c) * b = q * b - c * b
    BY <1>1, <1>2
  <2>2. q * b \in Int /\ c * b \in Int
    BY <1>1
  <2> QED
    BY <1>1, <2>1, <2>2
<1>3. q < c
  BY <1>1, <1>2
<1> QED
  BY <1>3 DEF q

(* Two multiples of u closer than u are equal. *)
LEMMA NearMultiples ==
    ASSUME NEW a \in Nat, NEW b \in Nat, NEW u \in Nat \ {0},
           a % u = 0, b % u = 0, a - b < u, b - a < u
    PROVE  a = b
<1>1. PICK q \in Nat : a = q * u
  <2>1. a \in Int /\ u \in Int /\ u > 0 /\ a \div u \in Nat
    OBVIOUS
  <2>2. a = (a \div u) * u + (a % u)
    BY <2>1, DivIdentity, Zenon
  <2>3. a = (a \div u) * u
    BY <2>1, <2>2
  <2> QED
    BY <2>1, <2>3
<1>2. PICK r \in Nat : b = r * u
  <2>1. b \in Int /\ u \in Int /\ u > 0 /\ b \div u \in Nat
    OBVIOUS
  <2>2. b = (b \div u) * u + (b % u)
    BY <2>1, DivIdentity, Zenon
  <2>3. b = (b \div u) * u
    BY <2>1, <2>2
  <2> QED
    BY <2>1, <2>3
<1>3. (q - r) * u = q * u - r * u /\ (r - q) * u = r * u - q * u
  BY <1>1, <1>2
<1>4. ASSUME NEW n \in Int, n * u < u PROVE n < 1
  BY <1>4
<1>5. q - r < 1 /\ r - q < 1
  BY <1>1, <1>2, <1>3, <1>4
<1> QED
  BY <1>1, <1>2, <1>5

-----------------------------------------------------------------------------
(* The constants, as the proofs use them. *)
LEMMA Constants ==
    /\ BootTick \in Nat /\ MinTick \in Nat /\ MaxTick \in Nat
    /\ MaxFreq \in Nat /\ Second \in Nat
    /\ 0 < BootTick /\ 0 < MinTick /\ 0 < MaxFreq
    /\ TickUnit \in Nat \ {0} /\ TickAdjMax \in Nat /\ 0 < TickAdjMax
    /\ HalfSecond \in Nat
    /\ OffNb \in Nat /\ 0 < OffNb /\ DriftNb \in Nat /\ 0 < DriftNb
    /\ MinTick <= BootTick - TickAdjMax /\ BootTick + TickAdjMax <= MaxTick
    /\ BootTick % TickUnit = 0 /\ TickAdjMax < TickUnit
    /\ PerTick \in Nat /\ 0 < PerTick
    /\ MinOffset \in Int /\ MaxOffset \in Int /\ NaturalDrift \in Int
    /\ Noise \subseteq Int /\ Offsets \subseteq Int
    /\ InitFreqs \subseteq -MaxFreq .. MaxFreq
    /\ MaxDrift \in Nat /\ MaxBehind \in Nat /\ Deviations \subseteq Nat
<1>1. /\ {BootTick, MinTick, MaxTick, MaxFreq, Second} \subseteq Nat \ {0}
  BY KernelAssumption
<1>2. {TickUnit, TickAdjMax, HalfSecond, OffNb, DriftNb} \subseteq Nat \ {0}
  BY DaemonAssumption
<1>3. {MinOffset, MaxOffset, NaturalDrift} \cup Noise \cup Offsets \subseteq Int
  BY DaemonAssumption
<1>4. {MaxDrift, MaxBehind} \cup Deviations \subseteq Nat
  BY DaemonAssumption
<1>5. /\ BootTick \in Nat \ {0} /\ MinTick \in Nat \ {0} /\ MaxTick \in Nat \ {0}
      /\ MaxFreq \in Nat \ {0} /\ Second \in Nat \ {0}
  BY <1>1
<1>6. /\ TickUnit \in Nat \ {0} /\ TickAdjMax \in Nat \ {0}
      /\ HalfSecond \in Nat \ {0} /\ OffNb \in Nat \ {0} /\ DriftNb \in Nat \ {0}
  BY <1>2
<1>7. /\ MinOffset \in Int /\ MaxOffset \in Int /\ NaturalDrift \in Int
      /\ Noise \subseteq Int /\ Offsets \subseteq Int
  BY <1>3
<1>8. MaxDrift \in Nat /\ MaxBehind \in Nat /\ Deviations \subseteq Nat
  BY <1>4
<1>9. /\ MinTick <= BootTick - TickAdjMax /\ BootTick + TickAdjMax <= MaxTick
      /\ BootTick % TickUnit = 0 /\ TickAdjMax < TickUnit
      /\ PerTick \in Nat \ {0}
      /\ InitFreqs \subseteq -MaxFreq .. MaxFreq
  BY DaemonAssumption
<1> QED
  BY <1>5, <1>6, <1>7, <1>8, <1>9

-----------------------------------------------------------------------------
(* The tick. *)

(* Between two corrections the tick is what the process found; a correction
   begins only when that is the value at boot, and knows what it has to undo.
   A process that was killed is the only way to find another value. *)
Steering ==
    /\ tick - BootTick \in -TickAdjMax .. TickAdjMax
    /\ pc \in {"coarse", "fine"} => /\ tick = BootTick - adj
                                   /\ adj \in -TickAdjMax .. TickAdjMax
    /\ pc \notin {"coarse", "fine", "down"} => tick = tick0
    /\ ~MayCrash => tick0 = BootTick /\ (pc = "down" => tick = BootTick)

(* How the offset was cut: what is left after the coarse seconds is less than
   one of them, and what is left after the fine one less than a unit of tick. *)
Cut ==
    /\ pc \in {"coarse", "rest", "fine", "last", "trim"} =>
            smooth_min = PerTick /\ tick0 = BootTick
    /\ pc = "coarse" => s > 0
    /\ pc = "trim" => adj \in -PerTick .. PerTick

IInv == TypeOK /\ Steering /\ Cut

(* The types, unfolded for the provers, with what does not depend on pc. *)
LEMMA Types ==
    ASSUME TypeOK
    PROVE  /\ tick \in Int /\ 0 < tick /\ tick0 \in Int /\ freq \in Int /\ freq0 \in Int
           /\ PpsNb \in Nat /\ OffNb <= PpsNb /\ DriftNb <= PpsNb
           /\ off \in Int /\ dev \in Nat
           /\ Abs(off) \in Nat
           /\ smooth_min \in Nat /\ s \in Nat /\ complement \in Nat
           /\ adj \in Int /\ moved \in Int /\ cum_off \in Int
           /\ cum_drift \in Int /\ goal \in Int
           /\ late \in Int /\ behind \in Nat
<1>1. off \in Int /\ dev \in Nat
  BY Constants DEF TypeOK
<1>2. tick \in Int /\ 0 < tick /\ tick0 \in Int /\ freq \in Int /\ freq0 \in Int
  BY Constants DEF TypeOK
<1>3. PpsNb \in Nat /\ OffNb <= PpsNb /\ DriftNb <= PpsNb
  BY Constants DEF PpsNb
<1> QED
  BY <1>1, <1>2, <1>3, Constants DEF TypeOK, Abs

LEMMA SignedType ==
    ASSUME NEW n \in Nat, off \in Int
    PROVE  Signed(n) \in -n .. n
BY DEF Signed

(* A wait, however it ends, changes these three and nothing else. *)
LEMMA Waits ==
    ASSUME TypeOK, Stamped \/ TimedOut \/ Lost
    PROVE  /\ moved' \in Int
           /\ late' \in {0, 1}
           /\ behind' \in 0 .. MaxBehind
<1>1. /\ tick \in Int /\ tick0 \in Int /\ freq \in Int /\ freq0 \in Int
      /\ moved \in Int /\ late \in {0, 1} /\ behind \in 0 .. MaxBehind
      /\ PerTick \in Int /\ MaxBehind \in Nat
  BY Types, Constants DEF TypeOK
<1>2. ASSUME NEW h \in Int, Elapse(h) PROVE moved' \in Int
  <2>1. (tick - tick0) * PerTick + freq - freq0 \in Int
    BY <1>1
  <2>2. ASSUME NEW r \in Int PROVE moved + (h * r) \div 2 \in Int
    BY <1>1
  <2> QED
    BY <1>2, <2>1, <2>2 DEF Elapse
<1>3. CASE Stamped
  <2>1. moved' \in Int
    BY <1>1, <1>2, <1>3 DEF Stamped
  <2> QED
    BY <1>1, <1>3, <2>1 DEF Stamped
<1>4. CASE Lost
  <2>1. moved' \in Int
    BY <1>2, <1>4 DEF Lost
  <2> QED
    BY <1>1, <1>4, <2>1 DEF Lost
<1> QED
  BY <1>3, <1>4 DEF TimedOut

LEMMA ClampedType ==
    ASSUME NEW f \in Int
    PROVE  Clamped(f) \in -MaxFreq .. MaxFreq
<1> QED
  BY Constants DEF Clamped

LEMMA InvInit == Init => IInv
<1> SUFFICES ASSUME Init PROVE IInv
  OBVIOUS
<1> USE Constants
<1>1. TypeOK
  <2>1. PpsNb \in Nat
    BY DEF PpsNb
  <2> QED
    BY <2>1 DEF Init, TypeOK
<1>2. Steering /\ Cut
  BY DEF Init, Steering, Cut
<1> QED
  BY <1>1, <1>2 DEF IInv

(* The process ends: the kernel keeps its settings. *)
LEMMA InvGone ==
    ASSUME IInv, Gone, MayCrash \/ pc \notin {"coarse", "fine"}
    PROVE  IInv'
<1>1. TypeOK'
  <2>1. PpsNb \in Nat
    BY Types DEF IInv
  <2> QED
    BY <2>1, Constants DEF Gone, IInv, TypeOK, kernel, base
<1>2. Steering'
  BY DEF Gone, IInv, Steering, kernel, base
<1>3. Cut'
  BY DEF Gone, Cut
<1> QED
  BY <1>1, <1>2, <1>3 DEF IInv

(* From one process to the next, and from one pulse to the next. *)
LEMMA InvPulses ==
    ASSUME IInv, Start \/ First \/ Wait \/ RunAgain \/ Exit \/ Retry
    PROVE  IInv'
<1> USE DEF kernel, time, estimate, smooth, base
<1>1. PpsNb \in Nat /\ OffNb <= PpsNb /\ PpsNb' = PpsNb /\ 1 <= PpsNb
  BY Types, Constants DEF IInv, PpsNb
<1>2. CASE Start
  <2>1. TypeOK'
    BY <1>1, <1>2 DEF Start, IInv, TypeOK
  <2>2. Steering' /\ Cut'
    BY <1>2 DEF Start, IInv, Steering, Cut
  <2> QED
    BY <2>1, <2>2 DEF IInv
<1>3. CASE First
  <2>1. CASE pc = "first" /\ MayTimeOut /\ Gone
    BY <2>1, InvGone
  <2>2. CASE ~(MayTimeOut /\ Gone)
    <3>1. TypeOK'
      BY <1>1, <1>3, <2>2, Constants DEF First, IInv, TypeOK
    <3>2. Steering' /\ Cut'
      BY <1>3, <2>2 DEF First, IInv, Steering, Cut
    <3> QED
      BY <3>1, <3>2 DEF IInv
  <2> QED
    BY <1>3, <2>1, <2>2 DEF First
<1>4. CASE Wait \/ RunAgain
  <2>1. moved' \in Int /\ late' \in {0, 1} /\ behind' \in 0 .. MaxBehind
    BY <1>4, Waits DEF Wait, RunAgain, IInv
  <2>2. pps_cnt' \in 0 .. PpsNb
    BY <1>1, <1>4 DEF Wait, RunAgain, IInv, TypeOK
  <2>3. /\ pc = "wait" /\ pc' \in {"wait", "offset", "drift"}
        /\ UNCHANGED <<kernel, cum_off, cum_drift, estimate, smooth, base, goal>>
    BY <1>4 DEF Wait, RunAgain
  <2>4. TypeOK'
    BY <1>1, <2>1, <2>2, <2>3 DEF IInv, TypeOK
  <2>5. Steering' /\ Cut'
    BY <2>3 DEF IInv, Steering, Cut
  <2> QED
    BY <2>4, <2>5 DEF IInv
<1>5. CASE Exit
  BY <1>5, InvGone DEF Exit
<1>6. CASE Retry
  <2>1. moved' \in Int /\ late' \in {0, 1} /\ behind' \in 0 .. MaxBehind
    BY <1>6, Waits DEF Retry, IInv
  <2>2. TypeOK'
    BY <1>1, <1>6, <2>1 DEF Retry, IInv, TypeOK
  <2>3. Steering' /\ Cut'
    BY <1>6 DEF Retry, IInv, Steering, Cut
  <2> QED
    BY <2>2, <2>3 DEF IInv
<1> QED
  BY <1>2, <1>3, <1>4, <1>5, <1>6

(* A drift correction sets the frequency only. *)
LEMMA DriftType ==
    ASSUME IInv, NEW d \in Int, AdjDrift(d)
    PROVE  /\ UNCHANGED tick
           /\ freq' \in -MaxFreq .. MaxFreq /\ freq0' \in -MaxFreq .. MaxFreq
           /\ cum_drift' \in Int
<1>1. freq + (-d) \in Int /\ cum_drift \in Int
  BY Types DEF IInv
<1>2. CASE Abs(d) <= MaxDrift
  BY <1>1, <1>2, ClampedType DEF AdjDrift, AdjFreq
<1>3. CASE ~(Abs(d) <= MaxDrift)
  BY <1>1, <1>3 DEF AdjDrift, kernel, IInv, TypeOK
<1> QED
  BY <1>2, <1>3

LEMMA InvEvaluate ==
    ASSUME IInv, EvalOffset \/ EvalDrift
    PROVE  IInv'
<1> USE DEF kernel, time, estimate, smooth, base
<1>1. PpsNb \in Nat /\ PpsNb' = PpsNb /\ \A e \in Noise : NaturalDrift + freq + e \in Int
  BY Types, Constants DEF IInv, PpsNb
<1>2. /\ UNCHANGED tick
      /\ freq' \in -MaxFreq .. MaxFreq /\ freq0' \in -MaxFreq .. MaxFreq
      /\ cum_drift' \in Int
  <2>1. CASE \E e \in Noise : AdjDrift(NaturalDrift + freq + e)
    BY <1>1, <2>1, DriftType
  <2>2. CASE UNCHANGED <<kernel, cum_drift, freq0>>
    BY <2>2 DEF IInv, TypeOK
  <2> QED
    BY <2>1, <2>2 DEF EvalOffset, OffsetTurn, EvalDrift, EvalDriftAs
<1>3. CASE EvalOffset
  <2>1. TypeOK'
    BY <1>1, <1>2, <1>3 DEF EvalOffset, OffsetTurn, IInv, TypeOK
  <2>2. Steering' /\ Cut'
    BY <1>2, <1>3 DEF EvalOffset, OffsetTurn, IInv, Steering, Cut
  <2> QED
    BY <2>1, <2>2 DEF IInv
<1>4. CASE EvalDrift
  <2>1. moved' \in Int
    BY <1>4, Types, Constants DEF EvalDrift, EvalDriftAs, IInv
  <2>2. TypeOK'
    BY <1>1, <1>2, <1>4, <2>1 DEF EvalDrift, EvalDriftAs, IInv, TypeOK
  <2>3. Steering' /\ Cut'
    BY <1>2, <1>4 DEF EvalDrift, EvalDriftAs, IInv, Steering, Cut
  <2> QED
    BY <2>2, <2>3 DEF IInv
<1> QED
  BY <1>3, <1>4

(* Nothing to correct, a jump, and the end of a correction. *)
LEMMA InvSimple ==
    ASSUME IInv, Leave \/ Jump \/ SkipFine \/ SkipTrim \/ Settle
    PROVE  IInv'
<1> USE DEF kernel, time, estimate, smooth, base
<1>1. PpsNb' = PpsNb
  BY DEF PpsNb
<1>2. CASE Leave \/ SkipFine \/ SkipTrim
  <2>1. TypeOK'
    BY <1>1, <1>2 DEF Leave, SkipFine, SkipTrim, IInv, TypeOK
  <2>2. Steering' /\ Cut'
    BY <1>2 DEF Leave, SkipFine, SkipTrim, IInv, Steering, Cut
  <2> QED
    BY <2>1, <2>2 DEF IInv
<1>3. CASE Jump
  <2>1. moved' \in Int /\ cum_off' \in Int /\ goal' \in Int
    BY <1>3, Types DEF Jump, IInv
  <2>2. TypeOK'
    BY <1>1, <1>3, <2>1 DEF Jump, IInv, TypeOK
  <2>3. Steering' /\ Cut'
    BY <1>3 DEF Jump, IInv, Steering, Cut
  <2> QED
    BY <2>2, <2>3 DEF IInv
<1>4. CASE Settle
  <2>1. TypeOK'
    BY <1>1, <1>4 DEF Settle, IInv, TypeOK
  <2>2. Steering' /\ Cut'
    BY <1>4 DEF Settle, IInv, Steering, Cut
  <2> QED
    BY <2>1, <2>2 DEF IInv
<1> QED
  BY <1>2, <1>3, <1>4

(* A usable tick is the one at boot: the next multiple is out of reach. *)
LEMMA UsableIsBoot ==
    ASSUME IInv, UsableTick
    PROVE  tick = BootTick
<1>1. /\ tick \in Nat /\ tick % TickUnit = 0
      /\ tick - BootTick < TickUnit /\ BootTick - tick < TickUnit
  BY Types, Constants DEF IInv, Steering, UsableTick
<1> QED
  BY <1>1, Constants, NearMultiples

LEMMA InvSmooth ==
    ASSUME IInv, Smooth
    PROVE  IInv'
<1> USE DEF kernel, time, estimate, smooth, base
<1>1. PpsNb' = PpsNb
  BY DEF PpsNb
<1>2. /\ tick = BootTick /\ tick0 = BootTick /\ pc = "adjust"
      /\ smooth_min' = PerTick
  BY UsableIsBoot DEF Smooth, PerTick, IInv, Steering
<1>3. /\ s' \in Nat /\ complement' \in Nat
  <2>1. TickAdjMax * PerTick \in Nat \ {0} /\ Abs(off) \in Nat
    BY Constants, Types DEF IInv
  <2>2. \A b \in Nat \ {0} : Abs(off) \div b \in Nat /\ Abs(off) % b \in Nat
    BY <2>1
  <2> QED
    BY <1>2, <2>1, <2>2 DEF Smooth, CoarseSeconds, Complement
<1>4. goal' \in Int
  BY Types DEF Smooth, IInv
<1>5. CASE s' > 0
  <2>1. /\ adj' = Signed(TickAdjMax) /\ AdjTick(-adj') /\ pc' = "coarse"
    BY <1>5 DEF Smooth
  <2>2. adj' \in -TickAdjMax .. TickAdjMax
    BY <2>1, SignedType, Types, Constants DEF IInv
  <2>3. tick' = BootTick - adj' /\ UNCHANGED freq
    BY <1>2, <2>1, <2>2, Constants DEF AdjTick
  <2>4. TypeOK'
    BY <1>1, <1>2, <1>3, <1>4, <2>1, <2>2, <2>3, Constants DEF Smooth, IInv, TypeOK
  <2>5. Steering' /\ Cut'
    BY <1>2, <1>5, <2>1, <2>2, <2>3, Constants DEF Smooth, IInv, Steering, Cut
  <2> QED
    BY <2>4, <2>5 DEF IInv
<1>6. CASE ~(s' > 0)
  <2>1. UNCHANGED <<kernel, adj>> /\ pc' = "rest"
    BY <1>6 DEF Smooth
  <2>2. TypeOK'
    BY <1>1, <1>2, <1>3, <1>4, <2>1, Constants DEF Smooth, IInv, TypeOK
  <2>3. Steering' /\ Cut'
    BY <1>2, <2>1 DEF Smooth, IInv, Steering, Cut
  <2> QED
    BY <2>2, <2>3 DEF IInv
<1> QED
  BY <1>5, <1>6

(* The tick goes back to its value at boot. *)
LEMMA Undone ==
    ASSUME IInv, pc \in {"coarse", "fine"}, AdjTick(adj)
    PROVE  tick' = BootTick /\ UNCHANGED freq
<1>1. tick = BootTick - adj /\ adj \in -TickAdjMax .. TickAdjMax
  BY DEF IInv, Steering
<1> QED
  BY <1>1, Constants DEF AdjTick

LEMMA InvCoarse ==
    ASSUME IInv, Coarse
    PROVE  IInv'
<1> USE DEF kernel, time, estimate, smooth, base
<1>1. /\ PpsNb' = PpsNb /\ pc = "coarse" /\ s > 0
      /\ smooth_min = PerTick /\ tick0 = BootTick
      /\ adj \in -TickAdjMax .. TickAdjMax
  BY DEF Coarse, PpsNb, IInv, Cut, Steering
<1>2. /\ moved' \in Int /\ late' \in {0, 1} /\ behind' \in 0 .. MaxBehind
  BY Waits DEF Coarse, IInv
<1>3. cum_off' \in Int /\ s' \in Nat
  BY <1>1, Types DEF Coarse, IInv
<1>4. CASE s > 1 /\ UNCHANGED <<kernel, pc, adj>>
  <2>1. TypeOK'
    BY <1>1, <1>2, <1>3, <1>4 DEF Coarse, IInv, TypeOK
  <2>2. Steering' /\ Cut'
    BY <1>1, <1>4, Types DEF Coarse, IInv, Steering, Cut
  <2> QED
    BY <2>1, <2>2 DEF IInv
<1>5. CASE AdjTick(adj) /\ adj' = 0 /\ pc' = "rest"
  <2>1. tick' = BootTick /\ UNCHANGED freq
    BY <1>1, <1>5, Undone
  <2>2. TypeOK'
    BY <1>1, <1>2, <1>3, <1>5, <2>1, Constants DEF Coarse, IInv, TypeOK
  <2>3. Steering' /\ Cut'
    BY <1>1, <1>5, <2>1, Constants DEF Coarse, IInv, Steering, Cut
  <2> QED
    BY <2>2, <2>3 DEF IInv
<1> QED
  BY <1>4, <1>5 DEF Coarse

(* The fine correction changes the tick by less than the coarse one. *)
LEMMA InvStartFine ==
    ASSUME IInv, StartFine
    PROVE  IInv'
<1> USE DEF kernel, time, estimate, smooth, base
<1>1. /\ PpsNb' = PpsNb /\ pc = "rest" /\ smooth_min = PerTick
      /\ tick = BootTick /\ tick0 = BootTick
  BY DEF StartFine, PpsNb, IInv, Cut, Steering
<1>2. complement \in Nat /\ PerTick \in Nat \ {0} /\ TickAdjMax * PerTick \in Nat
  BY Types, Constants DEF IInv
<1>3. complement < TickAdjMax * PerTick
  <2>1. SmoothMax <= TickAdjMax * PerTick
    <3>1. Signed(TickAdjMax * PerTick) <= TickAdjMax * PerTick
      BY <1>2 DEF Signed
    <3> QED
      BY <1>1, <1>2, <3>1 DEF SmoothMax
  <2>2. SmoothMax \in Int
    <3>1. Signed(TickAdjMax * PerTick) \in Int
      BY <1>2 DEF Signed
    <3> QED
      BY <1>1, <1>2, <3>1 DEF SmoothMax
  <2> QED
    BY <1>2, <2>1, <2>2 DEF StartFine
<1>4. complement \div PerTick \in Nat /\ complement \div PerTick < TickAdjMax
  BY <1>2, <1>3, Constants, DivMod, DivBelow
<1>5. adj' \in -TickAdjMax .. TickAdjMax
  <2>1. adj' = Signed(complement \div PerTick)
    BY <1>1 DEF StartFine
  <2>2. off \in Int
    BY Types DEF IInv
  <2>3. \A n \in Nat : n < TickAdjMax => Signed(n) \in -TickAdjMax .. TickAdjMax
    BY <2>2, Constants DEF Signed
  <2> QED
    BY <1>4, <2>1, <2>3
<1>6. tick' = BootTick - adj' /\ UNCHANGED freq
  BY <1>1, <1>5, Constants DEF StartFine, AdjTick
<1>7. complement' \in Nat /\ cum_off' \in Int
  <2>1. complement' = complement % PerTick
    BY <1>1 DEF StartFine
  <2>2. \A n \in 0 .. PerTick - 1 : n \in Nat
    BY <1>2
  <2>3. adj' * PerTick \in Int
    BY <1>5, <1>2, Constants
  <2> QED
    BY <1>1, <1>2, <2>1, <2>2, <2>3, DivMod, Types DEF StartFine, IInv
<1>8. TypeOK'
  BY <1>1, <1>5, <1>6, <1>7, Constants DEF StartFine, IInv, TypeOK
<1>9. Steering' /\ Cut'
  BY <1>1, <1>5, <1>6, Constants DEF StartFine, IInv, Steering, Cut
<1> QED
  BY <1>8, <1>9 DEF IInv

LEMMA InvFine ==
    ASSUME IInv, Fine
    PROVE  IInv'
<1> USE DEF kernel, time, estimate, smooth, base
<1>1. /\ PpsNb' = PpsNb /\ pc = "fine"
      /\ smooth_min = PerTick /\ tick0 = BootTick
  BY DEF Fine, PpsNb, IInv, Cut
<1>2. /\ moved' \in Int /\ late' \in {0, 1} /\ behind' \in 0 .. MaxBehind
  BY Waits DEF Fine, IInv
<1>3. tick' = BootTick /\ UNCHANGED freq
  BY <1>1, Undone DEF Fine
<1>4. TypeOK'
  BY <1>1, <1>2, <1>3, Constants DEF Fine, IInv, TypeOK
<1>5. Steering' /\ Cut'
  BY <1>1, <1>3, Constants DEF Fine, IInv, Steering, Cut
<1> QED
  BY <1>4, <1>5 DEF IInv

(* The last second changes the frequency, and leaves the tick alone. *)
LEMMA InvTrim ==
    ASSUME IInv, StartTrim \/ Trim
    PROVE  IInv'
<1> USE DEF kernel, time, estimate, smooth, base
<1>1. /\ PpsNb' = PpsNb /\ pc \in {"last", "trim"}
      /\ smooth_min = PerTick /\ tick0 = BootTick /\ tick = BootTick
  BY DEF StartTrim, Trim, PpsNb, IInv, Cut, Steering
<1>2. UNCHANGED tick /\ freq' \in -MaxFreq .. MaxFreq
  <2>1. ASSUME NEW a \in Int, AdjFreq(a)
        PROVE  UNCHANGED tick /\ freq' \in -MaxFreq .. MaxFreq
    <3>1. freq + a \in Int
      BY Types DEF IInv
    <3> QED
      BY <2>1, <3>1, ClampedType DEF AdjFreq
  <2>2. CASE StartTrim
    <3>1. Signed(complement) \in Int
      BY Types DEF IInv, Signed
    <3> QED
      BY <2>1, <2>2, <3>1 DEF StartTrim
  <2>3. CASE Trim
    BY <2>1, <2>3, Types DEF Trim, IInv
  <2> QED
    BY <2>2, <2>3
<1>3. CASE StartTrim
  <2>1. /\ complement \in Nat /\ complement < PerTick
        /\ adj' = Signed(complement) /\ off \in Int
    BY <1>1, <1>3, Types DEF StartTrim, IInv
  <2>2. adj' \in -PerTick .. PerTick
    BY <2>1, Constants DEF Signed
  <2>3. cum_off' \in Int /\ adj' \in Int
    BY <1>3, <2>2, Types, Constants DEF StartTrim, IInv
  <2>4. TypeOK'
    BY <1>1, <1>2, <1>3, <2>3 DEF StartTrim, IInv, TypeOK
  <2>5. Steering' /\ Cut'
    BY <1>1, <1>2, <1>3, <2>2 DEF StartTrim, IInv, Steering, Cut
  <2> QED
    BY <2>4, <2>5 DEF IInv
<1>4. CASE Trim
  <2>1. /\ moved' \in Int /\ late' \in {0, 1} /\ behind' \in 0 .. MaxBehind
    BY <1>4, Waits DEF Trim, IInv
  <2>2. TypeOK'
    BY <1>1, <1>2, <1>4, <2>1 DEF Trim, IInv, TypeOK
  <2>3. Steering' /\ Cut'
    BY <1>1, <1>2, <1>4 DEF Trim, IInv, Steering, Cut
  <2> QED
    BY <2>2, <2>3 DEF IInv
<1> QED
  BY <1>3, <1>4

LEMMA InvStep == IInv /\ [Next]_vars => IInv'
<1> SUFFICES ASSUME IInv, [Next]_vars PROVE IInv'
  OBVIOUS
<1>1. CASE Abort
  BY <1>1, InvGone DEF Abort
<1>2. CASE Crash
  BY <1>2, InvGone DEF Crash
<1>3. CASE UNCHANGED vars
  <2>1. PpsNb' = PpsNb
    BY DEF PpsNb
  <2> QED
    BY <1>3, <2>1
       DEF vars, kernel, time, estimate, smooth, base, IInv, TypeOK, Steering, Cut
<1> QED
  BY <1>1, <1>2, <1>3, InvPulses, InvEvaluate, InvSimple, InvSmooth, InvCoarse,
     InvStartFine, InvFine, InvTrim
     DEF Next, Steps

LEMMA Invariant == Spec => []IInv
<1> QED
  BY InvInit, InvStep, PTL DEF Spec

(* Every variable of the daemon and the kernel stays in its range, wherever
   the daemon is killed. *)
THEOREM TypeCorrect == Spec => []TypeOK
<1>1. IInv => TypeOK
  BY DEF IInv
<1> QED
  BY <1>1, Invariant, PTL

(* However often the daemon is killed in the middle of a correction, the tick
   it leaves is at most one correction away from its value at boot. *)
THEOREM KillsLeaveOneCorrection == Spec => []LeftoverBounded
<1>1. IInv => LeftoverBounded
  BY Constants DEF IInv, TypeOK, Steering, LeftoverBounded, Abs
<1> QED
  BY <1>1, Invariant, PTL

(* As long as it is not killed, the tick always comes back. *)
THEOREM TickComesBack ==
    ASSUME ~MayCrash
    PROVE  Spec => []TickRestored
<1>1. IInv => TickRestored
  BY DEF IInv, Steering, TickRestored
<1> QED
  BY <1>1, Invariant, PTL

-----------------------------------------------------------------------------
(* The frequency. *)

(* The daemon is not killed, and the frequencies it may choose are further
   from the kernel's limit than the last second of a correction takes them:
   nothing is ever clamped. *)
Reach == PerTick - MaxFreq .. MaxFreq - PerTick
WithinReach ==
    /\ ~MayCrash
    /\ InitFreqs \subseteq Reach
    /\ \A e \in Noise : -(NaturalDrift + e) \in Reach

Trimming ==
    /\ freq0 \in Reach
    /\ freq = IF pc = "trim" THEN freq0 - adj ELSE freq0

LEMMA Unclamped ==
    ASSUME NEW f \in -MaxFreq .. MaxFreq
    PROVE  Clamped(f) = f
BY Constants DEF Clamped

LEMMA ReachInRange ==
    ASSUME NEW f \in Reach, NEW a \in -PerTick .. PerTick
    PROVE  f \in -MaxFreq .. MaxFreq /\ f + a \in -MaxFreq .. MaxFreq
BY Constants DEF Reach

(* A drift correction ends within reach, wherever it starts. *)
LEMMA DriftReaches ==
    ASSUME IInv, Trimming, WithinReach, pc # "trim",
           NEW e \in Noise, AdjDrift(NaturalDrift + freq + e)
    PROVE  freq' = freq0' /\ freq0' \in Reach
<1>1. /\ e \in Int /\ NaturalDrift \in Int /\ freq \in Int
      /\ -(NaturalDrift + e) \in Reach /\ 0 \in -PerTick .. PerTick
  BY Constants, Types DEF IInv, WithinReach
<1>2. freq + (-(NaturalDrift + freq + e)) = -(NaturalDrift + e)
  BY <1>1
<1>3. Clamped(-(NaturalDrift + e)) = -(NaturalDrift + e)
  BY <1>1, ReachInRange, Unclamped
<1>4. CASE Abs(NaturalDrift + freq + e) <= MaxDrift
  BY <1>1, <1>2, <1>3, <1>4 DEF AdjDrift, AdjFreq
<1>5. CASE ~(Abs(NaturalDrift + freq + e) <= MaxDrift)
  BY <1>5 DEF AdjDrift, kernel, Trimming
<1> QED
  BY <1>4, <1>5

LEMMA TrimmingStep ==
    ASSUME WithinReach
    PROVE  IInv /\ Trimming /\ [Next]_vars => Trimming'
<1> SUFFICES ASSUME IInv, Trimming, [Next]_vars PROVE Trimming'
  OBVIOUS
<1> USE DEF kernel, time, estimate, smooth, base
<1>1. CASE Start \/ (Gone /\ pc # "trim")
  BY <1>1 DEF Start, Gone, Trimming
<1>2. CASE First \/ Exit \/ Abort
  BY <1>1, <1>2 DEF First, Exit, Abort, Trimming
<1>3. CASE Wait \/ RunAgain \/ Retry \/ Leave \/ Jump \/ SkipFine \/ SkipTrim \/ Settle
  BY <1>3 DEF Wait, RunAgain, Retry, Leave, Jump, SkipFine, SkipTrim, Settle, Trimming
<1>4. CASE EvalOffset \/ EvalDrift
  <2>1. pc # "trim" /\ pc' # "trim"
    BY <1>4 DEF EvalOffset, OffsetTurn, EvalDrift, EvalDriftAs
  <2>2. CASE \E e \in Noise : AdjDrift(NaturalDrift + freq + e)
    BY <2>1, <2>2, DriftReaches DEF Trimming
  <2>3. CASE UNCHANGED <<kernel, cum_drift, freq0>>
    BY <2>1, <2>3 DEF Trimming
  <2> QED
    BY <1>4, <2>2, <2>3 DEF EvalOffset, OffsetTurn, EvalDrift, EvalDriftAs
<1>5. CASE Smooth \/ Coarse \/ StartFine \/ Fine
  BY <1>5 DEF Smooth, Coarse, StartFine, Fine, AdjTick, Trimming
<1>6. CASE StartTrim
  <2>1. /\ complement \in Nat /\ complement < PerTick /\ adj' = Signed(complement)
        /\ pc = "last" /\ pc' = "trim" /\ UNCHANGED freq0
        /\ off \in Int /\ freq0 \in Int
    BY <1>6, Types DEF StartTrim, IInv, Cut
  <2>2. adj' \in -PerTick .. PerTick /\ -adj' \in -PerTick .. PerTick
    BY <2>1, Constants DEF Signed
  <2>3. freq + (-adj') \in -MaxFreq .. MaxFreq /\ freq = freq0
    BY <2>1, <2>2, ReachInRange DEF Trimming
  <2>4. freq' = freq0 - adj'
    BY <1>6, <2>1, <2>2, <2>3, Unclamped, Constants DEF StartTrim, AdjFreq
  <2> QED
    BY <2>1, <2>4 DEF Trimming
<1>7. CASE Trim
  <2>1. /\ adj \in -PerTick .. PerTick /\ pc = "trim" /\ pc' = "settled"
        /\ UNCHANGED freq0 /\ freq0 \in Int /\ freq = freq0 - adj
    BY <1>7, Types DEF Trim, IInv, Cut, Trimming
  <2>2. freq + adj = freq0
    BY <2>1, Constants
  <2>3. freq' = freq0
    <3>1. 0 \in -PerTick .. PerTick /\ freq0 \in Reach
      BY Constants DEF Trimming
    <3> QED
      BY <1>7, <2>2, <3>1, ReachInRange, Unclamped DEF Trim, AdjFreq
  <2> QED
    BY <2>1, <2>3 DEF Trimming
<1>8. CASE UNCHANGED vars
  BY <1>8 DEF vars, Trimming
<1>9. CASE Crash
  BY <1>9 DEF Crash, WithinReach
<1>10. CASE Steps
  BY <1>2, <1>3, <1>4, <1>5, <1>6, <1>7, <1>10 DEF Steps
<1> QED
  BY <1>1, <1>3, <1>8, <1>9, <1>10 DEF Next

LEMMA FrequencyInvariant ==
    ASSUME WithinReach
    PROVE  Spec => [](IInv /\ Trimming)
<1>1. Init => IInv /\ Trimming
  BY InvInit DEF Init, Trimming, WithinReach
<1>2. IInv /\ Trimming /\ [Next]_vars => (IInv /\ Trimming)'
  BY InvStep, TrimmingStep
<1> QED
  BY <1>1, <1>2, PTL DEF Spec

(* The frequency comes back after every correction, unless the daemon is
   killed or the kernel clamps. *)
THEOREM FreqComesBack ==
    ASSUME WithinReach
    PROVE  Spec => []FreqRestored
<1>1. IInv /\ Trimming => FreqRestored
  BY DEF Trimming, FreqRestored
<1> QED
  BY <1>1, FrequencyInvariant, PTL

(* The rate is never changed by more than the coarse correction, nor through
   tick and frequency at once. *)
THEOREM RateBounded ==
    ASSUME WithinReach
    PROVE  Spec => []SlewBounded
<1>1. IInv /\ Trimming => SlewBounded
  <2> SUFFICES ASSUME IInv, Trimming PROVE SlewBounded
    OBVIOUS
  <2>1. /\ tick \in Int /\ tick0 \in Int /\ freq \in Int /\ freq0 \in Int /\ adj \in Int
        /\ PerTick \in Nat /\ TickAdjMax \in Nat /\ 0 < PerTick /\ 0 < TickAdjMax
    BY Types, Constants DEF IInv
  <2>2. PerTick <= TickAdjMax * PerTick /\ TickAdjMax * PerTick \in Nat
    <3>1. (TickAdjMax - 1) * PerTick >= 0
      BY <2>1
    <3>2. (TickAdjMax - 1) * PerTick = TickAdjMax * PerTick - PerTick
      BY <2>1
    <3> QED
      BY <2>1, <3>1, <3>2
  <2>3. CASE pc \in {"coarse", "fine"}
    <3>1. /\ tick - tick0 \in -TickAdjMax .. TickAdjMax /\ freq = freq0
      BY <2>1, <2>3 DEF IInv, Steering, Cut, Trimming
    <3>2. (tick - tick0) * PerTick \in -(TickAdjMax * PerTick) .. TickAdjMax * PerTick
      <4>1. \A n \in -TickAdjMax .. TickAdjMax :
                /\ (TickAdjMax - n) * PerTick >= 0 /\ (TickAdjMax + n) * PerTick >= 0
                /\ (TickAdjMax - n) * PerTick = TickAdjMax * PerTick - n * PerTick
                /\ (TickAdjMax + n) * PerTick = TickAdjMax * PerTick + n * PerTick
                /\ n * PerTick \in Int
        BY <2>1
      <4> QED
        BY <2>1, <2>2, <3>1, <4>1
    <3> QED
      BY <2>1, <2>2, <3>1, <3>2 DEF SlewBounded, Abs
  <2>4. CASE pc = "trim"
    <3>1. tick = tick0 /\ freq = freq0 - adj /\ adj \in -PerTick .. PerTick
      BY <2>4 DEF IInv, Steering, Cut, Trimming
    <3>2. (tick - tick0) * PerTick = 0
      BY <2>1, <3>1
    <3> QED
      BY <2>1, <2>2, <3>1, <3>2 DEF SlewBounded, Abs
  <2>5. CASE pc \notin {"coarse", "fine", "trim"}
    <3>1. tick = tick0 /\ freq = freq0
      BY <2>5 DEF IInv, Steering, Trimming, WithinReach
    <3>2. (tick - tick0) * PerTick = 0
      BY <2>1, <3>1
    <3> QED
      BY <2>1, <2>2, <3>1, <3>2 DEF SlewBounded, Abs
  <2> QED
    BY <2>3, <2>4, <2>5
<1> QED
  BY <1>1, FrequencyInvariant, PTL

-----------------------------------------------------------------------------
(* What a correction corrects. *)

(* What remains to be corrected, step by step: the coarse seconds and their
   complement, then the complement alone, then at most the deviation. *)
Remaining ==
    /\ pc \in {"adjust", "trim"} => goal = cum_off
    /\ pc = "coarse" => /\ adj = Signed(TickAdjMax)
                       /\ goal - cum_off = Signed(s * (TickAdjMax * PerTick) + complement)
    /\ pc \in {"rest", "fine", "last"} => goal - cum_off = Signed(complement)
    /\ WholeCorrection

LEMMA NothingLeft ==
    ASSUME NEW a \in Int, NEW b \in Int, NEW d \in Nat, a = b
    PROVE  Abs(a - b) <= d
BY DEF Abs

LEMMA SmoothWhole ==
    ASSUME IInv, Remaining, Smooth
    PROVE  Remaining'
<1> DEFINE M == TickAdjMax * PerTick
<1>1. /\ tick = BootTick /\ smooth_min' = PerTick /\ pc' \in {"coarse", "rest"}
      /\ goal' = cum_off + off /\ UNCHANGED <<cum_off, off>>
      /\ s' = Abs(off) \div M /\ complement' = Abs(off) % M
  BY UsableIsBoot DEF Smooth, PerTick, IInv, CoarseSeconds, Complement, estimate
<1>2. off \in Int /\ Abs(off) \in Nat /\ cum_off \in Int /\ M \in Nat /\ M > 0
  BY Types, Constants DEF IInv
<1> HIDE DEF M
<1>3. /\ s' \in Nat /\ complement' \in Nat
      /\ Abs(off) = (s' * M) + complement'
  <2>1. /\ Abs(off) \in Int /\ M \in Int
        /\ Abs(off) \div M \in Nat /\ Abs(off) % M \in Nat
    BY <1>2
  <2>2. Abs(off) = ((Abs(off) \div M) * M) + (Abs(off) % M)
    BY <1>2, <2>1, DivIdentity, Zenon
  <2> QED
    BY <1>1, <2>1, <2>2
<1>4. goal' - cum_off' = Signed(Abs(off))
  BY <1>1, <1>2 DEF Signed, Abs
<1>5. CASE s' > 0
  <2>1. pc' = "coarse" /\ adj' = Signed(TickAdjMax)
    BY <1>5 DEF Smooth
  <2>2. (goal - cum_off = Signed((s * M) + complement))'
    BY <1>1, <1>3, <1>4 DEF Signed, M
  <2>3. (adj = Signed(TickAdjMax))'
    BY <1>1, <2>1 DEF Signed
  <2> QED
    BY <2>1, <2>2, <2>3 DEF Remaining, WholeCorrection, M
<1>6. CASE ~(s' > 0)
  <2>1. pc' = "rest"
    BY <1>6 DEF Smooth
  <2>2. s' = 0 /\ 0 * M = 0
    BY <1>2, <1>3, <1>6
  <2>3. (goal - cum_off = Signed(complement))'
    BY <1>1, <1>3, <1>4, <2>2 DEF Signed
  <2> QED
    BY <2>1, <2>3 DEF Remaining, WholeCorrection
<1> QED
  BY <1>5, <1>6

(* No pulse is lost by a daemon that goes on. *)
NoneLost == ~MayTimeOut \/ MaxBehind = 0

LEMMA NotLost ==
    ASSUME IInv, NoneLost
    PROVE  ~TimedOut
<1>1. behind \in 0 .. MaxBehind /\ late \in {0, 1}
  BY DEF IInv, TypeOK
<1> QED
  BY <1>1 DEF NoneLost, TimedOut, Lost

LEMMA CoarseWhole ==
    ASSUME IInv, Remaining, Coarse, NoneLost
    PROVE  Remaining'
<1> DEFINE M == TickAdjMax * PerTick
<1>1. /\ pc = "coarse" /\ s \in Nat /\ s > 0 /\ complement \in Nat /\ M \in Nat
      /\ adj = Signed(TickAdjMax) /\ smooth_min = PerTick
      /\ goal - cum_off = Signed((s * M) + complement)
      /\ off \in Int /\ cum_off \in Int /\ goal \in Int
  BY Types, Constants DEF Coarse, IInv, Cut, Remaining
<1>2. /\ cum_off' = cum_off + adj * PerTick /\ s' = s - 1
      /\ UNCHANGED <<goal, off, complement>>
  BY <1>1 DEF Coarse, estimate
<1>3. adj * PerTick = Signed(M)
  BY <1>1, Constants DEF Signed
<1> HIDE DEF M
<1>4. (s - 1) * M = s * M - M /\ s * M \in Nat /\ (s - 1) * M \in Nat
  BY <1>1
<1>5. goal' - cum_off' = Signed(((s - 1) * M) + complement)
  BY <1>1, <1>2, <1>3, <1>4 DEF Signed
<1>6. (goal - cum_off = Signed((s * M) + complement))'
  BY <1>2, <1>5 DEF Signed, M
<1>7. CASE s > 1 /\ UNCHANGED <<kernel, pc, adj>>
  <2>1. (adj = Signed(TickAdjMax))'
    BY <1>1, <1>2, <1>7 DEF Signed
  <2> QED
    BY <1>1, <1>6, <1>7, <2>1 DEF Remaining, WholeCorrection, M
<1>8. CASE s = 1 /\ pc' = "rest"
  <2>1. s - 1 = 0 /\ 0 * M = 0
    BY <1>1, <1>8
  <2>2. (goal - cum_off = Signed(complement))'
    BY <1>1, <1>2, <1>5, <2>1 DEF Signed
  <2> QED
    BY <1>8, <2>2 DEF Remaining, WholeCorrection
<1> QED
  BY <1>7, <1>8, NotLost DEF Coarse

LEMMA FineWhole ==
    ASSUME IInv, Remaining, StartFine \/ StartTrim \/ SkipTrim
    PROVE  Remaining'
<1>1. /\ complement \in Nat /\ PerTick \in Nat /\ PerTick > 0 /\ smooth_min = PerTick
      /\ off \in Int /\ dev \in Nat /\ cum_off \in Int /\ goal \in Int
      /\ goal - cum_off = Signed(complement) /\ UNCHANGED <<goal, off, dev>>
  BY Types, Constants
     DEF StartFine, StartTrim, SkipTrim, IInv, Cut, Remaining, estimate
<1>2. CASE StartFine
  <2> DEFINE q == complement \div PerTick
             r == complement % PerTick
  <2>1. /\ adj' = Signed(q) /\ complement' = r /\ pc' = "fine"
        /\ cum_off' = cum_off + adj' * PerTick
    BY <1>1, <1>2 DEF StartFine
  <2>2. q \in Nat /\ r \in Nat
    BY <1>1
  <2>3. complement = (q * PerTick) + r
    <3>1. complement \in Int /\ PerTick \in Int
      BY <1>1
    <3> QED
      BY <1>1, <3>1, DivIdentity, Zenon
  <2> HIDE DEF q, r
  <2>4. adj' * PerTick = Signed(q * PerTick) /\ q * PerTick \in Nat
    BY <1>1, <2>1, <2>2 DEF Signed
  <2>5. goal - cum_off' = Signed(r)
    BY <1>1, <2>1, <2>2, <2>3, <2>4 DEF Signed
  <2>6. (goal - cum_off = Signed(complement))'
    BY <1>1, <2>1, <2>5 DEF Signed
  <2> QED
    BY <2>1, <2>6 DEF Remaining, WholeCorrection
<1>3. CASE StartTrim
  <2>1. goal' = cum_off' /\ pc' = "trim"
    BY <1>1, <1>3 DEF StartTrim, Signed
  <2> QED
    BY <2>1 DEF Remaining, WholeCorrection
<1>4. CASE SkipTrim
  <2>1. Abs(goal' - cum_off') <= dev' /\ pc' = "settled"
    BY <1>1, <1>4 DEF SkipTrim, Signed, Abs
  <2> QED
    BY <2>1 DEF Remaining, WholeCorrection
<1> QED
  BY <1>2, <1>3, <1>4

LEMMA RemainingStep ==
    ASSUME NoneLost
    PROVE  IInv /\ Remaining /\ [Next]_vars => Remaining'
<1> SUFFICES ASSUME IInv, Remaining, [Next]_vars PROVE Remaining'
  OBVIOUS
<1>1. CASE Gone \/ Start
  BY <1>1 DEF Gone, Start, Remaining, WholeCorrection
<1>2. CASE First \/ Exit \/ Abort \/ Crash
  BY <1>1, <1>2 DEF First, Exit, Abort, Crash, Remaining, WholeCorrection
<1>3. CASE Wait \/ RunAgain \/ EvalDrift \/ Settle
  BY <1>3 DEF Wait, RunAgain, EvalDrift, EvalDriftAs, Settle, Remaining, WholeCorrection
<1>4. CASE Retry
  BY <1>4
     DEF Retry, estimate, smooth, Remaining, WholeCorrection, Signed
<1>5. CASE EvalOffset
  BY <1>5 DEF EvalOffset, OffsetTurn, Remaining, WholeCorrection
<1>6. CASE Leave \/ Jump
  <2>1. /\ goal' = cum_off' /\ goal' \in Int /\ cum_off' \in Int /\ pc' = "settled"
        /\ dev' \in Nat
    BY <1>6, Types DEF Leave, Jump, Remaining, IInv, estimate
  <2>2. Abs(goal' - cum_off') <= dev'
    BY <2>1, NothingLeft, Zenon
  <2> QED
    BY <2>1, <2>2 DEF Remaining, WholeCorrection
<1>7. CASE SkipFine \/ Fine
  <2>1. /\ pc \in {"rest", "fine"} /\ pc' = "last"
        /\ UNCHANGED <<goal, cum_off, off, complement>>
    BY <1>7 DEF SkipFine, Fine, estimate, smooth
  <2> QED
    BY <2>1 DEF Remaining, WholeCorrection, Signed
<1>8. CASE Trim
  <2>1. /\ goal' = cum_off' /\ goal' \in Int /\ cum_off' \in Int /\ pc' = "settled"
        /\ dev' \in Nat
    BY <1>8, Types DEF Trim, Remaining, IInv, estimate
  <2>2. Abs(goal' - cum_off') <= dev'
    BY <2>1, NothingLeft, Zenon
  <2> QED
    BY <2>1, <2>2 DEF Remaining, WholeCorrection
<1>9. CASE UNCHANGED vars
  BY <1>9 DEF vars, estimate, smooth, Remaining, WholeCorrection, Signed
<1> QED
  BY <1>1, <1>2, <1>3, <1>4, <1>5, <1>6, <1>7, <1>8, <1>9, SmoothWhole,
     CoarseWhole, FineWhole
     DEF Next, Steps

(* A correction that was begun is whole, unless a pulse was lost in it: the
   coarse seconds, the fine one and the last one add up to the offset but for
   less than its deviation, for every offset and every setting of the tick. *)
THEOREM CorrectionsAreWhole ==
    ASSUME NoneLost
    PROVE  Spec => []WholeCorrection
<1>1. Init => IInv /\ Remaining
  BY InvInit DEF Init, Remaining, WholeCorrection
<1>2. IInv /\ Remaining /\ [Next]_vars => (IInv /\ Remaining)'
  BY InvStep, RemainingStep
<1>3. IInv /\ Remaining => WholeCorrection
  BY DEF Remaining
<1> QED
  BY <1>1, <1>2, <1>3, PTL DEF Spec

-----------------------------------------------------------------------------
(* What the drift's window sees. *)

(* No pulse is lost; what the corrections moved the clock by and what they
   added to the cumulated offset cancel, but for the second in progress. *)
Balanced ==
    /\ late = 0 /\ behind = 0
    /\ moved + cum_off = CASE pc = "fine" -> adj * PerTick
                           [] pc = "trim" -> adj
                           [] OTHER -> 0

LEMMA WaitMoves ==
    ASSUME IInv, Balanced, Stamped
    PROVE  /\ moved' = moved + (tick - tick0) * PerTick + freq - freq0
           /\ late' = 0 /\ behind' = 0
<1>1. /\ tick \in Int /\ tick0 \in Int /\ freq \in Int /\ freq0 \in Int
      /\ moved \in Int /\ PerTick \in Int
  BY Types, Constants DEF IInv
<1>2. (tick - tick0) * PerTick \in Int
  BY <1>1
<1>3. \A r \in Int : (2 * r) \div 2 = r
  OBVIOUS
<1>4. moved' = moved + (2 * ((tick - tick0) * PerTick + freq - freq0)) \div 2
  BY DEF Stamped, Elapse, Balanced
<1>5. moved' = moved + ((tick - tick0) * PerTick + freq - freq0)
  BY <1>1, <1>2, <1>3, <1>4
<1> QED
  BY <1>1, <1>2, <1>5 DEF Stamped, Balanced

LEMMA BalancedStep ==
    ASSUME WithinReach, ~MayTimeOut, ~MayRetry
    PROVE  IInv /\ Trimming /\ Balanced /\ [Next]_vars => Balanced'
<1> SUFFICES ASSUME IInv, Trimming, Balanced, [Next]_vars PROVE Balanced'
  OBVIOUS
<1>1. /\ tick \in Int /\ tick0 \in Int /\ freq \in Int /\ freq0 \in Int /\ off \in Int
      /\ moved \in Int /\ cum_off \in Int /\ adj \in Int /\ PerTick \in Int /\ Second \in Int
      /\ complement \in Nat /\ 0 * PerTick = 0 /\ 0 * Second = 0
  BY Types, Constants DEF IInv
<1>2. CASE Gone
  BY <1>2 DEF Gone, Balanced
<1>3. CASE First \/ Exit \/ Abort \/ Crash
  BY <1>2, <1>3 DEF First, Exit, Abort, Crash, Balanced, time
<1>4. CASE Start \/ EvalOffset \/ Leave \/ Smooth \/ SkipFine \/ SkipTrim \/ Settle
  <2>1. /\ UNCHANGED <<moved, late, behind, cum_off>>
        /\ pc \notin {"fine", "trim"} /\ pc' \notin {"fine", "trim"}
    BY <1>4
       DEF Start, EvalOffset, OffsetTurn, Leave, Smooth, SkipFine, SkipTrim, Settle, time
  <2> QED
    BY <2>1 DEF Balanced
<1>5. CASE Wait \/ RunAgain
  <2>1. /\ pc = "wait" /\ pc' \notin {"fine", "trim"} /\ UNCHANGED cum_off
        /\ Stamped /\ tick = tick0 /\ freq = freq0
    BY <1>5 DEF Wait, RunAgain, IInv, Steering, Trimming
  <2>2. moved' = moved
    BY <1>1, <2>1, WaitMoves
  <2>3. late' = 0 /\ behind' = 0
    BY <2>1, WaitMoves
  <2> QED
    BY <2>1, <2>2, <2>3 DEF Balanced
<1>6. CASE Jump
  BY <1>1, <1>6 DEF Jump, Balanced
<1>7. CASE Coarse
  <2>1. /\ pc = "coarse" /\ pc' \notin {"fine", "trim"} /\ Stamped
        /\ cum_off' = cum_off + adj * PerTick
        /\ tick - tick0 = -adj /\ freq = freq0
    BY <1>1, <1>7 DEF Coarse, TimedOut, IInv, Steering, Cut, Trimming
  <2>2. (-adj) * PerTick = -(adj * PerTick) /\ adj * PerTick \in Int
    BY <1>1
  <2>3. late' = 0 /\ behind' = 0 /\ moved' = moved - adj * PerTick
    BY <1>1, <2>1, <2>2, WaitMoves
  <2>4. moved' + cum_off' = moved + cum_off
    BY <1>1, <2>1, <2>2, <2>3
  <2> QED
    BY <2>1, <2>3, <2>4 DEF Balanced
<1>8. CASE StartFine
  <2>1. /\ pc = "rest" /\ pc' = "fine" /\ UNCHANGED <<moved, late, behind>>
        /\ cum_off' = cum_off + adj' * PerTick
    BY <1>8 DEF StartFine, time, IInv, Cut
  <2>2. adj' \in Int
    BY <1>8, InvStartFine DEF IInv, TypeOK
  <2>3. adj' * PerTick \in Int
    BY <1>1, <2>2
  <2>4. moved' + cum_off' = adj' * PerTick
    BY <1>1, <2>1, <2>3 DEF Balanced
  <2> QED
    BY <2>1, <2>4 DEF Balanced
<1>9. CASE Fine
  <2>1. /\ pc = "fine" /\ pc' = "last" /\ Stamped /\ UNCHANGED cum_off
        /\ tick - tick0 = -adj /\ freq = freq0
    BY <1>1, <1>9 DEF Fine, TimedOut, IInv, Steering, Cut, Trimming
  <2>2. (-adj) * PerTick = -(adj * PerTick) /\ adj * PerTick \in Int
    BY <1>1
  <2>3. late' = 0 /\ behind' = 0 /\ moved' = moved - adj * PerTick
    BY <1>1, <2>1, <2>2, WaitMoves
  <2>4. moved' + cum_off' = 0
    BY <1>1, <2>1, <2>2, <2>3 DEF Balanced
  <2> QED
    BY <2>1, <2>3, <2>4 DEF Balanced
<1>10. CASE StartTrim
  <2>1. /\ pc = "last" /\ pc' = "trim" /\ UNCHANGED <<moved, late, behind>>
        /\ cum_off' = cum_off + adj' /\ adj' = Signed(complement)
    BY <1>10 DEF StartTrim, time
  <2>2. adj' \in Int
    BY <1>1, <2>1 DEF Signed
  <2>3. moved + cum_off = 0
    BY <2>1 DEF Balanced
  <2>4. \A n \in Int : moved + (cum_off + n) = n
    BY <1>1, <2>3
  <2>5. moved' + cum_off' = adj'
    BY <2>1, <2>2, <2>4
  <2> QED
    BY <2>1, <2>5 DEF Balanced
<1>11. CASE Trim
  <2>1. /\ pc = "trim" /\ pc' = "settled" /\ Stamped /\ UNCHANGED cum_off
        /\ tick = tick0 /\ freq = freq0 - adj
    BY <1>11 DEF Trim, TimedOut, IInv, Steering, Trimming
  <2>2. late' = 0 /\ behind' = 0 /\ moved' = moved - adj
    BY <1>1, <2>1, WaitMoves
  <2>3. moved' + cum_off' = 0
    BY <1>1, <2>1, <2>2 DEF Balanced
  <2> QED
    BY <2>1, <2>2, <2>3 DEF Balanced
<1>12. CASE EvalDrift
  <2>1. /\ pc' = "wait" /\ cum_off' = 0 /\ UNCHANGED <<late, behind>>
        /\ moved' = -(0 * Second)
    BY <1>12 DEF EvalDrift, EvalDriftAs, Balanced
  <2>2. moved' + cum_off' = 0
    BY <1>1, <2>1
  <2> QED
    BY <2>1, <2>2 DEF Balanced
<1>13. CASE UNCHANGED vars
  BY <1>13 DEF vars, time, smooth, Balanced
<1>14. ~Retry
  BY DEF Retry
<1> QED
  BY <1>3, <1>4, <1>5, <1>6, <1>7, <1>8, <1>9, <1>10, <1>11, <1>12, <1>13, <1>14
     DEF Next, Steps

(* The drift's window is that of a clock whose offset is never corrected, as
   long as no pulse is lost: jumps, coarse and fine seconds and trims are all
   compensated by what cum_off adds to the offsets measured. *)
THEOREM DriftNeverSeesCorrections ==
    ASSUME WithinReach, ~MayTimeOut, ~MayRetry
    PROVE  Spec => []DriftUnbiased
<1>1. Init => IInv /\ Trimming /\ Balanced
  BY InvInit DEF Init, Trimming, WithinReach, Balanced
<1>2. IInv /\ Trimming /\ Balanced /\ [Next]_vars => (IInv /\ Trimming /\ Balanced)'
  BY InvStep, TrimmingStep, BalancedStep
<1>3. Balanced => DriftUnbiased
  <2> SUFFICES ASSUME Balanced, pc \notin {"fine", "trim"}
               PROVE  moved + cum_off + behind * Second = 0
    BY DEF DriftUnbiased
  <2>1. moved + cum_off = 0 /\ behind * Second = 0
    BY Constants DEF Balanced
  <2> QED
    BY <2>1
<1> QED
  BY <1>1, <1>2, <1>3, PTL DEF Spec

-----------------------------------------------------------------------------
(* The thresholds with which README.md:82-86 says that the daemon never jumps
   in the past, for any minimum that is not positive. *)
OneSided == MinOffset <= 0 /\ HalfSecond <= MaxOffset

(* The offsets that are corrected abruptly are then negative: the clock is
   late, and set forward. *)
LEMMA JumpsForward ==
    ASSUME OneSided, TypeOK, Corrected, Abrupt
    PROVE  off < 0
<1>1. off \in Int /\ HalfSecond \in Nat /\ MinOffset \in Int /\ MaxOffset \in Int
  BY Types, Constants
<1>2. off <= HalfSecond
  BY <1>1 DEF Corrected, TooFar
<1>3. HalfSecond # 0
  BY DaemonAssumption
<1> QED
  BY <1>1, <1>2, <1>3 DEF OneSided, Abrupt

(* Between the estimate of an offset and the next pulse the clock is never set
   back, whatever the estimates, wherever the daemon was killed before. *)
THEOREM ClockNeverSetBack ==
    ASSUME OneSided
    PROVE  Spec => NeverJumpsBack
<1> DEFINE Forward == pc = "adjust" /\ pc' # "down" => moved' >= moved
<1>1. ASSUME TypeOK, [Next]_vars PROVE [Forward]_vars
  <2> SUFFICES ASSUME pc = "adjust", pc' # "down" PROVE moved' >= moved
    OBVIOUS
  <2>1. moved \in Int /\ off \in Int
    BY <1>1, Types DEF TypeOK
  <2>2. CASE Jump
    <3>1. off < 0
      BY <1>1, <2>2, JumpsForward DEF Jump
    <3> QED
      BY <2>1, <2>2, <3>1 DEF Jump
  <2>3. CASE Leave \/ Smooth
    BY <2>1, <2>3 DEF Leave, Smooth, time
  <2>4. CASE UNCHANGED vars
    BY <2>1, <2>4 DEF vars, time
  <2> QED
    BY <1>1, <2>2, <2>3, <2>4
       DEF Next, Steps, Start, First, Wait, RunAgain, Exit, EvalOffset, Coarse,
           Abort, Gone, StartFine, SkipFine, Fine, StartTrim, SkipTrim, Trim,
           Settle, EvalDrift, EvalDriftAs, Retry, Crash
<1> QED
  BY <1>1, TypeCorrect, PTL DEF Spec, NeverJumpsBack
=============================================================================
