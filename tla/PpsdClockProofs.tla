-------------------------- MODULE PpsdClockProofs --------------------------
(***************************************************************************)
(* Proofs about PpsdClock: how many offsets the estimates are made of,     *)
(* which drift and offset they find, that they are among those Ppsd        *)
(* allows, and what corrections leave of an offset.                        *)
(***************************************************************************)
EXTENDS PpsdClock, PpsdProofs, SumsProofs, SequenceTheorems

LEMMA ClockConstants ==
    /\ MaxBehind = 0 /\ ~MayCrash
    /\ PulseWidth \in Int /\ HwOffset \in Int /\ Jitters \subseteq Int
    /\ InitErrors \subseteq Int
    /\ OffNb \in Nat \ {0} /\ DriftNb \in Nat \ {0}
    /\ PpsNb \in Nat /\ PpsNb' = PpsNb
BY ClockAssumption, DaemonAssumption DEF PpsNb

LEMMA JitterType == Jitters \subseteq Int /\ InitErrors \subseteq Int
BY ClockConstants

-----------------------------------------------------------------------------
(* The size of the windows.  The first pulses of a window are counted, the
   pulses of a correction are not: a window may hold more than is counted. *)

Sized(w, n) == w = [i \in 1 .. Len(w) |-> w[i]] /\ Len(w) \in 0 .. n

Counted(w, n) == pps_cnt % n <= Len(w)
Due(w, n) == pps_cnt % n = 0 => Len(w) = n

Correcting ==
    {"offset", "adjust", "coarse", "rest", "fine", "last", "trim", "settled"}

Filled ==
    /\ Sized(off_stats, OffNb) /\ Sized(drift_stats, DriftNb)
    /\ pps_cnt \in Nat
    /\ pc \in {"wait", "drift"} => Counted(off_stats, OffNb)
    /\ pc \in {"wait"} \cup Correcting => Counted(drift_stats, DriftNb)
    /\ pc \in Correcting => pps_cnt % OffNb = 0 /\ Due(drift_stats, DriftNb)
    /\ pc = "offset" => Len(off_stats) = OffNb
    /\ pc = "drift" => pps_cnt % DriftNb = 0 /\ Len(drift_stats) = DriftNb

(* SlidingWindow's Push, from w to v. *)
Pushed(w, v, n, o) == v = IF Len(w) = n THEN Append(Tail(w), o) ELSE Append(w, o)

LEMMA PushSized ==
    ASSUME NEW w, NEW v, NEW n \in Nat \ {0}, NEW o, Sized(w, n), Pushed(w, v, n, o)
    PROVE  /\ Sized(v, n)
           /\ Len(v) = IF Len(w) = n THEN n ELSE Len(w) + 1
<1> DEFINE S == {w[i] : i \in 1 .. Len(w)} \cup {o}
<1>1. w \in Seq(S) /\ o \in S
  BY DEF Sized
<1> HIDE DEF S
<1>2. ASSUME NEW u \in Seq(S) PROVE u = [i \in 1 .. Len(u) |-> u[i]] /\ Len(u) \in Nat
  BY <1>2, LenProperties
<1>3. CASE Len(w) = n
  <2>1. w # << >>
    BY <1>3
  <2>2. Tail(w) \in Seq(S) /\ Len(Tail(w)) = Len(w) - 1
    BY <1>1, <2>1, HeadTailProperties
  <2>3. Append(Tail(w), o) \in Seq(S) /\ Len(Append(Tail(w), o)) = Len(Tail(w)) + 1
    BY <1>1, <2>2, AppendProperties
  <2>4. v = Append(Tail(w), o)
    BY <1>3 DEF Pushed
  <2>5. v = [i \in 1 .. Len(v) |-> v[i]]
    BY <1>2, <2>3, <2>4, Zenon
  <2>6. Len(v) = n
    BY <1>3, <2>2, <2>3, <2>4
  <2> QED
    BY <1>3, <2>5, <2>6 DEF Sized
<1>4. CASE Len(w) # n
  <2>1. Append(w, o) \in Seq(S) /\ Len(Append(w, o)) = Len(w) + 1
    BY <1>1, AppendProperties
  <2>2. v = Append(w, o)
    BY <1>4 DEF Pushed
  <2>3. v = [i \in 1 .. Len(v) |-> v[i]]
    BY <1>2, <2>1, <2>2, Zenon
  <2>4. Len(v) = Len(w) + 1 /\ Len(w) \in 0 .. n
    BY <2>1, <2>2 DEF Sized
  <2>5. Len(v) \in 0 .. n
    BY <1>4, <2>4
  <2> QED
    BY <1>4, <2>3, <2>4, <2>5 DEF Sized
<1> QED
  BY <1>3, <1>4

LEMMA EmptySized == \A n \in Nat : Sized(<< >>, n)
BY DEF Sized

(* What a pulse does to both windows. *)
LEMMA MeasureSized ==
    ASSUME Sized(off_stats, OffNb), Sized(drift_stats, DriftNb), Measure
    PROVE  /\ Sized(off_stats', OffNb) /\ Sized(drift_stats', DriftNb)
           /\ Len(off_stats') = IF Len(off_stats) = OffNb THEN OffNb
                                ELSE Len(off_stats) + 1
           /\ Len(drift_stats') = IF Len(drift_stats) = DriftNb THEN DriftNb
                                  ELSE Len(drift_stats) + 1
<1>1. PICK j \in Jitters :
         LET offset == Stamp(error', edge) + j - HwOffset + behind' * Second
         IN  OffStats!Push(offset) /\ DriftStats!Push(offset + cum_off')
  BY DEF Measure
<1> DEFINE offset == Stamp(error', edge) + j - HwOffset + behind' * Second
<1>2. /\ Pushed(off_stats, off_stats', OffNb, offset)
      /\ Pushed(drift_stats, drift_stats', DriftNb, offset + cum_off')
  BY <1>1 DEF OffStats!Push, DriftStats!Push, Pushed
<1> HIDE DEF offset
<1> QED
  BY <1>2, PushSized, ClockConstants

(* One pulse more is counted, and is in both windows. *)
LEMMA OneMore ==
    ASSUME NEW n \in Nat \ {0}, NEW l \in 0 .. n, NEW m \in Nat, m % n <= l,
           NEW k, k = IF l = n THEN n ELSE l + 1
    PROVE  (m + 1) % n <= k /\ ((m + 1) % n = 0 => k = n)
<1>1. /\ m % n \in 0 .. n - 1
      /\ (m + 1) % n = IF (m % n) + 1 = n THEN 0 ELSE (m % n) + 1
  <2>1. n \in Nat /\ 0 < n
    OBVIOUS
  <2> QED
    BY <2>1, NextRemainder
<1> DEFINE r == m % n t == (m + 1) % n
<1> HIDE DEF r, t
<1>2. r \in 0 .. n - 1 /\ t = (IF r + 1 = n THEN 0 ELSE r + 1) /\ r <= l
  BY <1>1 DEF r, t
<1>3. t <= k /\ (t = 0 => k = n)
  BY <1>2
<1> QED
  BY <1>3 DEF t

LEMMA FilledInit == CInit => Filled
BY EmptySized, ClockConstants DEF CInit, Init, Filled, Correcting

LEMMA FilledDown ==
    ASSUME Filled, Gone, CClose
    PROVE  Filled'
BY EmptySized, ClockConstants
   DEF Filled, Gone, CClose, OffStats!Clear, DriftStats!Clear, Correcting

LEMMA FilledPulse ==
    ASSUME Filled,
           (First /\ pc' # "down" /\ Measure) \/ ((Wait \/ RunAgain) /\ CPulse)
    PROVE  Filled'
<1>1. Measure
  BY DEF CPulse
<1>2. /\ Sized(off_stats', OffNb) /\ Sized(drift_stats', DriftNb)
      /\ Len(off_stats') = IF Len(off_stats) = OffNb THEN OffNb
                           ELSE Len(off_stats) + 1
      /\ Len(drift_stats') = IF Len(drift_stats) = DriftNb THEN DriftNb
                             ELSE Len(drift_stats) + 1
  BY <1>1, MeasureSized DEF Filled
<1>3. /\ OffNb \in Nat \ {0} /\ DriftNb \in Nat \ {0}
      /\ Len(off_stats) \in 0 .. OffNb /\ Len(drift_stats) \in 0 .. DriftNb
      /\ pps_cnt \in Nat
  BY ClockConstants DEF Filled, Sized
<1>4. CASE First /\ pc' # "down"
  <2>1. pps_cnt' = 1
        /\ pc' = IF OffNb = 1 THEN "offset" ELSE IF DriftNb = 1 THEN "drift" ELSE "wait"
    BY <1>4 DEF First, Gone
  <2>2. ASSUME NEW n \in Nat \ {0} PROVE 1 % n = IF n = 1 THEN 0 ELSE 1
    OBVIOUS
  <2>3. 1 % OffNb = (IF OffNb = 1 THEN 0 ELSE 1) /\ 1 % DriftNb = (IF DriftNb = 1 THEN 0 ELSE 1)
    BY <1>3, <2>2
  <2> QED
    BY <1>2, <1>3, <2>1, <2>3 DEF Filled, Counted, Due, Correcting
<1>5. CASE Wait
  <2>1. /\ pc = "wait" /\ pps_cnt' = pps_cnt + 1
        /\ pc' = IF (pps_cnt + 1) % OffNb = 0 THEN "offset"
                 ELSE IF (pps_cnt + 1) % DriftNb = 0 THEN "drift" ELSE "wait"
    BY <1>5 DEF Wait
  <2>2. pps_cnt % OffNb <= Len(off_stats) /\ pps_cnt % DriftNb <= Len(drift_stats)
    BY <2>1 DEF Filled, Counted
  <2>3. /\ (pps_cnt + 1) % OffNb <= Len(off_stats')
        /\ (pps_cnt + 1) % OffNb = 0 => Len(off_stats') = OffNb
    BY <1>2, <1>3, <2>2, OneMore
  <2>4. /\ (pps_cnt + 1) % DriftNb <= Len(drift_stats')
        /\ (pps_cnt + 1) % DriftNb = 0 => Len(drift_stats') = DriftNb
    BY <1>2, <1>3, <2>2, OneMore
  <2> DEFINE a == (pps_cnt + 1) % OffNb b == (pps_cnt + 1) % DriftNb
  <2>5. pps_cnt' % OffNb = a /\ pps_cnt' % DriftNb = b /\ pps_cnt' \in Nat
    BY <1>3, <2>1
  <2> HIDE DEF a, b
  <2> QED
    BY <1>2, <2>1, <2>3, <2>4, <2>5 DEF Filled, Counted, Due, Correcting, a, b
<1>6. CASE RunAgain
  <2>1. pc' = "wait" /\ pps_cnt' = 0
    BY <1>6 DEF RunAgain
  <2>2. 0 % OffNb = 0 /\ 0 % DriftNb = 0
    BY <1>3
  <2>3. Len(off_stats') \in Nat /\ Len(drift_stats') \in Nat
    BY <1>2, <1>3
  <2> QED
    BY <1>2, <2>1, <2>2, <2>3 DEF Filled, Counted, Due, Correcting
<1> QED
  BY <1>4, <1>5, <1>6

(* A pulse inside a correction. *)
LEMMA FilledNested ==
    ASSUME Filled, Coarse \/ Fine \/ Trim, CPulse
    PROVE  Filled'
<1>1. /\ Sized(off_stats', OffNb) /\ Sized(drift_stats', DriftNb)
      /\ Len(drift_stats') = IF Len(drift_stats) = DriftNb THEN DriftNb
                             ELSE Len(drift_stats) + 1
  BY MeasureSized DEF Filled, CPulse
<1>2. /\ pps_cnt' = pps_cnt
      /\ pc \in {"coarse", "fine", "trim"}
      /\ pc' \in {"coarse", "rest", "last", "settled"}
  BY DEF Coarse, Fine, Trim
<1>3. /\ DriftNb \in Nat \ {0} /\ Len(drift_stats) \in 0 .. DriftNb
      /\ pps_cnt \in Nat /\ pps_cnt % DriftNb \in Int
  BY ClockConstants DEF Filled, Sized
<1>4. /\ pps_cnt % OffNb = 0 /\ pps_cnt % DriftNb <= Len(drift_stats)
      /\ pps_cnt % DriftNb = 0 => Len(drift_stats) = DriftNb
  BY <1>2 DEF Filled, Counted, Due, Correcting
<1> DEFINE b == pps_cnt % DriftNb
<1>5. pps_cnt' % DriftNb = b /\ pps_cnt' % OffNb = 0
  BY <1>2, <1>4
<1> HIDE DEF b
<1>6. b <= Len(drift_stats') /\ (b = 0 => Len(drift_stats') = DriftNb)
  BY <1>1, <1>3, <1>4 DEF b
<1> QED
  BY <1>1, <1>2, <1>3, <1>5, <1>6 DEF Filled, Counted, Due, Correcting

LEMMA FilledStep == Filled /\ [CNext]_cvars => Filled'
<1> SUFFICES ASSUME Filled, [CNext]_cvars PROVE Filled'
  OBVIOUS
<1>1. CASE COpen
  BY <1>1 DEF COpen, Start, Filled, Correcting, windows
<1>2. CASE \/ First /\ pc' # "down" /\ UNCHANGED <<error, edge>> /\ Measure
           \/ (Wait \/ RunAgain) /\ CPulse
  BY <1>2, FilledPulse
<1>3. CASE \/ First /\ pc' = "down" /\ CClose
           \/ (Exit \/ Abort) /\ CClose
  <2>1. Gone
    BY <1>3 DEF First, Exit, Abort
  <2> QED
    BY <1>3, <2>1, FilledDown
<1>4. CASE (Coarse \/ Fine \/ Trim) /\ CPulse
  BY <1>4, FilledNested
<1>5. CASE \/ CEvalOffset
           \/ Jump /\ UNCHANGED windows
           \/ (Leave \/ Smooth \/ StartFine \/ SkipFine \/ StartTrim \/ SkipTrim) /\ CQuiet
  <2>1. UNCHANGED <<off_stats, drift_stats, pps_cnt>> /\ pc \in Correcting
    BY <1>5 DEF CEvalOffset, OffsetTurn, Jump, Leave, Smooth, StartFine, SkipFine,
                StartTrim, SkipTrim, CQuiet, clock, windows, Correcting
  <2>2. pc' \in Correcting \ {"offset"}
    BY <1>5 DEF CEvalOffset, OffsetTurn, Jump, Leave, Smooth, StartFine, SkipFine,
                StartTrim, SkipTrim, Correcting
  <2> QED
    BY <2>1, <2>2 DEF Filled, Counted, Due, Correcting
<1>6. CASE CSettle
  <2>1. /\ pc = "settled" /\ UNCHANGED <<pps_cnt, drift_stats>> /\ off_stats' = << >>
        /\ pc' = IF pps_cnt % DriftNb = 0 THEN "drift" ELSE "wait"
    BY <1>6 DEF CSettle, Settle, OffStats!Clear
  <2>2. Sized(off_stats', OffNb) /\ Len(off_stats') = 0
    BY <2>1, EmptySized, ClockConstants
  <2> QED
    BY <2>1, <2>2 DEF Filled, Counted, Due, Correcting
<1>7. CASE CEvalDrift
  <2>1. /\ pc = "drift" /\ UNCHANGED <<pps_cnt, off_stats>> /\ drift_stats' = << >>
        /\ pc' = "wait"
    BY <1>7 DEF CEvalDrift, EvalDriftAs, DriftStats!Clear
  <2>2. Sized(drift_stats', DriftNb) /\ Len(drift_stats') = 0
    BY <2>1, EmptySized, ClockConstants
  <2> QED
    BY <2>1, <2>2 DEF Filled, Counted, Due, Correcting
<1>8. CASE UNCHANGED cvars
  BY <1>8 DEF cvars, vars, clock, windows, Filled, Counted, Due, Correcting
<1> QED
  BY <1>1, <1>2, <1>3, <1>4, <1>5, <1>6, <1>7, <1>8 DEF CNext, CSteps

(* An estimate is made of as many offsets as options -n and -N ask for,
   although the pulses a correction takes are not counted (ppsd.c:487): the
   drift's window keeps the last ones, and the offset's window is emptied
   after a correction, when the count is a multiple of -n. *)
THEOREM EstimatesFromFullWindows == CSpec => []WindowsFull
<1>1. Filled => WindowsFull
  BY DEF Filled, WindowsFull
<1> QED
  BY <1>1, FilledInit, FilledStep, PTL DEF CSpec
-----------------------------------------------------------------------------
(* What is evaluated from a window.  A fraction has a positive denominator. *)

Fractions == Int \X (Nat \ {0})

LEMMA SameSum == \A f : \A k : M!SumTo(f, k) = SumTo(f, k)
BY DEF M!SumTo, SumTo

(* roundl, of a positive fraction and of any other. *)
LEMMA NearestBetween ==
    ASSUME NEW c \in Int, NEW b \in Nat \ {0}, NEW l \in Int, NEW h \in Int,
           l * b <= c, c <= h * b
    PROVE  (2 * c + b) \div (2 * b) \in l .. h
<1> DEFINE x == 2 * c + b y == 2 * b u == x \div y
<1>1. x \in Int /\ y \in Int /\ y > 0
  OBVIOUS
<1>2. u \in Int /\ x = u * y + (x % y) /\ x % y \in 0 .. y - 1
  <2> HIDE DEF x, y
  <2>1. x = (x \div y) * y + (x % y)
    BY <1>1, DivIdentity, Zenon
  <2>2. x \div y \in Int /\ x % y \in 0 .. y - 1
    BY <1>1
  <2> QED
    BY <2>1, <2>2
<1> HIDE DEF u
<1>3. x - (u * y) \in 0 .. y - 1
  <2> HIDE DEF x, y
  <2>1. u * y \in Int
    BY <1>1, <1>2
  <2> QED
    BY <1>1, <1>2, <2>1
<1>4. l * b \in Int /\ h * b \in Int /\ u * b \in Int /\ u * y = 2 * (u * b)
  BY <1>2
<1>5. 0 <= 2 * c + b - 2 * (u * b) /\ 2 * c + b - 2 * (u * b) < 2 * b
  BY <1>3, <1>4
<1>6. ASSUME u > h PROVE FALSE
  <2>1. (h + 1) * b <= u * b
    BY <1>2, <1>6
  <2>2. (h + 1) * b = h * b + b
    OBVIOUS
  <2> QED
    BY <1>4, <1>5, <2>1, <2>2
<1>7. ASSUME u < l PROVE FALSE
  <2>1. (u + 1) * b <= l * b
    BY <1>2, <1>7
  <2>2. (u + 1) * b = u * b + b
    BY <1>2
  <2> QED
    BY <1>4, <1>5, <2>1, <2>2
<1> QED
  BY <1>2, <1>6, <1>7 DEF u

LEMMA RoundedBetween ==
    ASSUME NEW a \in Int, NEW b \in Nat \ {0}, NEW lo \in Int, NEW hi \in Int,
           lo * b <= a, a <= hi * b
    PROVE  M!Rounded(<<a, b>>) \in lo .. hi
<1>1. CASE a < 0
  <2>1. -a \in Int /\ -lo \in Int /\ -hi \in Int
    OBVIOUS
  <2>2. (-hi) * b <= -a /\ -a <= (-lo) * b
    OBVIOUS
  <2>3. (2 * (-a) + b) \div (2 * b) \in -hi .. -lo
    BY <2>1, <2>2, NearestBetween
  <2> QED
    BY <1>1, <2>3 DEF M!Rounded
<1>2. CASE ~(a < 0)
  <2>1. (2 * a + b) \div (2 * b) \in lo .. hi
    BY NearestBetween
  <2> QED
    BY <1>2, <2>1 DEF M!Rounded
<1> QED
  BY <1>1, <1>2

LEMMA RoundedType == \A q \in Fractions : M!Rounded(q) \in Int
<1> SUFFICES ASSUME NEW a \in Int, NEW b \in Nat \ {0} PROVE M!Rounded(<<a, b>>) \in Int
  BY DEF Fractions
<1> DEFINE m == IF a < 0 THEN -a ELSE a
<1>1. m \in Nat /\ -m <= a /\ a <= m
  OBVIOUS
<1> HIDE DEF m
<1>2. (-m) * b <= -m /\ m <= m * b /\ -m \in Int
  BY <1>1
<1>3. (-m) * b <= a /\ a <= m * b
  <2>1. (-m) * b \in Int /\ m * b \in Int
    BY <1>1
  <2> QED
    BY <1>1, <1>2, <2>1
<1>4. M!Rounded(<<a, b>>) \in -m .. m
  BY <1>1, <1>2, <1>3, RoundedBetween
<1> QED
  BY <1>4

(* The root of a variance exists: the first r whose upper half is above it. *)
LEMMA RootType ==
    ASSUME NEW a \in Nat, NEW b \in Nat \ {0}, NEW x, x = M!RoundedRoot(<<a, b>>)
    PROVE  x \in Nat /\ (x > 0 => (2 * x - 1) * (2 * x - 1) * b <= 4 * a)
<1> DEFINE Above(r) == (2 * r + 1) * (2 * r + 1) * b > 4 * a
           T == {r \in Nat : Above(r)}
<1>1. a \in T
  <2>1. (2 * a + 1) * (2 * a + 1) = 4 * (a * a) + 4 * a + 1 /\ a * a >= 0 /\ a * a \in Int
    OBVIOUS
  <2> DEFINE c == (2 * a + 1) * (2 * a + 1)
  <2>2. c \in Nat /\ c > 4 * a
    BY <2>1
  <2> HIDE DEF c
  <2>3. c * b >= c
    BY <2>2
  <2>4. c * b \in Int
    BY <2>2
  <2>5. c * b > 4 * a
    BY <2>2, <2>3, <2>4
  <2> QED
    BY <2>5 DEF c
<1>2. T # {} /\ T \subseteq Nat
  BY <1>1
<1> HIDE DEF T
<1>3. PICK r \in T : \A n \in T : ~(<<n, r>> \in Below)
  BY <1>2, BelowWellFounded, WFMin
<1>4. r \in Nat /\ Above(r)
  BY <1>3 DEF T
<1>5. r \in 0 .. a
  <2> HIDE DEF Above
  <2>1. ~(<<a, r>> \in Below)
    BY <1>1, <1>3
  <2>2. ~(a < r)
    BY <1>4, <2>1, BelowPair
  <2> QED
    BY <1>4, <2>2
<1>6. ASSUME r > 0 PROVE (2 * r - 1) * (2 * r - 1) * b <= 4 * a
  <2>1. r - 1 \in Nat /\ r - 1 < r
    BY <1>4, <1>6
  <2>2. r - 1 \notin T
    BY <1>3, <1>4, <2>1, BelowPair
  <2>3. ~Above(r - 1)
    BY <2>1, <2>2 DEF T
  <2>4. 2 * (r - 1) + 1 = 2 * r - 1
    BY <1>4
  <2>5. (2 * r - 1) * (2 * r - 1) * b \in Int
    BY <1>4
  <2> QED
    BY <2>3, <2>4, <2>5
<1> DEFINE Root(n) == /\ (2 * n + 1) * (2 * n + 1) * b > 4 * a
                      /\ n > 0 => (2 * n - 1) * (2 * n - 1) * b <= 4 * a
<1>7. \E n \in 0 .. a : Root(n)
  BY <1>4, <1>5, <1>6
<1>8. M!RoundedRoot(<<a, b>>) = CHOOSE n \in 0 .. a : Root(n)
  BY DEF M!RoundedRoot
<1> HIDE DEF Root
<1>9. \E n : n \in 0 .. a /\ Root(n)
  BY <1>7
<1>10. x = CHOOSE n : n \in 0 .. a /\ Root(n)
  BY <1>8, Zenon
<1>11. x \in 0 .. a /\ Root(x)
  BY <1>9, <1>10, Zenon
<1> QED
  BY <1>11 DEF Root

(* The slope of the least squares line is between the smallest and the largest
   difference of two neighbours: nothing in the window counts negatively. *)
Rises(w, k, lo, hi) ==
    \A i \in 1 .. k - 1 : lo <= w[i + 1] - w[i] /\ w[i + 1] - w[i] <= hi

LEMMA SlopeBetween ==
    ASSUME NEW k \in Nat, 0 < k, NEW w, \A i \in 1 .. k : w[i] \in Int,
           NEW lo \in Int, NEW hi \in Int, Rises(w, k, lo, hi),
           NEW g, \A i \in 1 .. k : g[i] = (2 * i - k - 1) * w[i]
    PROVE  /\ SumTo(g, k) \in Int
           /\ lo * (k * (k * k - 1)) <= 6 * SumTo(g, k)
           /\ 6 * SumTo(g, k) <= hi * (k * (k * k - 1))
<1> DEFINE m == [i \in 1 .. k |-> i * w[i]]
           T(n) == SumTo(w, n)
           I(n) == SumTo(m, n)
           P(n) == n * w[n + 1] - T(n)
           C(n) == 2 * I(n) - (n + 1) * T(n)
<1>1. \A i \in 1 .. k : m[i] \in Int /\ m[i] = i * w[i]
  OBVIOUS
<1> HIDE DEF m
<1>2. \A n \in 0 .. k : T(n) \in Int /\ I(n) \in Int
  BY <1>1, SumType
<1>3. T(0) = 0 /\ I(0) = 0
  BY SumStep
<1>4. ASSUME NEW n \in 0 .. k - 1
      PROVE  /\ T(n + 1) = T(n) + w[n + 1]
             /\ I(n + 1) = I(n) + (n + 1) * w[n + 1]
  <2>1. n \in Nat /\ n + 1 \in 1 .. k
    OBVIOUS
  <2>2. m[n + 1] = (n + 1) * w[n + 1]
    BY <1>1, <2>1
  <2> QED
    BY <2>1, <2>2, SumStep
<1> HIDE DEF T, I
<1>5. ASSUME NEW n \in 0 .. k - 1
      PROVE  lo * (n * (n + 1)) <= 2 * P(n) /\ 2 * P(n) <= hi * (n * (n + 1))
  <2> DEFINE S == {j \in Nat : j <= k - 1 =>
                       /\ lo * (j * (j + 1)) <= 2 * P(j)
                       /\ 2 * P(j) <= hi * (j * (j + 1))}
  <2>1. 0 \in S
    BY <1>3
  <2>2. ASSUME NEW j \in Nat, j \in S PROVE j + 1 \in S
    <3> SUFFICES ASSUME j + 1 <= k - 1
                 PROVE  /\ lo * ((j + 1) * ((j + 1) + 1)) <= 2 * P(j + 1)
                        /\ 2 * P(j + 1) <= hi * ((j + 1) * ((j + 1) + 1))
      OBVIOUS
    <3> DEFINE a == w[j + 1] b == w[(j + 1) + 1] t == T(j)
    <3>1. a \in Int /\ b \in Int /\ t \in Int /\ T(j + 1) = t + a
      BY <1>2, <1>4
    <3>2. lo <= b - a /\ b - a <= hi
      <4>1. j + 1 \in 1 .. k - 1
        OBVIOUS
      <4> QED
        BY <4>1 DEF Rises
    <3>3. lo * (j * (j + 1)) <= 2 * (j * a - t) /\ 2 * (j * a - t) <= hi * (j * (j + 1))
      BY <2>2
    <3>4. P(j + 1) = (j + 1) * b - (t + a)
      BY <3>1
    <3> HIDE DEF a, b, t, P
    <3>5. (j + 1) * b - (t + a) = (j + 1) * (b - a) + (j * a - t)
      BY <3>1
    <3>6. (j + 1) * lo <= (j + 1) * (b - a) /\ (j + 1) * (b - a) <= (j + 1) * hi
      BY <3>1, <3>2
    <3>7. /\ lo * ((j + 1) * ((j + 1) + 1)) = lo * (j * (j + 1)) + 2 * ((j + 1) * lo)
          /\ hi * ((j + 1) * ((j + 1) + 1)) = hi * (j * (j + 1)) + 2 * ((j + 1) * hi)
      OBVIOUS
    <3>8. /\ lo * (j * (j + 1)) \in Int /\ hi * (j * (j + 1)) \in Int
          /\ (j + 1) * lo \in Int /\ (j + 1) * hi \in Int
          /\ (j + 1) * (b - a) \in Int /\ j * a - t \in Int
      BY <3>1
    <3> QED
      BY <3>3, <3>4, <3>5, <3>6, <3>7, <3>8
  <2>3. Nat \subseteq S
    <3> HIDE DEF S
    <3> QED
      BY <2>1, <2>2, Induction
  <2> QED
    BY <2>3
<1>6. lo * (k * (k * k - 1)) <= 6 * C(k) /\ 6 * C(k) <= hi * (k * (k * k - 1))
  <2> DEFINE S == {j \in Nat : j <= k =>
                       /\ lo * (j * (j * j - 1)) <= 6 * C(j)
                       /\ 6 * C(j) <= hi * (j * (j * j - 1))}
  <2>1. 0 \in S
    BY <1>3
  <2>2. ASSUME NEW j \in Nat, j \in S PROVE j + 1 \in S
    <3> SUFFICES ASSUME j + 1 <= k
                 PROVE  /\ lo * ((j + 1) * ((j + 1) * (j + 1) - 1)) <= 6 * C(j + 1)
                        /\ 6 * C(j + 1) <= hi * ((j + 1) * ((j + 1) * (j + 1) - 1))
      OBVIOUS
    <3> DEFINE a == w[j + 1] t == T(j) i == I(j)
    <3>1. a \in Int /\ t \in Int /\ i \in Int
          /\ T(j + 1) = t + a /\ I(j + 1) = i + (j + 1) * a
      BY <1>2, <1>4
    <3>2. C(j + 1) = 2 * (i + (j + 1) * a) - ((j + 1) + 1) * (t + a)
      BY <3>1
    <3>3. C(j) = 2 * i - (j + 1) * t /\ P(j) = j * a - t
      OBVIOUS
    <3>4. lo * (j * (j * j - 1)) <= 6 * C(j) /\ 6 * C(j) <= hi * (j * (j * j - 1))
      BY <2>2
    <3>5. lo * (j * (j + 1)) <= 2 * P(j) /\ 2 * P(j) <= hi * (j * (j + 1))
      BY <1>5
    <3> HIDE DEF a, t, i, C, P
    <3>6. C(j + 1) = C(j) + P(j) /\ C(j) \in Int /\ P(j) \in Int
      BY <3>1, <3>2, <3>3
    <3>7. /\ lo * ((j + 1) * ((j + 1) * (j + 1) - 1))
                = lo * (j * (j * j - 1)) + 3 * (lo * (j * (j + 1)))
          /\ hi * ((j + 1) * ((j + 1) * (j + 1) - 1))
                = hi * (j * (j * j - 1)) + 3 * (hi * (j * (j + 1)))
      OBVIOUS
    <3>8. /\ lo * (j * (j * j - 1)) \in Int /\ lo * (j * (j + 1)) \in Int
          /\ hi * (j * (j * j - 1)) \in Int /\ hi * (j * (j + 1)) \in Int
      OBVIOUS
    <3> QED
      BY <3>4, <3>5, <3>6, <3>7, <3>8
  <2>3. Nat \subseteq S
    <3> HIDE DEF S
    <3> QED
      BY <2>1, <2>2, Induction
  <2> QED
    BY <2>3
<1>7. SumTo(g, k) = C(k) /\ C(k) \in Int
  <2> DEFINE a == -(k + 1)
  <2>1. a \in Int
    OBVIOUS
  <2>2. \A i \in 1 .. k : (2 * i - k - 1) * w[i] = 2 * (i * w[i]) + a * w[i]
    OBVIOUS
  <2>3. \A i \in 1 .. k : m[i] \in Int /\ w[i] \in Int /\ g[i] = 2 * m[i] + a * w[i]
    BY <1>1, <2>2
  <2>4. a * T(k) = -((k + 1) * T(k)) /\ T(k) \in Int /\ I(k) \in Int
    BY <1>2
  <2> HIDE DEF a
  <2>5. SumTo(g, k) = 2 * SumTo(m, k) + a * SumTo(w, k)
    BY <2>1, <2>3, SumLinear
  <2> QED
    BY <2>4, <2>5 DEF T, I
<1> QED
  <2> HIDE DEF C
  <2> QED
    BY <1>6, <1>7

LEMMA MomentTypes ==
    ASSUME NEW w \in Seq(Int)
    PROVE  /\ M!MeanOf(w) \in Fractions /\ M!DriftOf(w) \in Fractions
           /\ M!RoundedRoot(M!VarianceOf(w)) \in Nat
<1> DEFINE k == Len(w)
<1>1. k \in Nat /\ \A i \in 1 .. k : w[i] \in Int
  BY LenProperties, ElementOfSeq
<1>2. M!Zero \in Fractions
  BY DEF M!Zero, Fractions
<1>3. CASE k <= 1
  <2>1. M!Few(w)
    BY <1>3 DEF M!Few
  <2>2. M!MeanOf(w) = M!Zero /\ M!DriftOf(w) = M!Zero /\ M!VarianceOf(w) = <<0, 1>>
    BY <2>1 DEF M!MeanOf, M!DriftOf, M!VarianceOf, M!Zero
  <2>3. M!RoundedRoot(<<0, 1>>) \in Nat
    BY RootType
  <2> QED
    BY <1>2, <2>2, <2>3
<1>4. CASE k > 1
  <2> DEFINE t == M!Total(w) q == M!Squares(w)
             g == [i \in 1 .. k |-> (2 * i - k - 1) * w[i]]
             x == [i \in DOMAIN w |-> w[i] * w[i]]
  <2>1. ~M!Few(w)
    BY <1>1, <1>4 DEF M!Few
  <2>2. /\ M!MeanOf(w) = <<t, k>>
        /\ M!VarianceOf(w) = <<k * q - t * t, k * (k - 1)>>
        /\ M!DriftOf(w) = <<6 * SumTo(g, k), k * (k * k - 1)>>
    BY <2>1, SameSum DEF M!MeanOf, M!VarianceOf, M!DriftOf
  <2>3. t = SumTo(w, k) /\ q = SumTo(x, k)
    BY SameSum DEF M!Total, M!Squares
  <2>4. \A i \in 1 .. k : x[i] = w[i] * w[i] /\ g[i] \in Int
    BY <1>1, LenProperties
  <2> HIDE DEF t, q, g, x
  <2>5. k * q - t * t \in Nat
    BY <1>1, <2>3, <2>4, SquaresAbove
  <2>6. SumTo(g, k) \in Int /\ t \in Int
    <3>1. \A n \in 0 .. k : SumTo(g, n) \in Int
      BY <1>1, <2>4, SumType
    <3>2. \A n \in 0 .. k : SumTo(w, n) \in Int
      BY <1>1, SumType
    <3> QED
      BY <1>1, <2>3, <3>1, <3>2
  <2> HIDE DEF k
  <2>7. k * (k - 1) \in Nat \ {0} /\ k \in Nat \ {0} /\ k * (k * k - 1) \in Nat \ {0}
    <3>1. k * k >= 1 * k /\ k * k \in Int
      BY <1>1, <1>4
    <3>2. k * k - 1 > 0 /\ k - 1 > 0 /\ k > 0
      BY <1>1, <1>4, <3>1
    <3>3. ASSUME NEW a \in Int, NEW b \in Int, a > 0, b > 0 PROVE a * b \in Nat \ {0}
      BY <3>3
    <3> QED
      BY <1>1, <3>1, <3>2, <3>3
  <2>8. M!RoundedRoot(M!VarianceOf(w)) \in Nat
    BY <2>2, <2>5, <2>7, RootType
  <2>9. 6 * SumTo(g, k) \in Int
    BY <2>6
  <2>10. /\ <<t, k>> \in Fractions
         /\ <<6 * SumTo(g, k), k * (k * k - 1)>> \in Fractions
    BY <2>6, <2>7, <2>9 DEF Fractions
  <2> QED
    BY <2>2, <2>8, <2>10, Zenon
<1> QED
  BY <1>1, <1>3, <1>4

(* The deviation of a window is no more than its width. *)
LEMMA DeviationBelow ==
    ASSUME NEW w \in Seq(Int), Len(w) > 1, NEW lo \in Int, NEW d \in Nat,
           \A i \in 1 .. Len(w) : lo <= w[i] /\ w[i] <= lo + d
    PROVE  M!RoundedRoot(M!VarianceOf(w)) <= d
<1> DEFINE k == Len(w) t == M!Total(w) q == M!Squares(w)
           x == [i \in DOMAIN w |-> w[i] * w[i]]
           a == k * q - t * t  b == k * (k - 1)  r == M!RoundedRoot(M!VarianceOf(w))
<1>1. k \in Nat /\ k > 1 /\ \A i \in 1 .. k : w[i] \in Int /\ x[i] = w[i] * w[i]
  BY LenProperties, ElementOfSeq
<1>2. M!VarianceOf(w) = <<a, b>>
  BY <1>1 DEF M!VarianceOf, M!Few
<1>3. t = SumTo(w, k) /\ q = SumTo(x, k)
  BY SameSum DEF M!Total, M!Squares
<1>4. r = M!RoundedRoot(<<a, b>>)
  BY <1>2
<1> HIDE DEF t, q, x, r
<1>5. a \in Nat /\ 4 * a <= (k * d) * (k * d)
  BY <1>1, <1>3, SquaresAbove, SquaresBelow
<1> HIDE DEF a, k
<1>6. b \in Nat \ {0} /\ k * k <= 2 * b /\ k * k \in Nat
  <2>1. k * (k - 2) >= 0 /\ k * (k - 1) > 0
    BY <1>1
  <2>2. 2 * (k * (k - 1)) - k * k = k * (k - 2)
    BY <1>1
  <2>3. k * k \in Nat /\ k * (k - 1) \in Int /\ k * (k - 2) \in Int
    BY <1>1
  <2> QED
    BY <2>1, <2>2, <2>3
<1> HIDE DEF b
<1>7. r \in Nat /\ (r > 0 => (2 * r - 1) * (2 * r - 1) * b <= 4 * a)
  BY <1>4, <1>5, <1>6, RootType
<1>8. SUFFICES ASSUME r > d PROVE FALSE
  BY <1>7 DEF r
<1> DEFINE m == 2 * r - 1 n == 2 * d + 1
<1>9. m \in Nat /\ n \in Nat /\ n <= m /\ n > 0 /\ m * m * b <= 4 * a
  BY <1>7, <1>8
<1> HIDE DEF m
<1>10. n * n <= m * m /\ n * n \in Nat /\ m * m \in Nat
  <2> HIDE DEF n
  <2>1. n * n <= m * n /\ m * n <= m * m
    BY <1>9
  <2>2. n * n \in Nat /\ m * m \in Nat /\ m * n \in Nat
    BY <1>9
  <2> QED
    BY <2>1, <2>2
<1>11. n * n = 4 * (d * d) + 4 * d + 1 /\ d * d \in Nat
  OBVIOUS
<1> HIDE DEF n
<1> DEFINE u == m * m v == d * d
<1>12. u \in Nat /\ v \in Nat /\ 2 * v + 1 <= u
  BY <1>10, <1>11
<1>13. u * b <= 4 * a
  BY <1>9
<1>14. (k * d) * (k * d) = (k * k) * v
  BY <1>1
<1> HIDE DEF u, v
<1>15. (k * k) * v <= (2 * b) * v
  <2> DEFINE e == k * k
  <2>1. e \in Nat /\ e <= 2 * b
    BY <1>6
  <2> HIDE DEF e
  <2>2. e * v <= (2 * b) * v
    BY <1>6, <1>12, <2>1
  <2> QED
    BY <2>2 DEF e
<1>16. (2 * v + 1) * b <= u * b
  BY <1>6, <1>12
<1>17. (2 * v + 1) * b = (2 * b) * v + b
  BY <1>6, <1>12
<1>18. u * b \in Nat /\ (2 * b) * v \in Nat /\ (k * k) * v \in Nat
  BY <1>6, <1>12
<1> QED
  BY <1>5, <1>6, <1>13, <1>14, <1>15, <1>16, <1>17, <1>18

LEMMA DriftBetween ==
    ASSUME NEW w \in Seq(Int), Len(w) > 1, NEW lo \in Int, NEW hi \in Int,
           Rises(w, Len(w), lo, hi)
    PROVE  M!Rounded(M!DriftOf(w)) \in lo .. hi
<1> DEFINE k == Len(w)
           g == [i \in 1 .. k |-> (2 * i - k - 1) * w[i]]
<1>1. k \in Nat /\ k > 1 /\ \A i \in 1 .. k : w[i] \in Int
  BY LenProperties, ElementOfSeq
<1>2. M!DriftOf(w) = <<6 * SumTo(g, k), k * (k * k - 1)>>
  BY <1>1, SameSum DEF M!DriftOf, M!Few
<1>3. \A i \in 1 .. k : g[i] = (2 * i - k - 1) * w[i]
  OBVIOUS
<1> HIDE DEF g
<1>4. /\ SumTo(g, k) \in Int
      /\ lo * (k * (k * k - 1)) <= 6 * SumTo(g, k)
      /\ 6 * SumTo(g, k) <= hi * (k * (k * k - 1))
  BY <1>1, <1>3, SlopeBetween
<1>5. k * (k * k - 1) \in Nat \ {0}
  <2> HIDE DEF k
  <2>1. k * k >= 1 * k /\ k * k \in Int
    BY <1>1
  <2>2. k * k - 1 > 0 /\ k * k - 1 \in Int
    BY <1>1, <2>1
  <2> QED
    BY <1>1, <2>2
<1>6. 6 * SumTo(g, k) \in Int
  BY <1>4
<1> QED
  BY <1>2, <1>4, <1>5, <1>6, RoundedBetween

LEMMA OffsetEstimateType ==
    ASSUME off_stats \in Seq(Int)
    PROVE  OffsetEstimate \in Int
<1>1. M!MeanOf(off_stats) \in Fractions /\ M!DriftOf(off_stats) \in Fractions
  BY MomentTypes
<1>2. ASSUME NEW p \in Fractions, NEW q \in Fractions, NEW n \in Nat
      PROVE  M!Plus(p, M!Times(<<n + 2, 2>>, q)) \in Fractions
  <2>1. PICK a \in Int, b \in Nat \ {0} : p = <<a, b>>
    BY DEF Fractions
  <2>2. PICK c \in Int, d \in Nat \ {0} : q = <<c, d>>
    BY DEF Fractions
  <2>3. M!Plus(p, M!Times(<<n + 2, 2>>, q))
            = <<a * (2 * d) + ((n + 2) * c) * b, b * (2 * d)>>
    BY <2>1, <2>2 DEF M!Plus, M!Times
  <2>4. a * (2 * d) + ((n + 2) * c) * b \in Int /\ b * (2 * d) \in Nat \ {0}
    <3>1. ((n + 2) * c) * b \in Int /\ a * (2 * d) \in Int
      OBVIOUS
    <3>2. b * d > 0 /\ b * d \in Int /\ b * (2 * d) = 2 * (b * d)
      OBVIOUS
    <3> QED
      BY <3>1, <3>2
  <2> QED
    BY <2>3, <2>4 DEF Fractions
<1>3. Len(off_stats) \in Nat
  BY LenProperties
<1>4. /\ M!Rounded(M!Plus(M!MeanOf(off_stats),
                          M!Times(<<Len(off_stats) + 2, 2>>, M!DriftOf(off_stats)))) \in Int
      /\ M!Rounded(M!DriftOf(off_stats)) \in Int
  BY <1>1, <1>2, <1>3, RoundedType
<1> QED
  BY <1>4 DEF OffsetEstimate

-----------------------------------------------------------------------------
(* What the windows hold. *)

Last(w) == w[Len(w)]

LEMMA PushRises ==
    ASSUME NEW w \in Seq(Int), NEW v, NEW n \in Nat \ {0}, Len(w) <= n,
           NEW o \in Int, Pushed(w, v, n, o),
           NEW lo \in Int, NEW hi \in Int, Rises(w, Len(w), lo, hi),
           Len(w) > 0 => lo <= o - Last(w) /\ o - Last(w) <= hi
    PROVE  /\ v \in Seq(Int) /\ Len(v) > 0 /\ Last(v) = o
           /\ Rises(v, Len(v), lo, hi)
<1> DEFINE k == Len(w)
<1>1. k \in Nat /\ \A i \in 1 .. k : w[i] \in Int
  BY LenProperties, ElementOfSeq
<1>2. CASE k # n
  <2>1. v = Append(w, o)
    BY <1>2 DEF Pushed
  <2>2. /\ v \in Seq(Int) /\ Len(v) = k + 1 /\ v[k + 1] = o
        /\ \A i \in 1 .. k : v[i] = w[i]
    BY <2>1, AppendProperties
  <2>3. ASSUME NEW i \in 1 .. k
        PROVE  lo <= v[i + 1] - v[i] /\ v[i + 1] - v[i] <= hi
    <3>1. CASE i = k
      BY <1>1, <2>2, <3>1 DEF Last
    <3>2. CASE i # k
      <4>1. i \in 1 .. k - 1 /\ i + 1 \in 1 .. k
        BY <1>1, <3>2
      <4>2. v[i] = w[i] /\ v[i + 1] = w[i + 1]
        BY <2>2, <4>1
      <4> QED
        BY <4>1, <4>2 DEF Rises
    <3> QED
      BY <3>1, <3>2
  <2> QED
    BY <1>1, <2>2, <2>3 DEF Rises, Last
<1>3. CASE k = n
  <2> DEFINE u == Tail(w)
  <2>1. w # << >> /\ k > 0
    BY <1>3
  <2>2. u \in Seq(Int) /\ Len(u) = k - 1 /\ \A i \in 1 .. k - 1 : u[i] = w[i + 1]
    BY <2>1, HeadTailProperties
  <2>3. v = Append(u, o)
    BY <1>3 DEF Pushed
  <2> HIDE DEF u
  <2>4. /\ v \in Seq(Int) /\ Len(v) = k /\ v[k] = o
        /\ \A i \in 1 .. k - 1 : v[i] = u[i]
    <3>1. /\ v \in Seq(Int) /\ Len(v) = Len(u) + 1 /\ v[Len(u) + 1] = o
          /\ \A i \in 1 .. Len(u) : v[i] = u[i]
      BY <2>2, <2>3, AppendProperties
    <3>2. Len(u) + 1 = k
      BY <1>1, <2>2
    <3> QED
      BY <2>2, <3>1, <3>2
  <2>5. ASSUME NEW i \in 1 .. k - 1
        PROVE  lo <= v[i + 1] - v[i] /\ v[i + 1] - v[i] <= hi
    <3>1. v[i] = w[i + 1]
      BY <2>2, <2>4
    <3>2. CASE i = k - 1
      <4>1. i + 1 = k
        BY <1>1, <3>2
      <4> QED
        BY <1>1, <2>1, <2>4, <3>1, <4>1 DEF Last
    <3>3. CASE i # k - 1
      <4>1. i + 1 \in 1 .. k - 1
        BY <1>1, <3>3
      <4>2. v[i + 1] = u[i + 1]
        BY <2>4, <4>1
      <4>3. u[i + 1] = w[(i + 1) + 1]
        BY <2>2, <4>1
      <4> QED
        BY <3>1, <4>1, <4>2, <4>3 DEF Rises
    <3> QED
      BY <3>2, <3>3
  <2> QED
    BY <2>1, <2>4, <2>5 DEF Rises, Last
<1> QED
  BY <1>2, <1>3

LEMMA EmptyRises ==
    /\ << >> \in Seq(Int) /\ Len(<< >>) = 0
    /\ \A lo, hi : Rises(<< >>, Len(<< >>), lo, hi)
BY EmptySeq DEF Rises

(* What the cumulated offset says the corrections have done, and the clock's
   change in the second in progress will only have done at the next pulse. *)
Pending == CASE pc = "fine" -> adj * PerTick
             [] pc = "trim" -> adj
             [] OTHER -> 0

(* The offset of a clock that is never corrected, at the last pulse. *)
Uncorrected == Offset + cum_off - Pending

(* The daemon is not correcting an offset. *)
Watching == {"wait", "offset", "drift"}

ClockTyped ==
    /\ error \in Int
    /\ off_stats \in Seq(Int) /\ drift_stats \in Seq(Int)
    /\ pc \in {"down", "first"} => off_stats = << >> /\ drift_stats = << >>

Tracked ==
    /\ Len(drift_stats) > 0 => Last(drift_stats) - Uncorrected \in Jitters
    /\ pc \in Watching /\ Len(off_stats) > 0 => Last(off_stats) - Offset \in Jitters

LEMMA ClockTypes ==
    ASSUME IInv, error \in Int
    PROVE  /\ Offset \in Int /\ Pending \in Int /\ Uncorrected \in Int
           /\ NaturalDrift \in Int /\ freq \in -MaxFreq .. MaxFreq
           /\ tick \in Int /\ adj \in Int /\ off \in Int /\ cum_off \in Int
           /\ behind = 0 /\ late \in {0, 1} /\ late + 1 > 0
           /\ MaxFreq \in Nat /\ PerTick \in Nat
<1>1. /\ NaturalDrift \in Int /\ freq \in -MaxFreq .. MaxFreq
      /\ tick \in Int /\ adj \in Int /\ off \in Int /\ cum_off \in Int
      /\ MaxFreq \in Nat /\ PerTick \in Nat
  BY Types, Constants DEF IInv, TypeOK
<1>2. behind = 0 /\ late \in {0, 1} /\ late + 1 > 0
  BY ClockConstants DEF IInv, TypeOK
<1>3. adj * PerTick \in Int
  BY <1>1
<1>4. Pending \in Int
  BY <1>1, <1>3 DEF Pending
<1>5. Offset \in Int
  BY ClockConstants DEF Offset, Stamp, EdgeDelay
<1> QED
  BY <1>1, <1>2, <1>4, <1>5 DEF Uncorrected

(* What is measured. *)
LEMMA MeasureIs ==
    ASSUME Measure, UNCHANGED edge, behind' = 0, pc' \notin {"fine", "trim"},
           error' \in Int, cum_off' \in Int
    PROVE  /\ Offset' \in Int /\ Uncorrected' = Offset' + cum_off'
           /\ \E j \in Jitters :
                  /\ Pushed(off_stats, off_stats', OffNb, Offset' + j)
                  /\ Pushed(drift_stats, drift_stats', DriftNb, Uncorrected' + j)
<1>1. Offset' \in Int /\ Offset' = Stamp(error', edge) - HwOffset
  BY ClockConstants DEF Offset, Stamp, EdgeDelay
<1>2. Uncorrected' = Offset' + cum_off'
  <2>1. Pending' = 0
    BY DEF Pending
  <2> QED
    BY <1>1, <2>1 DEF Uncorrected
<1>3. PICK j \in Jitters :
         LET offset == Stamp(error', edge) + j - HwOffset + behind' * Second
         IN  OffStats!Push(offset) /\ DriftStats!Push(offset + cum_off')
  BY DEF Measure
<1> DEFINE offset == Stamp(error', edge) + j - HwOffset + behind' * Second
<1>4. j \in Int /\ Stamp(error', edge) \in Int /\ HwOffset \in Int
  BY ClockConstants DEF Stamp, EdgeDelay
<1>5. behind' * Second = 0
  BY Constants
<1>6. offset = Offset' + j /\ offset + cum_off' = Uncorrected' + j
  BY <1>1, <1>2, <1>4, <1>5
<1>7. /\ Pushed(off_stats, off_stats', OffNb, offset)
      /\ Pushed(drift_stats, drift_stats', DriftNb, offset + cum_off')
  BY <1>3 DEF OffStats!Push, DriftStats!Push, Pushed
<1> HIDE DEF offset
<1>8. /\ Pushed(off_stats, off_stats', OffNb, Offset' + j)
      /\ Pushed(drift_stats, drift_stats', DriftNb, Uncorrected' + j)
  BY <1>6, <1>7
<1> QED
  BY <1>1, <1>2, <1>8

(* A second passes: whatever is being corrected, the uncorrected clock gains
   what the oscillator and the frequency make it gain, unless the frequency
   is clamped. *)
LEMMA SecondPasses ==
    ASSUME IInv, error \in Int, Wait \/ RunAgain \/ Coarse \/ Fine \/ Trim, CPulse
    PROVE  /\ Measure /\ UNCHANGED edge /\ behind' = 0
           /\ pc \notin {"down", "first"} /\ pc' \notin {"down", "first", "fine", "trim"}
           /\ pc \in Watching \/ pc' \notin Watching
           /\ error' \in Int /\ cum_off' \in Int
           /\ pc \in Watching => /\ Offset' = Offset + NaturalDrift + freq
                                 /\ cum_off' = cum_off
           /\ Uncorrected' = Uncorrected + NaturalDrift
                                 + (IF pc = "trim" THEN freq + adj ELSE freq)
<1>1. /\ Offset \in Int /\ Pending \in Int /\ Uncorrected \in Int
      /\ NaturalDrift \in Int /\ freq \in Int
      /\ tick \in Int /\ adj \in Int /\ cum_off \in Int
      /\ PerTick \in Nat /\ MaxBehind = 0 /\ behind = 0 /\ BootTick \in Int
      /\ PulseWidth \in Int /\ HwOffset \in Int
  BY ClockTypes, ClockConstants, Constants
<1>2. /\ Measure /\ UNCHANGED edge
      /\ error' = error + NaturalDrift + freq + (tick - BootTick) * PerTick
  <2>1. (tick - BootTick) * PerTick \in Int
    BY <1>1
  <2> QED
    BY <1>1, <2>1 DEF CPulse, Elapsed
<1>3. Stamped
  BY ClockConstants, NotLost DEF NoneLost, Wait, RunAgain, Coarse, Fine, Trim
<1>4. behind' = 0
  BY <1>1, <1>3 DEF Stamped
<1>5. /\ pc \notin {"down", "first"} /\ pc' \notin {"down", "first", "fine", "trim"}
      /\ pc \in Watching \/ pc' \notin Watching
  BY DEF Wait, RunAgain, Coarse, Fine, Trim, Watching
<1>6. (tick - BootTick) * PerTick \in Int
  BY <1>1
<1> DEFINE d == (tick - BootTick) * PerTick
<1>7. error' \in Int /\ Offset' = Offset + NaturalDrift + freq + d
  <2> HIDE DEF d
  <2>1. error' = error + NaturalDrift + freq + d /\ d \in Int
    BY <1>2, <1>6 DEF d
  <2> QED
    BY <1>1, <1>2, <2>1 DEF Offset, Stamp, EdgeDelay
<1>8. Pending' = 0
  BY <1>5 DEF Pending
<1> HIDE DEF d
<1>9. CASE Wait \/ RunAgain
  <2>1. pc = "wait" /\ cum_off' = cum_off
    BY <1>9 DEF Wait, RunAgain
  <2>2. tick = BootTick /\ Pending = 0
    BY <2>1, ClockConstants DEF IInv, Steering, Pending
  <2>3. d = 0
    BY <1>1, <2>2 DEF d
  <2> QED
    BY <1>1, <1>2, <1>4, <1>5, <1>6, <1>7, <1>8, <2>1, <2>2, <2>3
       DEF Uncorrected
<1>10. CASE Coarse
  <2>1. /\ pc = "coarse" /\ cum_off' = cum_off + adj * PerTick
        /\ tick = BootTick - adj /\ Pending = 0
    BY <1>10 DEF Coarse, IInv, Steering, Cut, Pending
  <2>2. d = -(adj * PerTick) /\ adj * PerTick \in Int
    BY <1>1, <2>1 DEF d
  <2>3. cum_off' \in Int
    BY <1>1, <2>1, <2>2
  <2> QED
    BY <1>1, <1>2, <1>4, <1>5, <1>6, <1>7, <1>8, <2>1, <2>2, <2>3
       DEF Uncorrected, Watching
<1>11. CASE Fine
  <2>1. /\ pc = "fine" /\ cum_off' = cum_off
        /\ tick = BootTick - adj /\ Pending = adj * PerTick
    BY <1>11 DEF Fine, IInv, Steering, Cut, Pending
  <2>2. d = -(adj * PerTick) /\ adj * PerTick \in Int
    BY <1>1, <2>1 DEF d
  <2> QED
    BY <1>1, <1>2, <1>4, <1>5, <1>6, <1>7, <1>8, <2>1, <2>2
       DEF Uncorrected, Watching
<1>12. CASE Trim
  <2>1. pc = "trim" /\ cum_off' = cum_off /\ Pending = adj
    BY <1>12 DEF Trim, Pending
  <2>2. tick = BootTick
    BY <2>1, ClockConstants DEF IInv, Steering
  <2>3. d = 0
    BY <1>1, <2>2 DEF d
  <2> QED
    BY <1>1, <1>2, <1>4, <1>5, <1>6, <1>7, <1>8, <2>1, <2>2, <2>3
       DEF Uncorrected, Watching
<1> QED
  BY <1>9, <1>10, <1>11, <1>12

LEMMA PushLast ==
    ASSUME NEW w \in Seq(Int), NEW v, NEW n \in Nat \ {0}, Len(w) <= n,
           NEW o \in Int, Pushed(w, v, n, o)
    PROVE  v \in Seq(Int) /\ Len(v) > 0 /\ Last(v) = o
<1>1. CASE Len(w) = n
  <2>1. w # << >>
    BY <1>1
  <2>2. Tail(w) \in Seq(Int) /\ v = Append(Tail(w), o)
    BY <1>1, <2>1, HeadTailProperties DEF Pushed
  <2> QED
    BY <2>2, AppendProperties, LenProperties DEF Last
<1>2. CASE Len(w) # n
  <2>1. v = Append(w, o)
    BY <1>2 DEF Pushed
  <2> QED
    BY <2>1, AppendProperties, LenProperties DEF Last
<1> QED
  BY <1>1, <1>2

(* How much two jitters differ, and how much the differences of neighbours
   differ from what the oscillator gains: in the offset's window, and in the
   drift's, where a second of trim may have been clamped. *)
Spread(J) == J \in Nat /\ \A a, b \in Jitters : a - b <= J

RisesBy(w, n) == Rises(w, Len(w), NaturalDrift - n, NaturalDrift + n)

Rising(J) ==
    /\ RisesBy(drift_stats, MaxFreq + PerTick + J)
    /\ pc \in Watching => RisesBy(off_stats, MaxFreq + J)

CInv(J) == IInv /\ Filled /\ ClockTyped /\ Tracked /\ Rising(J)

LEMMA WindowSizes ==
    ASSUME Filled
    PROVE  /\ OffNb \in Nat \ {0} /\ DriftNb \in Nat \ {0}
           /\ Len(off_stats) <= OffNb /\ Len(drift_stats) <= DriftNb
BY ClockConstants DEF Filled, Sized

(* The difference of two neighbours, from what the clock gained and jitters. *)
LEMMA Difference ==
    ASSUME NEW J, Spread(J), NEW l \in Int, NEW u \in Int, NEW n \in Int,
           NEW j \in Jitters, l - u \in Jitters,
           NEW lo \in Int, NEW hi \in Int, lo <= n - J, n + J <= hi
    PROVE  lo <= ((u + n) + j) - l /\ ((u + n) + j) - l <= hi
<1> DEFINE i == l - u
<1>1. i \in Jitters /\ j \in Int /\ i \in Int /\ J \in Nat
  BY JitterType DEF Spread
<1>2. i - j <= J /\ j - i <= J
  <2> HIDE DEF i
  <2> QED
    BY <1>1 DEF Spread
<1> QED
  BY <1>1, <1>2

(* A pulse, not the first: lo and hi bound what was between two neighbours of
   the drift's window, and what this second adds. *)
LEMMA PulseDrift ==
    ASSUME NEW J, Spread(J), IInv, Filled, ClockTyped, Tracked,
           Wait \/ RunAgain \/ Coarse \/ Fine \/ Trim, CPulse,
           NEW lo \in Int, NEW hi \in Int, Rises(drift_stats, Len(drift_stats), lo, hi),
           NEW g \in Int, g = IF pc = "trim" THEN freq + adj ELSE freq,
           lo <= NaturalDrift + g - J, NaturalDrift + g + J <= hi
    PROVE  /\ ClockTyped' /\ Tracked'
           /\ Rises(drift_stats', Len(drift_stats'), lo, hi)
<1>1. /\ Measure /\ UNCHANGED edge /\ behind' = 0
      /\ pc' \notin {"down", "first", "fine", "trim"}
      /\ error' \in Int /\ cum_off' \in Int
      /\ Uncorrected' = Uncorrected + NaturalDrift + g
  BY SecondPasses DEF ClockTyped
<1>2. /\ Offset' \in Int /\ Uncorrected' = Offset' + cum_off'
  BY <1>1, MeasureIs
<1>3. PICK j \in Jitters : /\ Pushed(off_stats, off_stats', OffNb, Offset' + j)
                           /\ Pushed(drift_stats, drift_stats', DriftNb, Uncorrected' + j)
  BY <1>1, MeasureIs
<1>4. /\ j \in Int /\ Offset' + j \in Int /\ Uncorrected' \in Int /\ Uncorrected' + j \in Int
      /\ (Offset' + j) - Offset' = j /\ (Uncorrected' + j) - Uncorrected' = j
  <2> DEFINE a == Offset' b == Uncorrected'
  <2>1. j \in Int
    BY JitterType
  <2>2. a \in Int /\ b \in Int
    BY <1>1, <1>2
  <2> HIDE DEF a, b
  <2>3. a + j \in Int /\ b + j \in Int /\ (a + j) - a = j /\ (b + j) - b = j
    BY <2>1, <2>2
  <2> QED
    BY <2>1, <2>2, <2>3 DEF a, b
<1>5. /\ off_stats' \in Seq(Int) /\ Last(off_stats') = Offset' + j
      /\ drift_stats' \in Seq(Int) /\ Last(drift_stats') = Uncorrected' + j
  BY <1>3, <1>4, PushLast, WindowSizes DEF ClockTyped
<1>6. ClockTyped'
  BY <1>1, <1>5 DEF ClockTyped
<1>7. Tracked'
  BY <1>4, <1>5 DEF Tracked
<1>8. ASSUME Len(drift_stats) > 0
      PROVE  /\ lo <= (Uncorrected' + j) - Last(drift_stats)
             /\ (Uncorrected' + j) - Last(drift_stats) <= hi
  <2> DEFINE l == Last(drift_stats) u == Uncorrected n == NaturalDrift + g
             c == Uncorrected'
  <2>1. l - u \in Jitters
    BY <1>8 DEF Tracked
  <2>2. u \in Int /\ NaturalDrift \in Int
    BY ClockTypes DEF ClockTyped
  <2>3. n \in Int /\ lo <= n - J /\ n + J <= hi
    <3>1. J \in Nat
      BY DEF Spread
    <3> QED
      BY <2>2, <3>1
  <2>4. l \in Int
    <3>1. Len(drift_stats) \in 1 .. Len(drift_stats)
      BY <1>8, LenProperties DEF ClockTyped
    <3> QED
      BY <3>1, ElementOfSeq DEF ClockTyped, Last
  <2>5. c = u + n
    <3>1. c = u + NaturalDrift + g
      BY <1>1
    <3> HIDE DEF c, u
    <3> QED
      BY <2>2, <3>1
  <2> HIDE DEF l, u, n, c
  <2>6. lo <= (c + j) - l /\ (c + j) - l <= hi
    BY <2>1, <2>2, <2>3, <2>4, <2>5, Difference
  <2> QED
    BY <2>6 DEF c, l
<1>9. Rises(drift_stats', Len(drift_stats'), lo, hi)
  <2> DEFINE o == Uncorrected' + j
  <2>1. /\ drift_stats \in Seq(Int) /\ DriftNb \in Nat \ {0} /\ Len(drift_stats) <= DriftNb
        /\ o \in Int /\ Pushed(drift_stats, drift_stats', DriftNb, o)
        /\ Len(drift_stats) > 0 => lo <= o - Last(drift_stats) /\ o - Last(drift_stats) <= hi
    BY <1>3, <1>4, <1>8, WindowSizes DEF ClockTyped
  <2> HIDE DEF o
  <2> QED
    BY <2>1, PushRises
<1> QED
  BY <1>6, <1>7, <1>9

LEMMA PulseOffsets ==
    ASSUME NEW J, Spread(J), IInv, Filled, ClockTyped, Tracked, Rising(J),
           Wait \/ RunAgain \/ Coarse \/ Fine \/ Trim, CPulse, pc' \in Watching
    PROVE  RisesBy(off_stats', MaxFreq + J)
<1>1. /\ Measure /\ UNCHANGED edge /\ behind' = 0 /\ pc \in Watching
      /\ pc' \notin {"down", "first", "fine", "trim"}
      /\ error' \in Int /\ cum_off' \in Int
      /\ Offset' = Offset + NaturalDrift + freq
  BY SecondPasses DEF ClockTyped
<1>2. Offset' \in Int
  BY <1>1, MeasureIs
<1>3. PICK j \in Jitters : Pushed(off_stats, off_stats', OffNb, Offset' + j)
  BY <1>1, MeasureIs
<1>4. /\ j \in Int /\ Offset' + j \in Int /\ J \in Nat
      /\ Offset \in Int /\ NaturalDrift \in Int
      /\ freq \in -MaxFreq .. MaxFreq /\ MaxFreq \in Nat
  BY <1>2, ClockConstants, ClockTypes DEF ClockTyped, Spread
<1> DEFINE lo == NaturalDrift - (MaxFreq + J) hi == NaturalDrift + (MaxFreq + J)
<1>5. lo \in Int /\ hi \in Int /\ Rises(off_stats, Len(off_stats), lo, hi)
  BY <1>1, <1>4 DEF Rising, RisesBy
<1>6. lo <= NaturalDrift + freq - J /\ NaturalDrift + freq + J <= hi
  BY <1>4
<1> HIDE DEF lo, hi
<1>7. ASSUME Len(off_stats) > 0
      PROVE  lo <= (Offset' + j) - Last(off_stats) /\ (Offset' + j) - Last(off_stats) <= hi
  <2> DEFINE l == Last(off_stats) u == Offset n == NaturalDrift + freq c == Offset'
  <2>1. l - u \in Jitters
    BY <1>1, <1>7 DEF Tracked
  <2>2. u \in Int /\ n \in Int /\ lo <= n - J /\ n + J <= hi
    BY <1>4, <1>6
  <2>3. l \in Int
    <3>1. Len(off_stats) \in 1 .. Len(off_stats)
      BY <1>7, LenProperties DEF ClockTyped
    <3> QED
      BY <3>1, ElementOfSeq DEF ClockTyped, Last
  <2>4. c = u + n
    <3>1. c = u + NaturalDrift + freq
      BY <1>1
    <3> HIDE DEF c, u
    <3> QED
      BY <1>4, <2>2, <3>1
  <2> HIDE DEF l, u, n, c
  <2>5. lo <= (c + j) - l /\ (c + j) - l <= hi
    BY <1>5, <2>1, <2>2, <2>3, <2>4, Difference
  <2> QED
    BY <2>5 DEF c, l
<1>8. Rises(off_stats', Len(off_stats'), lo, hi)
  BY <1>3, <1>4, <1>5, <1>7, PushRises, WindowSizes DEF ClockTyped
<1> QED
  BY <1>8 DEF RisesBy, lo, hi

(* The first pulse of a daemon. *)
LEMMA FirstPulse ==
    ASSUME IInv, ClockTyped, Filled, First, pc' # "down", UNCHANGED <<error, edge>>, Measure
    PROVE  /\ ClockTyped' /\ Tracked'
           /\ \A lo, hi \in Int : /\ Rises(drift_stats', Len(drift_stats'), lo, hi)
                                  /\ Rises(off_stats', Len(off_stats'), lo, hi)
<1>1. /\ pc = "first" /\ pc' \in Watching
      /\ UNCHANGED <<behind, cum_off>>
  BY DEF First, Gone, Watching, time
<1>2. /\ off_stats = << >> /\ drift_stats = << >> /\ error' \in Int /\ cum_off' \in Int
      /\ behind' = 0
  BY <1>1, ClockTypes DEF ClockTyped
<1>3. pc' \notin {"down", "first", "fine", "trim"} /\ UNCHANGED edge
  BY <1>1 DEF Watching
<1>4. Offset' \in Int /\ Uncorrected' = Offset' + cum_off'
  BY <1>2, <1>3, MeasureIs
<1>5. PICK j \in Jitters : /\ Pushed(off_stats, off_stats', OffNb, Offset' + j)
                           /\ Pushed(drift_stats, drift_stats', DriftNb, Uncorrected' + j)
  BY <1>2, <1>3, MeasureIs
<1> DEFINE a == Offset' b == Uncorrected'
<1>6. j \in Int
  BY JitterType
<1>7. a \in Int /\ b \in Int
  BY <1>2, <1>4
<1> HIDE DEF a, b
<1>8. a + j \in Int /\ b + j \in Int /\ (a + j) - a = j /\ (b + j) - b = j
  BY <1>6, <1>7
<1>9. /\ Pushed(<< >>, off_stats', OffNb, a + j)
      /\ Pushed(<< >>, drift_stats', DriftNb, b + j)
  BY <1>2, <1>5 DEF a, b
<1>10. ASSUME NEW v, NEW n \in Nat \ {0}, NEW o \in Int, Pushed(<< >>, v, n, o)
       PROVE  /\ v \in Seq(Int) /\ Last(v) = o
              /\ \A lo, hi \in Int : Rises(v, Len(v), lo, hi)
  <2>1. << >> \in Seq(Int) /\ Len(<< >>) = 0 /\ Len(<< >>) <= n
    BY EmptyRises
  <2>2. \A lo, hi \in Int : Rises(<< >>, Len(<< >>), lo, hi)
    BY EmptyRises
  <2> DEFINE w == << >>
  <2>3. w \in Seq(Int) /\ Len(w) <= n /\ ~(Len(w) > 0) /\ Pushed(w, v, n, o)
        /\ \A lo, hi \in Int : Rises(w, Len(w), lo, hi)
    BY <1>10, <2>1, <2>2
  <2> HIDE DEF w
  <2>4. v \in Seq(Int) /\ Last(v) = o
    BY <2>3, PushLast
  <2>5. ASSUME NEW lo \in Int, NEW hi \in Int PROVE Rises(v, Len(v), lo, hi)
    BY <2>3, PushRises
  <2> QED
    BY <2>4, <2>5
<1>11. /\ off_stats' \in Seq(Int) /\ Last(off_stats') = a + j
       /\ \A lo, hi \in Int : Rises(off_stats', Len(off_stats'), lo, hi)
  BY <1>8, <1>9, <1>10, ClockConstants
<1>12. /\ drift_stats' \in Seq(Int) /\ Last(drift_stats') = b + j
       /\ \A lo, hi \in Int : Rises(drift_stats', Len(drift_stats'), lo, hi)
  BY <1>8, <1>9, <1>10, ClockConstants
<1>13. ClockTyped'
  BY <1>2, <1>3, <1>11, <1>12 DEF ClockTyped
<1>14. Tracked'
  BY <1>8, <1>11, <1>12 DEF Tracked, a, b
<1> QED
  BY <1>11, <1>12, <1>13, <1>14

(* What happens between two pulses. *)
Between ==
    \/ CEvalOffset
    \/ Jump /\ error' = error - off /\ UNCHANGED <<edge, windows>>
    \/ (Leave \/ Smooth \/ StartFine \/ SkipFine \/ StartTrim \/ SkipTrim) /\ CQuiet

(* It does not change what the clock would be without corrections. *)
LEMMA BetweenTracked ==
    ASSUME IInv, ClockTyped, Tracked, Between
    PROVE  /\ UNCHANGED windows /\ pc' \notin Watching /\ ClockTyped' /\ Tracked'
           /\ Uncorrected' = Uncorrected
<1>1. /\ Offset \in Int /\ Pending \in Int /\ cum_off \in Int /\ off \in Int
      /\ adj \in Int /\ PerTick \in Nat /\ error \in Int
      /\ PulseWidth \in Int /\ HwOffset \in Int
  BY ClockTypes, ClockConstants DEF ClockTyped
<1>2. UNCHANGED windows /\ pc' \notin Watching \cup {"down", "first"} /\ UNCHANGED edge
  BY DEF Between, CEvalOffset, OffsetTurn, Jump, Leave, Smooth, StartFine, SkipFine,
         StartTrim, SkipTrim, CQuiet, clock, Watching
<1>3. error' \in Int
  BY <1>1 DEF Between, CEvalOffset, CQuiet, clock
<1>4. Uncorrected' = Uncorrected
  <2>1. CASE CEvalOffset \/ ((Leave \/ Smooth \/ SkipFine \/ SkipTrim) /\ CQuiet)
    <3>1. /\ pc \notin {"fine", "trim"} /\ pc' \notin {"fine", "trim"}
          /\ UNCHANGED <<error, edge, cum_off>>
      BY <2>1 DEF CEvalOffset, OffsetTurn, Leave, Smooth, SkipFine, SkipTrim, CQuiet, clock
    <3> QED
      BY <3>1 DEF Uncorrected, Offset, Pending
  <2>2. CASE Jump /\ error' = error - off
    <3>1. /\ pc = "adjust" /\ pc' = "settled" /\ cum_off' = cum_off + off
      BY <2>2 DEF Jump
    <3> QED
      BY <1>1, <1>2, <2>2, <3>1 DEF Uncorrected, Offset, Pending, Stamp, EdgeDelay
  <2>3. CASE StartFine /\ CQuiet
    <3>1. /\ pc = "rest" /\ pc' = "fine" /\ UNCHANGED <<error, edge>>
          /\ smooth_min = PerTick /\ cum_off' = cum_off + adj' * smooth_min
      BY <2>3 DEF StartFine, IInv, Cut, CQuiet, clock
    <3>2. adj' \in Int
      BY <2>3, InvStartFine DEF IInv, TypeOK
    <3>3. adj' * PerTick \in Int
      BY <1>1, <3>2
    <3>4. Pending = 0 /\ Pending' = adj' * PerTick
      <4>1. PerTick' = PerTick
        BY DEF PerTick
      <4> QED
        BY <3>1, <4>1 DEF Pending
    <3>5. Offset' = Offset /\ cum_off' = cum_off + adj' * PerTick
      BY <3>1 DEF Offset
    <3> DEFINE p == adj' * PerTick
    <3> HIDE DEF p
    <3>6. p \in Int /\ cum_off' = cum_off + p /\ Pending' = p
      BY <3>3, <3>4, <3>5 DEF p
    <3>7. Offset + ((cum_off + p) - p) = Offset + (cum_off - 0)
      BY <1>1, <3>6
    <3> QED
      BY <3>4, <3>5, <3>6, <3>7 DEF Uncorrected
  <2>4. CASE StartTrim /\ CQuiet
    <3>1. /\ pc = "last" /\ pc' = "trim" /\ UNCHANGED <<error, edge>>
          /\ cum_off' = cum_off + adj' /\ adj' = Signed(complement) /\ complement \in Nat
      BY <2>4, Types DEF StartTrim, IInv, CQuiet, clock
    <3>2. adj' \in Int
      BY <1>1, <3>1, SignedType
    <3>3. Offset' = Offset /\ Pending = 0 /\ Pending' = adj'
      BY <3>1 DEF Offset, Pending
    <3> DEFINE p == adj'
    <3> HIDE DEF p
    <3>4. Offset + ((cum_off + p) - p) = Offset + (cum_off - 0)
      <4>1. p \in Int
        BY <3>2 DEF p
      <4> QED
        BY <1>1, <4>1
    <3> QED
      BY <3>1, <3>3, <3>4 DEF Uncorrected, p
  <2> QED
    BY <2>1, <2>2, <2>3, <2>4 DEF Between
<1>5. ClockTyped'
  BY <1>2, <1>3 DEF ClockTyped, windows
<1>6. Tracked'
  BY <1>2, <1>4 DEF Tracked, windows
<1> QED
  BY <1>2, <1>4, <1>5, <1>6

(* A correction is over, and a drift has been evaluated. *)
LEMMA ClearedTracked ==
    ASSUME IInv, ClockTyped, Tracked, CSettle \/ CEvalDrift
    PROVE  /\ ClockTyped' /\ Tracked'
           /\ CSettle => off_stats' = << >> /\ UNCHANGED drift_stats
           /\ CEvalDrift => /\ drift_stats' = << >> /\ UNCHANGED off_stats
                            /\ pc \in Watching
<1>1. CASE CSettle
  <2>1. /\ off_stats' = << >> /\ UNCHANGED <<error, edge, drift_stats, cum_off>>
        /\ pc = "settled" /\ pc' \in {"wait", "drift"}
    BY <1>1 DEF CSettle, Settle, OffStats!Clear
  <2>2. Uncorrected' = Uncorrected
    BY <2>1 DEF Uncorrected, Offset, Pending
  <2>3. off_stats' \in Seq(Int) /\ Len(off_stats') = 0
    BY <2>1, EmptyRises
  <2>4. ~CEvalDrift
    BY <2>1 DEF CEvalDrift, EvalDriftAs
  <2> QED
    BY <2>1, <2>2, <2>3, <2>4 DEF ClockTyped, Tracked
<1>2. CASE CEvalDrift
  <2>1. /\ drift_stats' = << >> /\ UNCHANGED <<error, edge, off_stats>>
        /\ pc = "drift" /\ pc' = "wait"
    BY <1>2 DEF CEvalDrift, EvalDriftAs, DriftStats!Clear
  <2>2. Offset' = Offset
    BY <2>1 DEF Offset
  <2>3. drift_stats' \in Seq(Int) /\ Len(drift_stats') = 0
    BY <2>1, EmptyRises
  <2>4. ~CSettle
    BY <2>1 DEF CSettle, Settle
  <2> QED
    BY <2>1, <2>2, <2>3, <2>4 DEF ClockTyped, Tracked, Watching
<1> QED
  BY <1>1, <1>2

(* A process starts or ends. *)
LEMMA EndsTracked ==
    ASSUME ClockTyped, COpen \/ (Gone /\ CClose)
    PROVE  /\ ClockTyped' /\ Tracked' /\ off_stats' = << >> /\ drift_stats' = << >>
           /\ pc' \notin Watching
<1>1. pc' \in {"down", "first"} /\ off_stats' = << >> /\ drift_stats' = << >>
  BY DEF COpen, Start, Gone, CClose, OffStats!Clear, DriftStats!Clear, ClockTyped, windows
<1>2. error' \in Int
  <2>1. error' \in InitErrors \/ error' = 0
    BY DEF COpen, CClose
  <2>2. \A e \in InitErrors : e \in Int
    BY JitterType
  <2>3. 0 \in Int
    OBVIOUS
  <2> QED
    BY <2>1, <2>2, <2>3, Zenon
<1>3. /\ off_stats' \in Seq(Int) /\ drift_stats' \in Seq(Int)
      /\ Len(off_stats') = 0 /\ Len(drift_stats') = 0
  BY <1>1, EmptyRises
<1> QED
  BY <1>1, <1>2, <1>3 DEF ClockTyped, Tracked, Watching

-----------------------------------------------------------------------------
(* The estimates are those Ppsd allows. *)

(* Ppsd leaves open what a single window could make of any offset, and any
   drift but for an error as large as what two frequencies, one change of tick
   and the jitter differ by.  A window of one offset has no drift. *)
Allows(J) ==
    /\ Spread(J)
    /\ OffNb > 1 /\ DriftNb > 1
    /\ Offsets = Int /\ Deviations = Nat
    /\ -(2 * MaxFreq + PerTick + J) .. 2 * MaxFreq + PerTick + J \subseteq Noise

(* A drift that is found in a window is the true one but for such an error. *)
LEMMA ErrorInNoise ==
    ASSUME NEW J, Allows(J), IInv, NEW w \in Seq(Int), Len(w) > 1,
           NEW n \in Nat, n <= MaxFreq + PerTick + J, RisesBy(w, n)
    PROVE  \E e \in Noise : M!Rounded(M!DriftOf(w)) = NaturalDrift + freq + e
<1> DEFINE d == M!Rounded(M!DriftOf(w))
           e == d - NaturalDrift - freq
           b == 2 * MaxFreq + PerTick + J
<1>1. /\ NaturalDrift \in Int /\ freq \in -MaxFreq .. MaxFreq /\ MaxFreq \in Nat
      /\ PerTick \in Nat /\ J \in Nat
  BY Constants DEF IInv, TypeOK, Allows, Spread
<1>2. NaturalDrift - n \in Int /\ NaturalDrift + n \in Int
  BY <1>1
<1>3. d \in NaturalDrift - n .. NaturalDrift + n
  BY <1>2, DriftBetween DEF RisesBy
<1> HIDE DEF d
<1>4. d \in Int /\ -n <= d - NaturalDrift /\ d - NaturalDrift <= n
  BY <1>1, <1>3
<1>5. e \in -b .. b /\ d = NaturalDrift + freq + e
  BY <1>1, <1>4
<1> HIDE DEF e
<1>6. e \in Noise
  BY <1>5 DEF Allows
<1> QED
  BY <1>5, <1>6 DEF d

(* A step of the clock's daemon is one of Ppsd. *)
LEMMA StepImplements ==
    ASSUME NEW J, Allows(J), CInv(J), [CNext]_cvars
    PROVE  [Next]_vars
<1>1. /\ IInv /\ Filled /\ ClockTyped /\ Rising(J)
      /\ OffNb > 1 /\ DriftNb > 1 /\ OffNb \in Nat /\ DriftNb \in Nat
      /\ MaxFreq \in Nat /\ PerTick \in Nat /\ J \in Nat
  BY Constants DEF CInv, Allows, Spread
<1>2. CASE CEvalOffset
  <2>1. /\ pc = "offset" /\ off' = OffsetEstimate
        /\ dev' = M!RoundedRoot(M!VarianceOf(off_stats))
        /\ OffsetTurn(M!Rounded(M!DriftOf(off_stats)))
    BY <1>2 DEF CEvalOffset
  <2>2. off' \in Offsets /\ dev' \in Deviations
    BY <1>1, <2>1, OffsetEstimateType, MomentTypes DEF ClockTyped, Allows
  <2>3. off_stats \in Seq(Int) /\ Len(off_stats) > 1
    BY <1>1, <2>1 DEF Filled, ClockTyped
  <2>4. RisesBy(off_stats, MaxFreq + J) /\ MaxFreq + J \in Nat
        /\ MaxFreq + J <= MaxFreq + PerTick + J
    BY <1>1, <2>1 DEF Rising, Watching
  <2>5. \E e \in Noise : M!Rounded(M!DriftOf(off_stats)) = NaturalDrift + freq + e
    BY <1>1, <2>3, <2>4, ErrorInNoise
  <2>6. EvalOffset
    BY <2>1, <2>2, <2>5 DEF EvalOffset
  <2> QED
    BY <2>6 DEF Next, Steps
<1>3. CASE CEvalDrift
  <2>1. pc = "drift" /\ EvalDriftAs(M!Rounded(M!DriftOf(drift_stats)))
    BY <1>3 DEF CEvalDrift, EvalDriftAs
  <2>2. drift_stats \in Seq(Int) /\ Len(drift_stats) > 1
    BY <1>1, <2>1 DEF Filled, ClockTyped
  <2>3. RisesBy(drift_stats, MaxFreq + PerTick + J) /\ MaxFreq + PerTick + J \in Nat
    BY <1>1 DEF Rising
  <2>4. \E e \in Noise : M!Rounded(M!DriftOf(drift_stats)) = NaturalDrift + freq + e
    BY <1>1, <2>2, <2>3, ErrorInNoise
  <2>5. EvalDrift
    BY <2>1, <2>4 DEF EvalDrift
  <2> QED
    BY <2>5 DEF Next, Steps
<1>4. CASE COpen
  BY <1>4 DEF COpen, Next
<1>5. CASE CSteps /\ ~CEvalOffset /\ ~CEvalDrift
  BY <1>5 DEF CSteps, CSettle, Next, Steps
<1>6. CASE UNCHANGED cvars
  BY <1>6 DEF cvars
<1> QED
  BY <1>2, <1>3, <1>4, <1>5, <1>6 DEF CNext

LEMMA CInvInit == ASSUME NEW J PROVE CInit => CInv(J)
<1> SUFFICES ASSUME CInit PROVE CInv(J)
  OBVIOUS
<1>1. IInv /\ Filled
  BY InvInit, FilledInit DEF CInit
<1>2. /\ pc = "down" /\ off_stats = << >> /\ drift_stats = << >> /\ error = 0
      /\ off_stats \in Seq(Int) /\ Len(off_stats) = 0
      /\ drift_stats \in Seq(Int) /\ Len(drift_stats) = 0
  BY EmptyRises DEF CInit, Init
<1>3. ClockTyped /\ Tracked
  BY <1>2 DEF ClockTyped, Tracked
<1>4. Rising(J)
  BY <1>2, EmptyRises DEF Rising, RisesBy, Watching
<1> QED
  BY <1>1, <1>3, <1>4 DEF CInv

LEMMA RisingPulse ==
    ASSUME NEW J, Spread(J), CInv(J),
           Wait \/ RunAgain \/ Coarse \/ Fine \/ Trim, CPulse
    PROVE  ClockTyped' /\ Tracked' /\ Rising(J)'
<1> DEFINE m == MaxFreq + PerTick + J
           g == IF pc = "trim" THEN freq + adj ELSE freq
           lo == NaturalDrift - m
           hi == NaturalDrift + m
<1>1. IInv /\ Filled /\ ClockTyped /\ Tracked /\ Rising(J) /\ J \in Nat
  BY DEF CInv, Spread
<1>2. /\ NaturalDrift \in Int /\ freq \in -MaxFreq .. MaxFreq /\ adj \in Int
      /\ MaxFreq \in Nat /\ PerTick \in Nat
      /\ pc = "trim" => adj \in -PerTick .. PerTick
  BY <1>1, ClockTypes DEF ClockTyped, IInv, Cut
<1>3. /\ g \in Int /\ lo \in Int /\ hi \in Int
      /\ lo <= NaturalDrift + g - J /\ NaturalDrift + g + J <= hi
  BY <1>1, <1>2
<1>4. Rises(drift_stats, Len(drift_stats), lo, hi)
  BY <1>1 DEF Rising, RisesBy
<1>5. g = IF pc = "trim" THEN freq + adj ELSE freq
  OBVIOUS
<1> HIDE DEF lo, hi, g
<1>6. ClockTyped' /\ Tracked' /\ Rises(drift_stats', Len(drift_stats'), lo, hi)
  BY <1>1, <1>3, <1>4, <1>5, PulseDrift
<1>7. pc' \in Watching => RisesBy(off_stats', MaxFreq + J)
  BY <1>1, PulseOffsets
<1>8. PerTick' = PerTick
  BY DEF PerTick
<1>9. Rising(J)'
  BY <1>6, <1>7, <1>8 DEF Rising, RisesBy, lo, hi
<1> QED
  BY <1>6, <1>9

LEMMA CInvStep ==
    ASSUME NEW J, Allows(J)
    PROVE  CInv(J) /\ [CNext]_cvars => CInv(J)'
<1> SUFFICES ASSUME CInv(J), [CNext]_cvars PROVE CInv(J)'
  OBVIOUS
<1>1. IInv /\ Filled /\ ClockTyped /\ Tracked /\ Rising(J) /\ Spread(J)
  BY DEF CInv, Allows
<1>2. IInv' /\ Filled'
  BY <1>1, StepImplements, InvStep, FilledStep
<1>3. PerTick' = PerTick
  BY DEF PerTick
<1>4. ClockTyped' /\ Tracked' /\ Rising(J)'
  <2>1. CASE COpen \/ (First /\ pc' = "down" /\ CClose) \/ ((Exit \/ Abort) /\ CClose)
    <3>1. COpen \/ (Gone /\ CClose)
      BY <2>1 DEF First, Exit, Abort
    <3>2. /\ ClockTyped' /\ Tracked' /\ off_stats' = << >> /\ drift_stats' = << >>
          /\ pc' \notin Watching
      BY <1>1, <3>1, EndsTracked
    <3> QED
      BY <3>2, EmptyRises DEF Rising, RisesBy
  <2>2. CASE First /\ pc' # "down" /\ UNCHANGED <<error, edge>> /\ Measure
    <3>1. /\ ClockTyped' /\ Tracked'
          /\ \A lo, hi \in Int : /\ Rises(drift_stats', Len(drift_stats'), lo, hi)
                                 /\ Rises(off_stats', Len(off_stats'), lo, hi)
      BY <1>1, <2>2, FirstPulse
    <3>2. /\ NaturalDrift - (MaxFreq + PerTick + J) \in Int
          /\ NaturalDrift + (MaxFreq + PerTick + J) \in Int
          /\ NaturalDrift - (MaxFreq + J) \in Int /\ NaturalDrift + (MaxFreq + J) \in Int
      BY <1>1, Constants DEF Spread
    <3> QED
      BY <1>3, <3>1, <3>2 DEF Rising, RisesBy
  <2>3. CASE (Wait \/ RunAgain \/ Coarse \/ Fine \/ Trim) /\ CPulse
    BY <1>1, <2>3, RisingPulse
  <2>4. CASE Between
    <3>1. UNCHANGED windows /\ pc' \notin Watching /\ ClockTyped' /\ Tracked'
      BY <1>1, <2>4, BetweenTracked
    <3> QED
      BY <1>1, <1>3, <3>1 DEF Rising, RisesBy, windows
  <2>5. CASE CSettle \/ CEvalDrift
    <3>1. /\ ClockTyped' /\ Tracked'
          /\ CSettle => off_stats' = << >> /\ UNCHANGED drift_stats
          /\ CEvalDrift => /\ drift_stats' = << >> /\ UNCHANGED off_stats
                           /\ pc \in Watching
      BY <1>1, <2>5, ClearedTracked
    <3>2. Rising(J)'
      BY <1>1, <1>3, <2>5, <3>1, EmptyRises DEF Rising, RisesBy
    <3> QED
      BY <3>1, <3>2
  <2>6. CASE UNCHANGED cvars
    <3>1. UNCHANGED <<error, edge, windows, pc, adj, cum_off>>
      BY <2>6 DEF cvars, clock, vars, smooth
    <3>2. Uncorrected' = Uncorrected /\ Offset' = Offset
      BY <1>3, <3>1 DEF Uncorrected, Offset, Pending
    <3> QED
      BY <1>1, <1>3, <3>1, <3>2 DEF ClockTyped, Tracked, Rising, RisesBy, windows
  <2> QED
    BY <2>1, <2>2, <2>3, <2>4, <2>5, <2>6 DEF CNext, CSteps, Between
<1> QED
  BY <1>2, <1>4 DEF CInv

LEMMA ClockInvariant ==
    ASSUME NEW J, Allows(J)
    PROVE  CSpec => []CInv(J)
<1>1. CInit => CInv(J)
  BY CInvInit
<1>2. CInv(J) /\ [CNext]_cvars => CInv(J)'
  BY CInvStep
<1> QED
  BY <1>1, <1>2, PTL DEF CSpec

(* The daemon that estimates from the pulses does nothing that Ppsd, which
   takes its estimates from sets, does not allow: what is proved of Ppsd for
   any Noise is true of it, and what WithinReach is assumed for is not.  The
   error of a drift is bounded by the jitter and by what the frequency was
   changed by since the window began, of which a trim near the kernel's limit
   may hide one change of tick. *)
THEOREM EstimatesAllowed ==
    ASSUME NEW J, Allows(J)
    PROVE  CSpec => ImplementsPpsd
<1>1. CInit => Init
  BY DEF CInit
<1>2. CInv(J) /\ [CNext]_cvars => [Next]_vars
  BY StepImplements
<1> QED
  BY <1>1, <1>2, ClockInvariant, PTL DEF CSpec, ImplementsPpsd, Spec

-----------------------------------------------------------------------------
(* The drift that is found. *)

(* What the frequency is, or will be once a trim is undone.  It is freq0 unless
   a trim was clamped, and then it stays near the limit. *)
Restoring == IF pc = "trim" THEN freq + adj ELSE freq
Limit == MaxFreq - PerTick

FreqHeld ==
    /\ Abs(freq0) <= Limit => Restoring = freq0
    /\ freq0 > Limit => Restoring >= Limit
    /\ freq0 < -Limit => Restoring <= -Limit

LEMMA FreqHeldStep ==
    ASSUME PerTick < MaxFreq
    PROVE  IInv /\ FreqHeld /\ [Next]_vars => FreqHeld'
<1> SUFFICES ASSUME IInv, FreqHeld, [Next]_vars PROVE FreqHeld'
  OBVIOUS
<1> USE DEF kernel, time, estimate, smooth, base
<1>1. /\ MaxFreq \in Nat /\ PerTick \in Nat /\ Limit \in Nat /\ Limit = MaxFreq - PerTick
      /\ freq \in -MaxFreq .. MaxFreq /\ freq0 \in -MaxFreq .. MaxFreq
      /\ adj \in Int /\ Limit' = Limit
  BY Constants, Types DEF IInv, TypeOK, Limit, PerTick
<1>2. ASSUME UNCHANGED <<freq, freq0>>, pc # "trim", pc' # "trim" PROVE FreqHeld'
  BY <1>1, <1>2 DEF FreqHeld, Restoring
<1>3. ASSUME freq' = freq0', freq' \in Int, pc' # "trim" PROVE FreqHeld'
  BY <1>1, <1>3 DEF FreqHeld, Restoring, Abs
<1>4. CASE First \/ Exit \/ Abort
  <2>1. pc # "trim" /\ pc' # "trim" /\ UNCHANGED <<freq, freq0>>
    BY <1>4 DEF First, Exit, Abort, Gone
  <2> QED
    BY <1>2, <2>1
<1>5. CASE Start \/ Wait \/ RunAgain \/ Leave \/ Jump \/ SkipFine \/ SkipTrim \/ Settle
  <2>1. pc # "trim" /\ pc' # "trim" /\ UNCHANGED freq /\ (UNCHANGED freq0 \/ freq0' = freq')
    BY <1>5 DEF Start, Wait, RunAgain, Leave, Jump, SkipFine, SkipTrim, Settle
  <2> QED
    BY <1>1, <1>2, <1>3, <2>1
<1>6. CASE Retry
  <2>1. UNCHANGED <<freq, freq0, pc, adj>>
    BY <1>6 DEF Retry
  <2> QED
    BY <1>1, <2>1 DEF FreqHeld, Restoring
<1>7. CASE Smooth \/ Coarse \/ StartFine \/ Fine
  <2>1. pc # "trim" /\ pc' # "trim" /\ UNCHANGED <<freq, freq0>>
    BY <1>7 DEF Smooth, Coarse, StartFine, Fine, AdjTick
  <2> QED
    BY <1>2, <2>1
<1>8. CASE EvalOffset \/ EvalDrift
  <2>1. pc # "trim" /\ pc' # "trim"
    BY <1>8 DEF EvalOffset, OffsetTurn, EvalDrift, EvalDriftAs
  <2>2. CASE \E e \in Noise : AdjDrift(NaturalDrift + freq + e)
    <3>1. PICK e \in Noise : AdjDrift(NaturalDrift + freq + e)
      BY <2>2
    <3>2. NaturalDrift + freq + e \in Int
      BY <1>1, Constants
    <3>3. freq' \in Int
      BY <3>1, <3>2, DriftType
    <3>4. freq' = freq0' \/ UNCHANGED <<freq, freq0>>
      BY <3>1 DEF AdjDrift
    <3> QED
      BY <1>2, <1>3, <2>1, <3>3, <3>4
  <2>3. CASE UNCHANGED <<kernel, cum_drift, freq0>>
    BY <1>2, <2>1, <2>3
  <2> QED
    BY <1>8, <2>2, <2>3 DEF EvalOffset, OffsetTurn, EvalDrift, EvalDriftAs
<1>9. CASE StartTrim
  <2>1. /\ complement \in Nat /\ complement < PerTick /\ adj' = Signed(complement)
        /\ pc = "last" /\ pc' = "trim" /\ UNCHANGED freq0 /\ off \in Int
        /\ freq' = Clamped(freq + (-adj'))
    BY <1>9, Types DEF StartTrim, IInv, Cut, AdjFreq
  <2> DEFINE a == adj' f == freq'
  <2>2. a \in -PerTick .. PerTick
    BY <1>1, <2>1 DEF Signed
  <2> HIDE DEF a, f
  <2>3. f = Clamped(freq - a)
    <3>1. freq + (-a) = freq - a
      BY <1>1, <2>2
    <3> QED
      BY <2>1, <3>1 DEF a, f
  <2>4. /\ Restoring = freq /\ Restoring' = f + a
    BY <2>1 DEF Restoring, a, f
  <2>5. /\ Abs(freq0) <= Limit => freq = freq0
        /\ freq0 > Limit => freq >= Limit
        /\ freq0 < -Limit => freq <= -Limit
    BY <2>4 DEF FreqHeld
  <2>6. CASE Abs(freq0) <= Limit
    <3>1. freq - a \in -MaxFreq .. MaxFreq /\ freq = freq0
      BY <1>1, <2>2, <2>5, <2>6 DEF Abs
    <3>2. f + a = freq0
      BY <1>1, <2>2, <2>3, <3>1, Unclamped
    <3> QED
      BY <1>1, <2>1, <2>4, <2>6, <3>2 DEF FreqHeld, Abs
  <2>7. CASE freq0 > Limit
    <3>1. freq >= Limit
      BY <2>5, <2>7
    <3>2. f + a >= Limit
      BY <1>1, <2>2, <2>3, <3>1 DEF Clamped
    <3> QED
      BY <1>1, <2>1, <2>4, <2>7, <3>2 DEF FreqHeld, Abs
  <2>8. CASE freq0 < -Limit
    <3>1. freq <= -Limit
      BY <2>5, <2>8
    <3>2. f + a <= -Limit
      BY <1>1, <2>2, <2>3, <3>1 DEF Clamped
    <3> QED
      BY <1>1, <2>1, <2>4, <2>8, <3>2 DEF FreqHeld, Abs
  <2> QED
    BY <1>1, <2>6, <2>7, <2>8 DEF Abs
<1>10. CASE Trim
  <2>1. /\ pc = "trim" /\ pc' = "settled" /\ UNCHANGED freq0
        /\ freq' = Clamped(freq + adj)
    BY <1>10 DEF Trim, AdjFreq
  <2>2. Restoring = freq + adj /\ Restoring' = Clamped(freq + adj)
    BY <2>1 DEF Restoring
  <2> DEFINE r == freq + adj
  <2>3. r \in Int /\ (/\ Abs(freq0) <= Limit => r = freq0
                      /\ freq0 > Limit => r >= Limit
                      /\ freq0 < -Limit => r <= -Limit)
    BY <1>1, <2>2 DEF FreqHeld
  <2> HIDE DEF r
  <2>4. /\ Abs(freq0) <= Limit => Clamped(r) = freq0
        /\ freq0 > Limit => Clamped(r) >= Limit
        /\ freq0 < -Limit => Clamped(r) <= -Limit
    BY <1>1, <2>3 DEF Clamped
  <2> QED
    BY <1>1, <2>1, <2>2, <2>4 DEF FreqHeld, r
<1>11. CASE UNCHANGED vars
  BY <1>1, <1>11 DEF vars, FreqHeld, Restoring
<1>12. ~Crash
  BY ClockConstants DEF Crash
<1> QED
  BY <1>4, <1>5, <1>6, <1>7, <1>8, <1>9, <1>10, <1>11, <1>12 DEF Next, Steps

(* The drift of the clock was what the oscillator's is with no correction of
   the frequency, or with the one that stands: the first correction may fall
   inside the window (ppsd.c:481). *)
Slowest == NaturalDrift + (IF freq0 < 0 THEN freq0 ELSE 0)
Fastest == NaturalDrift + (IF freq0 > 0 THEN freq0 ELSE 0)

RisesRight(J) ==
    Abs(freq0) <= Limit =>
        Rises(drift_stats, Len(drift_stats), Slowest - J, Fastest + J)

LEMMA RisesRightStep ==
    ASSUME NEW J, Allows(J), PerTick < MaxFreq
    PROVE  CInv(J) /\ FreqHeld /\ RisesRight(J) /\ [CNext]_cvars => RisesRight(J)'
<1> SUFFICES ASSUME CInv(J), FreqHeld, RisesRight(J), [CNext]_cvars,
                    (Abs(freq0) <= Limit)'
             PROVE  Rises(drift_stats, Len(drift_stats), Slowest - J, Fastest + J)'
  BY DEF RisesRight
<1>1. IInv /\ Filled /\ ClockTyped /\ Tracked /\ Spread(J) /\ J \in Nat
  BY DEF CInv, Allows, Spread
<1>2. /\ MaxFreq \in Nat /\ PerTick \in Nat /\ Limit \in Nat /\ Limit = MaxFreq - PerTick
      /\ NaturalDrift \in Int /\ freq0 \in Int /\ freq \in Int /\ adj \in Int
      /\ Limit' = Limit /\ 0 < Limit
  BY <1>1, Constants, Types DEF IInv, Limit, PerTick
<1>3. Slowest \in Int /\ Fastest \in Int /\ Slowest - J \in Int /\ Fastest + J \in Int
  BY <1>1, <1>2 DEF Slowest, Fastest
<1>4. CASE drift_stats' = << >>
  BY <1>4, EmptyRises
<1>5. CASE COpen \/ (First /\ pc' = "down" /\ CClose) \/ ((Exit \/ Abort) /\ CClose)
  <2>1. COpen \/ (Gone /\ CClose)
    BY <1>5 DEF First, Exit, Abort
  <2> QED
    BY <1>1, <1>4, <2>1, EndsTracked
<1>6. CASE First /\ pc' # "down" /\ UNCHANGED <<error, edge>> /\ Measure
  <2>1. \A lo, hi \in Int : Rises(drift_stats', Len(drift_stats'), lo, hi)
    BY <1>1, <1>6, FirstPulse
  <2>2. freq0' = freq0
    BY <1>6 DEF First, Gone, base
  <2> QED
    BY <1>3, <2>1, <2>2 DEF Slowest, Fastest
<1>7. CASE (Wait \/ RunAgain \/ Coarse \/ Fine \/ Trim) /\ CPulse
  <2>1. freq0' = freq0
    BY <1>7 DEF Wait, RunAgain, Coarse, Fine, Trim, base
  <2>2. Abs(freq0) <= Limit
    BY <1>2, <2>1 DEF Abs
  <2> DEFINE g == Restoring lo == Slowest - J hi == Fastest + J
  <2>3. g = freq0 /\ g \in Int /\ (g = IF pc = "trim" THEN freq + adj ELSE freq)
    BY <1>2, <2>2 DEF FreqHeld, Restoring
  <2>4. Rises(drift_stats, Len(drift_stats), lo, hi) /\ lo \in Int /\ hi \in Int
    BY <1>3, <2>2 DEF RisesRight
  <2>5. lo <= NaturalDrift + g - J /\ NaturalDrift + g + J <= hi
    BY <1>1, <1>2, <2>3 DEF Slowest, Fastest
  <2> HIDE DEF g, lo, hi
  <2>6. Rises(drift_stats', Len(drift_stats'), lo, hi)
    BY <1>1, <1>7, <2>3, <2>4, <2>5, PulseDrift
  <2> QED
    BY <2>1, <2>6 DEF lo, hi, Slowest, Fastest
<1>8. ASSUME UNCHANGED <<drift_stats, freq0>>
      PROVE  Rises(drift_stats, Len(drift_stats), Slowest - J, Fastest + J)'
  <2>1. Abs(freq0) <= Limit
    BY <1>2, <1>8 DEF Abs
  <2> QED
    BY <1>8, <2>1 DEF RisesRight, Slowest, Fastest
<1>9. CASE CEvalOffset
  <2>1. UNCHANGED drift_stats /\ pc = "offset"
    BY <1>9 DEF CEvalOffset, CQuiet, clock, windows
  <2>2. CASE UNCHANGED freq0
    BY <1>8, <2>1, <2>2
  <2>3. CASE ~(UNCHANGED freq0)
    <3>1. freq = 0
      BY <1>9, <2>3 DEF CEvalOffset, OffsetTurn
    <3>2. Restoring = 0
      BY <2>1, <3>1 DEF Restoring
    <3>3. freq0 = 0 /\ Abs(freq0) <= Limit
      BY <1>2, <3>2 DEF FreqHeld, Abs
    <3>4. Rises(drift_stats, Len(drift_stats), NaturalDrift - J, NaturalDrift + J)
      <4>1. Slowest = NaturalDrift /\ Fastest = NaturalDrift
        BY <1>2, <3>3 DEF Slowest, Fastest
      <4> QED
        BY <3>3, <4>1 DEF RisesRight
    <3>5. freq0' \in Int
      <4>1. [Next]_vars
        BY StepImplements
      <4>2. TypeOK'
        BY <1>1, <4>1, InvStep DEF IInv
      <4> QED
        BY <1>2, <4>2 DEF TypeOK
    <3> DEFINE f == freq0' lo == Slowest' - J hi == Fastest' + J
    <3>6. /\ lo \in Int /\ hi \in Int /\ lo <= NaturalDrift - J /\ NaturalDrift + J <= hi
      <4>1. /\ Slowest' = NaturalDrift + (IF f < 0 THEN f ELSE 0)
            /\ Fastest' = NaturalDrift + (IF f > 0 THEN f ELSE 0)
        BY DEF Slowest, Fastest
      <4>2. f \in Int
        BY <3>5
      <4> HIDE DEF f
      <4> QED
        BY <1>1, <1>2, <4>1, <4>2
    <3> HIDE DEF lo, hi
    <3>7. Rises(drift_stats, Len(drift_stats), lo, hi)
      <4>1. drift_stats \in Seq(Int)
        BY <1>1 DEF ClockTyped
      <4> SUFFICES ASSUME NEW i \in 1 .. Len(drift_stats) - 1
                   PROVE  /\ lo <= drift_stats[i + 1] - drift_stats[i]
                          /\ drift_stats[i + 1] - drift_stats[i] <= hi
        BY DEF Rises
      <4>2. i \in 1 .. Len(drift_stats) /\ i + 1 \in 1 .. Len(drift_stats)
        BY <4>1, LenProperties
      <4>3. drift_stats[i] \in Int /\ drift_stats[i + 1] \in Int
        BY <4>1, <4>2, ElementOfSeq
      <4>4. /\ NaturalDrift - J <= drift_stats[i + 1] - drift_stats[i]
            /\ drift_stats[i + 1] - drift_stats[i] <= NaturalDrift + J
        BY <3>4 DEF Rises
      <4> QED
        BY <1>1, <1>2, <3>6, <4>3, <4>4
    <3> QED
      BY <2>1, <3>7 DEF lo, hi
  <2> QED
    BY <2>2, <2>3
<1>10. CASE Between /\ ~CEvalOffset
  BY <1>8, <1>10 DEF Between, Jump, Leave, Smooth, StartFine, SkipFine, StartTrim,
                     SkipTrim, CQuiet, clock, windows, base
<1>11. CASE CSettle
  BY <1>8, <1>11 DEF CSettle, Settle, base
<1>12. CASE CEvalDrift
  BY <1>4, <1>12 DEF CEvalDrift, DriftStats!Clear
<1>13. CASE UNCHANGED cvars
  BY <1>8, <1>13 DEF cvars, clock, windows, vars, base
<1> QED
  BY <1>5, <1>6, <1>7, <1>9, <1>10, <1>11, <1>12, <1>13 DEF CNext, CSteps, Between

(* The drift that is evaluated is no further than the jitter J from the true
   one, that of the oscillator with the correction of the frequency that
   stands; or, when the window began before the first correction, from one
   between that and the drift without correction.  Whatever offsets were
   corrected meanwhile, by jumps or by changes of rate, do not show. *)
DriftFound(J) ==
    pc = "drift" /\ Abs(freq0) <= Limit =>
        M!Rounded(M!DriftOf(drift_stats)) \in Slowest - J .. Fastest + J

(* ppsd_adj_drift_ppb is given a drift of the clock, not of its corrections,
   as long as the frequency is not so near to the kernel's limit that a trim
   is clamped. *)
THEOREM DriftIsTheClocks ==
    ASSUME NEW J, Allows(J), PerTick < MaxFreq
    PROVE  CSpec => []DriftFound(J)
<1>1. CInit => CInv(J) /\ FreqHeld /\ RisesRight(J)
  <2> SUFFICES ASSUME CInit PROVE FreqHeld /\ RisesRight(J)
    BY CInvInit
  <2>1. FreqHeld
    <3>1. freq = freq0 /\ freq \in Int /\ Limit \in Nat /\ pc # "trim"
      BY Constants DEF CInit, Init, Limit
    <3> QED
      BY <3>1 DEF FreqHeld, Restoring
  <2>2. RisesRight(J)
    BY EmptyRises DEF CInit, RisesRight
  <2> QED
    BY <2>1, <2>2
<1>2. CInv(J) /\ FreqHeld /\ RisesRight(J) /\ [CNext]_cvars
          => (CInv(J) /\ FreqHeld /\ RisesRight(J))'
  <2>1. CInv(J) /\ FreqHeld /\ [CNext]_cvars => FreqHeld'
    BY StepImplements, FreqHeldStep DEF CInv
  <2> QED
    BY <2>1, CInvStep, RisesRightStep
<1>3. CInv(J) /\ RisesRight(J) => DriftFound(J)
  <2> SUFFICES ASSUME CInv(J), RisesRight(J), pc = "drift", Abs(freq0) <= Limit
               PROVE  M!Rounded(M!DriftOf(drift_stats)) \in Slowest - J .. Fastest + J
    BY DEF DriftFound
  <2>1. drift_stats \in Seq(Int) /\ Len(drift_stats) > 1
    BY DEF CInv, Filled, ClockTyped, Allows
  <2>2. Slowest - J \in Int /\ Fastest + J \in Int
    <3>1. NaturalDrift \in Int /\ freq0 \in Int /\ J \in Nat
      BY Constants, Types DEF CInv, IInv, Allows, Spread
    <3> QED
      BY <3>1 DEF Slowest, Fastest
  <2>3. Rises(drift_stats, Len(drift_stats), Slowest - J, Fastest + J)
    BY DEF RisesRight
  <2> QED
    BY <2>1, <2>2, <2>3, DriftBetween
<1> QED
  BY <1>1, <1>2, <1>3, PTL DEF CSpec

-----------------------------------------------------------------------------
(* A window of k offsets of a clock that gains r a second, each measured with
   an error of j at most: what its sum t, and the sum sg that its drift is made
   of, differ from those of a straight line. *)
Lined(k, c, r, j, t, sg) ==
    /\ t \in Int /\ sg \in Int
    /\ LET x == 2 * t - (2 * (c * k) + r * (k * (k + 1)))
       IN  -(2 * (j * k)) <= x /\ x <= 2 * (j * k)
    /\ LET y == 6 * sg - r * (k * (k * k - 1))
       IN  -(6 * (j * (k * (k - 1)))) <= y /\ y <= 6 * (j * (k * (k - 1)))

LEMMA LineSums ==
    ASSUME NEW k \in Nat, k > 1, NEW c \in Int, NEW r \in Int, NEW j \in Nat,
           NEW e, \A i \in 1 .. k : e[i] \in -j .. j,
           NEW w, \A i \in 1 .. k : w[i] = (c + r * i) + e[i],
           NEW g, \A i \in 1 .. k : g[i] = (2 * i - k - 1) * w[i]
    PROVE  Lined(k, c, r, j, SumTo(w, k), SumTo(g, k))
<1> DEFINE x == [i \in 1 .. k |-> c + r * i]
           gx == [i \in 1 .. k |-> (2 * i - k - 1) * x[i]]
           ge == [i \in 1 .. k |-> (2 * i - k - 1) * e[i]]
           one == [i \in 1 .. k |-> 1]
           num == [i \in 1 .. k |-> i]
           sqr == [i \in 1 .. k |-> i * i]
<1>1. \A i \in 1 .. k : /\ x[i] = c + r * i /\ x[i] \in Int /\ e[i] \in Int
                        /\ -j <= e[i] /\ e[i] <= j /\ w[i] = x[i] + e[i] /\ w[i] \in Int
                        /\ one[i] = 1 /\ num[i] = i
                        /\ x[i] = c * one[i] + r * num[i]
  OBVIOUS
<1>2. \A i \in 1 .. k : /\ gx[i] = (2 * i - k - 1) * x[i]
                        /\ ge[i] = (2 * i - k - 1) * e[i]
                        /\ sqr[i] = i * i
  OBVIOUS
<1> HIDE DEF x, gx, ge, one, num, sqr
<1>3. SumTo(e, k) \in Int /\ (-j) * k <= SumTo(e, k) /\ SumTo(e, k) <= j * k
  <2>1. -j \in Int /\ j \in Int /\ \A i \in 1 .. k : e[i] \in Int /\ -j <= e[i] /\ e[i] <= j
    OBVIOUS
  <2> QED
    BY <2>1, SumBetween
<1>4. SumTo(w, k) = SumTo(x, k) + SumTo(e, k)
  BY <1>1, SumPlus
<1>5. SumTo(x, k) \in Int /\ 2 * SumTo(x, k) = 2 * (c * k) + r * (k * (k + 1))
  <2>1. SumTo(x, k) = c * SumTo(one, k) + r * SumTo(num, k)
    BY <1>1, SumLinear
  <2>2. SumTo(one, k) = 1 * k
    BY <1>1, SumConstant
  <2>3. 2 * SumTo(num, k) = k * (k + 1)
    <3>1. \A i \in 1 .. k : num[i] = i /\ sqr[i] = i * i
      BY <1>1, <1>2
    <3> QED
      BY <3>1, SumOfNumbers
  <2>4. SumTo(num, k) \in Int
    <3>1. \A i \in 1 .. k : num[i] \in Int
      BY <1>1
    <3>2. \A n \in 0 .. k : SumTo(num, n) \in Int
      BY <3>1, SumType
    <3> QED
      BY <3>2
  <2> DEFINE n == SumTo(num, k)
  <2>5. SumTo(x, k) = c * k + r * n /\ n \in Int /\ 2 * n = k * (k + 1)
    BY <2>1, <2>2, <2>3, <2>4
  <2> HIDE DEF n
  <2>6. c * k \in Int /\ r * n \in Int /\ 2 * (r * n) = r * (2 * n)
    BY <2>5
  <2> QED
    BY <2>5, <2>6
<1>6. /\ SumTo(w, k) \in Int
      /\ -(2 * (j * k)) <= 2 * SumTo(w, k) - (2 * (c * k) + r * (k * (k + 1)))
      /\ 2 * SumTo(w, k) - (2 * (c * k) + r * (k * (k + 1))) <= 2 * (j * k)
  <2> DEFINE a == SumTo(x, k) b == SumTo(e, k) jk == j * k
             l == 2 * (c * k) + r * (k * (k + 1))
  <2>1. a \in Int /\ b \in Int /\ jk \in Int /\ -jk <= b /\ b <= jk
        /\ 2 * a = l /\ SumTo(w, k) = a + b
    BY <1>3, <1>4, <1>5
  <2> HIDE DEF a, b, jk, l
  <2>2. a + b \in Int /\ -(2 * jk) <= 2 * (a + b) - l /\ 2 * (a + b) - l <= 2 * jk
    BY <2>1
  <2> QED
    BY <2>1, <2>2 DEF jk, l
<1>7. SumTo(gx, k) \in Int /\ 6 * SumTo(gx, k) = r * (k * (k * k - 1))
  <2>1. Rises(x, k, r, r)
    <3> SUFFICES ASSUME NEW i \in 1 .. k - 1
                 PROVE  r <= x[i + 1] - x[i] /\ x[i + 1] - x[i] <= r
      BY DEF Rises
    <3>1. i \in 1 .. k /\ i + 1 \in 1 .. k /\ i \in Int
      OBVIOUS
    <3>2. x[i] = c + r * i /\ x[i + 1] = c + r * (i + 1)
      BY <1>1, <3>1
    <3>3. r * (i + 1) = r * i + r /\ r * i \in Int
      BY <3>1
    <3> QED
      BY <3>2, <3>3
  <2>2. /\ SumTo(gx, k) \in Int
        /\ r * (k * (k * k - 1)) <= 6 * SumTo(gx, k)
        /\ 6 * SumTo(gx, k) <= r * (k * (k * k - 1))
    BY <1>1, <1>2, <2>1, SlopeBetween
  <2>3. r * (k * (k * k - 1)) \in Int
    OBVIOUS
  <2> QED
    BY <2>2, <2>3
<1>8. ASSUME NEW i \in 1 .. k
      PROVE  /\ ge[i] \in Int /\ -(j * (k - 1)) <= ge[i] /\ ge[i] <= j * (k - 1)
             /\ gx[i] \in Int /\ g[i] = gx[i] + ge[i]
  <2> DEFINE m == 2 * i - k - 1 y == e[i] z == x[i]
  <2>1. /\ m \in -(k - 1) .. k - 1 /\ y \in -j .. j /\ z \in Int
        /\ ge[i] = m * y /\ gx[i] = m * z /\ g[i] = m * (z + y)
    BY <1>1, <1>2
  <2> HIDE DEF m, y, z
  <2>2. m * (z + y) = m * z + m * y /\ m * z \in Int /\ m * y \in Int
    BY <2>1
  <2>3. -(j * (k - 1)) <= m * y /\ m * y <= j * (k - 1)
    <3> DEFINE n == k - 1
    <3>1. n \in Nat /\ m \in -n .. n
      BY <2>1
    <3> HIDE DEF n
    <3>2. ASSUME NEW p \in 0 .. n, NEW q \in 0 .. j PROVE p * q <= j * n /\ p * q \in Int
      <4>1. p * q <= n * q /\ n * q <= n * j
        BY <3>1, <3>2
      <4> QED
        BY <3>1, <4>1
    <3>3. CASE m >= 0 /\ y >= 0
      <4>1. m \in 0 .. n /\ y \in 0 .. j /\ m * y >= 0 /\ j * n >= 0
        BY <2>1, <3>1, <3>3
      <4> QED
        BY <2>2, <3>1, <3>2, <4>1 DEF n
    <3>4. CASE m >= 0 /\ y < 0
      <4>1. m \in 0 .. n /\ -y \in 0 .. j /\ m * (-y) = -(m * y) /\ m * (-y) >= 0
        BY <2>1, <3>1, <3>4
      <4>2. m * (-y) <= j * n
        BY <3>2, <4>1
      <4> QED
        BY <2>2, <3>1, <4>1, <4>2 DEF n
    <3>5. CASE m < 0 /\ y >= 0
      <4>1. -m \in 0 .. n /\ y \in 0 .. j /\ (-m) * y = -(m * y) /\ (-m) * y >= 0
        BY <2>1, <3>1, <3>5
      <4>2. (-m) * y <= j * n
        BY <3>2, <4>1
      <4> QED
        BY <2>2, <3>1, <4>1, <4>2 DEF n
    <3>6. CASE m < 0 /\ y < 0
      <4>1. -m \in 0 .. n /\ -y \in 0 .. j /\ (-m) * (-y) = m * y /\ (-m) * (-y) >= 0
        BY <2>1, <3>1, <3>6
      <4>2. (-m) * (-y) <= j * n
        BY <3>2, <4>1
      <4> QED
        BY <2>2, <3>1, <4>1, <4>2 DEF n
    <3> QED
      BY <2>1, <3>3, <3>4, <3>5, <3>6
  <2> QED
    BY <2>1, <2>2, <2>3
<1>9. /\ SumTo(ge, k) \in Int
      /\ (-(j * (k - 1))) * k <= SumTo(ge, k) /\ SumTo(ge, k) <= (j * (k - 1)) * k
  <2> DEFINE b == j * (k - 1)
  <2>1. b \in Int /\ -b \in Int
    OBVIOUS
  <2>2. \A i \in 1 .. k : ge[i] \in Int /\ -b <= ge[i] /\ ge[i] <= b
    BY <1>8
  <2> HIDE DEF b
  <2>3. SumTo(ge, k) \in Int /\ (-b) * k <= SumTo(ge, k) /\ SumTo(ge, k) <= b * k
    BY <2>1, <2>2, SumBetween
  <2> QED
    BY <2>3 DEF b
<1>10. SumTo(g, k) = SumTo(gx, k) + SumTo(ge, k)
  BY <1>8, SumPlus
<1>11. /\ SumTo(g, k) \in Int
       /\ -(6 * (j * (k * (k - 1)))) <= 6 * SumTo(g, k) - r * (k * (k * k - 1))
       /\ 6 * SumTo(g, k) - r * (k * (k * k - 1)) <= 6 * (j * (k * (k - 1)))
  <2> DEFINE a == SumTo(gx, k) b == SumTo(ge, k) m == j * (k * (k - 1))
             l == r * (k * (k * k - 1))
  <2>1. (-(j * (k - 1))) * k = -m /\ (j * (k - 1)) * k = m /\ m \in Int
    OBVIOUS
  <2>2. a \in Int /\ b \in Int /\ -m <= b /\ b <= m /\ 6 * a = l /\ SumTo(g, k) = a + b
    BY <1>7, <1>9, <1>10, <2>1
  <2> HIDE DEF a, b, m, l
  <2>3. a + b \in Int /\ -(6 * m) <= 6 * (a + b) - l /\ 6 * (a + b) - l <= 6 * m
    BY <2>1, <2>2
  <2> QED
    BY <2>2, <2>3 DEF m, l
<1> QED
  BY <1>6, <1>11 DEF Lined

(* The same, carried to after the window: twice the estimate, over the length
   of the window. *)
LEMMA Carrying ==
    ASSUME NEW k \in Nat, k > 1, NEW j \in Nat, NEW c \in Int, NEW r \in Int,
           NEW t, NEW g, Lined(k, c, r, j, t, g), NEW d, d = k * (k * k - 1),
           NEW p, p = t * (2 * d) + ((k + 2) * (6 * g)) * k,
           NEW q, q = k * (2 * d)
    PROVE  /\ p \in Int /\ q \in Nat \ {0}
           /\ (2 * c + r * (2 * k + 3) - 10 * j) * q <= 2 * p
           /\ 2 * p <= (2 * c + r * (2 * k + 3) + 10 * j) * q
<1> DEFINE x == 2 * t - (2 * (c * k) + r * (k * (k + 1)))
           y == 6 * g - r * d
           a == 2 * (k * (k + 2))
           v == 2 * c + r * (2 * k + 3)
           b == 2 * (j * k)
           h == 6 * (j * (k * (k - 1)))
<1>0. t \in Int /\ g \in Int
  BY DEF Lined
<1>1. d \in Nat \ {0}
  <2>1. k * k >= 1 * k /\ k * k \in Int
    OBVIOUS
  <2>2. k * k - 1 > 0 /\ k * k - 1 \in Int
    BY <2>1
  <2> QED
    BY <2>2
<1>2. /\ x \in Int /\ y \in Int /\ a \in Nat /\ v \in Int /\ b \in Int /\ h \in Int
      /\ q \in Nat \ {0} /\ p \in Int
  <2>1. k * (k + 2) \in Nat /\ k * d \in Nat \ {0} /\ q = 2 * (k * d)
    BY <1>1
  <2>2. /\ c * k \in Int /\ r * (k * (k + 1)) \in Int /\ r * d \in Int
        /\ r * (2 * k + 3) \in Int /\ j * k \in Int /\ j * (k * (k - 1)) \in Int
    BY <1>1
  <2>3. t * (2 * d) \in Int /\ ((k + 2) * (6 * g)) * k \in Int
    BY <1>0, <1>1
  <2> QED
    BY <1>0, <2>1, <2>2, <2>3
<1>3. 2 * p = v * q + 2 * (d * x) + a * y
  BY <1>0, <1>1
<1>4. -b <= x /\ x <= b /\ -h <= y /\ y <= h
  BY DEF Lined
<1>5. 2 * (d * b) = 2 * (j * q)
  BY <1>1
<1>6. a * h <= 8 * (j * q)
  <2>1. 8 * (j * q) = a * h + 4 * (j * ((k * k) * ((k - 1) * (k - 2))))
    OBVIOUS
  <2>2. (k - 1) * (k - 2) \in Nat /\ k * k \in Nat
    OBVIOUS
  <2>3. (k * k) * ((k - 1) * (k - 2)) \in Nat
    BY <2>2
  <2>4. j * ((k * k) * ((k - 1) * (k - 2))) \in Nat
    BY <2>3
  <2>5. a * h \in Int
    BY <1>2
  <2> QED
    BY <2>1, <2>4, <2>5
<1> HIDE DEF x, y, a, v, b, h
<1>7. -(d * b) <= d * x /\ d * x <= d * b /\ d * b \in Int /\ d * x \in Int
  BY <1>1, <1>2, <1>4
<1>8. -(a * h) <= a * y /\ a * y <= a * h /\ a * h \in Int /\ a * y \in Int
  BY <1>2, <1>4
<1>9. /\ (v - 10 * j) * q = v * q - 10 * (j * q)
      /\ (v + 10 * j) * q = v * q + 10 * (j * q)
      /\ v * q \in Int /\ j * q \in Int
  BY <1>2
<1>10. (v - 10 * j) * q <= 2 * p /\ 2 * p <= (v + 10 * j) * q
  BY <1>3, <1>5, <1>6, <1>7, <1>8, <1>9
<1> QED
  BY <1>2, <1>10 DEF v

(* Rounding a fraction that is known by halves. *)
LEMMA RoundedHalves ==
    ASSUME NEW p \in Int, NEW q \in Nat \ {0}, NEW l \in Int, NEW h \in Int,
           l * q <= 2 * p, 2 * p <= h * q
    PROVE  /\ M!Rounded(<<p, q>>) \in Int
           /\ l - 1 <= 2 * M!Rounded(<<p, q>>) /\ 2 * M!Rounded(<<p, q>>) <= h + 1
<1> DEFINE lo == l \div 2 hi == (h + 1) \div 2
<1>1. /\ lo \in Int /\ 2 * lo <= l /\ l - 1 <= 2 * lo
      /\ hi \in Int /\ h <= 2 * hi /\ 2 * hi <= h + 1
  OBVIOUS
<1> HIDE DEF lo, hi
<1>2. lo * q <= p
  <2>1. (2 * lo) * q <= l * q /\ (2 * lo) * q = 2 * (lo * q) /\ lo * q \in Int /\ l * q \in Int
    BY <1>1
  <2> QED
    BY <2>1
<1>3. p <= hi * q
  <2>1. h * q <= (2 * hi) * q /\ (2 * hi) * q = 2 * (hi * q) /\ hi * q \in Int /\ h * q \in Int
    BY <1>1
  <2> QED
    BY <2>1
<1>4. M!Rounded(<<p, q>>) \in lo .. hi
  BY <1>1, <1>2, <1>3, RoundedBetween
<1> QED
  BY <1>1, <1>4

(* The offsets of a window are those of a clock that gains r a second and was
   at o at the last pulse, but for the jitters. *)
Straight(w, o, r) ==
    \A i \in 1 .. Len(w) : (w[i] + r * (Len(w) - i)) - o \in Jitters

LEMMA PushStraight ==
    ASSUME NEW w \in Seq(Int), NEW v, NEW n \in Nat \ {0}, Len(w) <= n,
           NEW o \in Int, NEW r \in Int, NEW j \in Jitters,
           Pushed(w, v, n, (o + r) + j), Straight(w, o, r)
    PROVE  Straight(v, o + r, r)
<1> DEFINE k == Len(w) x == (o + r) + j
<1>1. k \in Nat /\ (\A i \in 1 .. k : w[i] \in Int) /\ j \in Int /\ x \in Int
  BY LenProperties, ElementOfSeq, JitterType
<1>2. ASSUME NEW i \in 1 .. k, NEW m, m = k - i
      PROVE  (w[i] + r * (m + 1)) - (o + r) \in Jitters
  <2> DEFINE y == w[i]
  <2>1. y \in Int /\ m \in Int /\ (y + r * m) - o \in Jitters
    BY <1>1, <1>2 DEF Straight
  <2> HIDE DEF y
  <2>2. (y + r * (m + 1)) - (o + r) = (y + r * m) - o
    <3>1. r * (m + 1) = r * m + r /\ r * m \in Int
      BY <2>1
    <3> QED
      BY <2>1, <3>1
  <2>3. (y + r * (m + 1)) - (o + r) \in Jitters
    BY <2>1, <2>2, Zenon
  <2> QED
    BY <2>3 DEF y
<1>3. ASSUME NEW m, m = 0 PROVE (x + r * m) - (o + r) \in Jitters
  <2>1. (x + r * m) - (o + r) = j
    BY <1>1, <1>3
  <2> QED
    BY <2>1
<1>4. CASE k # n
  <2>1. v = Append(w, x)
    BY <1>4 DEF Pushed
  <2> HIDE DEF x
  <2>2. /\ Len(v) = k + 1 /\ v[k + 1] = x /\ \A i \in 1 .. k : v[i] = w[i]
    BY <1>1, <2>1, AppendProperties
  <2> SUFFICES ASSUME NEW i \in 1 .. Len(v)
               PROVE  (v[i] + r * (Len(v) - i)) - (o + r) \in Jitters
    BY DEF Straight
  <2>3. CASE i = k + 1
    <3>1. Len(v) - i = 0 /\ v[i] = x
      BY <1>1, <2>2, <2>3
    <3> QED
      BY <1>3, <3>1
  <2>4. CASE i # k + 1
    <3>1. i \in 1 .. k /\ Len(v) - i = (k - i) + 1 /\ v[i] = w[i]
      BY <1>1, <2>2, <2>4
    <3> QED
      BY <1>2, <3>1
  <2> QED
    BY <2>3, <2>4
<1>5. CASE k = n
  <2> DEFINE u == Tail(w)
  <2>1. w # << >> /\ k > 0
    BY <1>5
  <2>2. u \in Seq(Int) /\ Len(u) = k - 1 /\ \A i \in 1 .. k - 1 : u[i] = w[i + 1]
    BY <2>1, HeadTailProperties
  <2>3. v = Append(u, x)
    BY <1>5 DEF Pushed
  <2> HIDE DEF u, x
  <2>4. Len(v) = k /\ v[k] = x /\ \A i \in 1 .. k - 1 : v[i] = u[i]
    <3>1. /\ Len(v) = Len(u) + 1 /\ v[Len(u) + 1] = x
          /\ \A i \in 1 .. Len(u) : v[i] = u[i]
      BY <1>1, <2>2, <2>3, AppendProperties
    <3>2. Len(u) + 1 = k
      BY <1>1, <2>2
    <3> QED
      BY <2>2, <3>1, <3>2
  <2> SUFFICES ASSUME NEW i \in 1 .. Len(v)
               PROVE  (v[i] + r * (Len(v) - i)) - (o + r) \in Jitters
    BY DEF Straight
  <2>5. CASE i = k
    <3>1. Len(v) - i = 0 /\ v[i] = x
      BY <1>1, <2>4, <2>5
    <3> QED
      BY <1>3, <3>1
  <2>6. CASE i # k
    <3>1. i \in 1 .. k - 1 /\ i + 1 \in 1 .. k /\ v[i] = w[i + 1]
      <4>1. i \in 1 .. k - 1 /\ i + 1 \in 1 .. k
        BY <1>1, <2>4, <2>6
      <4>2. v[i] = u[i] /\ u[i] = w[i + 1]
        BY <2>2, <2>4, <4>1
      <4> QED
        BY <4>1, <4>2
    <3>2. Len(v) - i = (k - (i + 1)) + 1
      BY <1>1, <2>4, <3>1
    <3> QED
      BY <1>2, <3>1, <3>2
  <2> QED
    BY <2>5, <2>6
<1> QED
  BY <1>4, <1>5

(* How far from the true time a pulse is stamped, either way. *)
Jittered(j) == j \in Nat /\ Jitters \subseteq -j .. j

(* Twice an offset e is where twice a clock at o that gains r a second is five
   half seconds later, to fourteen jitters and the rounding. *)
Near(e, o, r, j) == Abs(2 * e - (2 * o + 5 * r)) <= 14 * j + 1

LEMMA EstimateNear ==
    ASSUME NEW w \in Seq(Int), Len(w) > 1, NEW o \in Int, NEW r \in Int,
           NEW j, Jittered(j), Straight(w, o, r)
    PROVE  Near(M!Rounded(M!Plus(M!MeanOf(w), M!Times(<<Len(w) + 2, 2>>, M!DriftOf(w))))
                    + M!Rounded(M!DriftOf(w)),
                o, r, j)
<1> DEFINE k == Len(w)
           c == o - r * k
           e == [i \in 1 .. k |-> (w[i] + r * (k - i)) - o]
           g == [i \in 1 .. k |-> (2 * i - k - 1) * w[i]]
           d == k * (k * k - 1)
           t == SumTo(w, k)
           sg == SumTo(g, k)
           p == t * (2 * d) + ((k + 2) * (6 * sg)) * k
           q == k * (2 * d)
<1>1. k \in Nat /\ k > 1 /\ (\A i \in 1 .. k : w[i] \in Int) /\ j \in Nat
  BY LenProperties, ElementOfSeq DEF Jittered
<1>2. ASSUME NEW i \in 1 .. k
      PROVE  e[i] \in -j .. j /\ w[i] = (c + r * i) + e[i]
  <2>1. e[i] = (w[i] + r * (k - i)) - o /\ e[i] \in Jitters
    BY DEF Straight
  <2> DEFINE x == w[i] y == e[i]
  <2>2. x \in Int /\ y \in -j .. j /\ y = (x + r * (k - i)) - o
    BY <1>1, <2>1 DEF Jittered
  <2> HIDE DEF x, y, k
  <2>3. r * (k - i) = r * k - r * i /\ r * k \in Int /\ r * i \in Int
    BY <1>1
  <2>4. x = ((o - r * k) + r * i) + y
    BY <1>1, <2>2, <2>3
  <2> QED
    BY <2>2, <2>4 DEF x, y
<1>3. \A i \in 1 .. k : g[i] = (2 * i - k - 1) * w[i]
  OBVIOUS
<1>4. c \in Int /\ 2 * c + r * (2 * k + 3) = 2 * o + 3 * r
  <2> HIDE DEF k
  <2>1. r * k \in Int /\ r * (2 * k + 3) = 2 * (r * k) + 3 * r
    BY <1>1
  <2> QED
    BY <2>1
<1>5. ~M!Few(w)
  BY <1>1 DEF M!Few
<1>6. M!DriftOf(w) = <<6 * sg, d>> /\ M!MeanOf(w) = <<t, k>>
  BY <1>5, SameSum DEF M!DriftOf, M!MeanOf, M!Total
<1>7. M!Plus(M!MeanOf(w), M!Times(<<Len(w) + 2, 2>>, M!DriftOf(w))) = <<p, q>>
  BY <1>6 DEF M!Plus, M!Times
<1> HIDE DEF e, g, c
<1>8. Lined(k, c, r, j, t, sg)
  <2> HIDE DEF k
  <2>1. k \in Nat /\ k > 1 /\ j \in Nat /\ c \in Int
    BY <1>1, <1>4
  <2>2. \A i \in 1 .. k : e[i] \in -j .. j
    BY <1>2
  <2>3. \A i \in 1 .. k : w[i] = (c + r * i) + e[i]
    BY <1>2
  <2> QED
    BY <1>3, <2>1, <2>2, <2>3, LineSums
<1>9. /\ p \in Int /\ q \in Nat \ {0}
      /\ (2 * c + r * (2 * k + 3) - 10 * j) * q <= 2 * p
      /\ 2 * p <= (2 * c + r * (2 * k + 3) + 10 * j) * q
  <2> HIDE DEF k, t, sg
  <2> QED
    BY <1>1, <1>4, <1>8, Carrying
<1> DEFINE l == 2 * o + 3 * r - 10 * j
           h == 2 * o + 3 * r + 10 * j
           f == M!Rounded(<<p, q>>)
           n == M!Rounded(M!DriftOf(w))
<1>10. l \in Int /\ h \in Int /\ l * q <= 2 * p /\ 2 * p <= h * q
  <2> HIDE DEF p, q
  <2>1. 2 * c + r * (2 * k + 3) - 10 * j = l /\ 2 * c + r * (2 * k + 3) + 10 * j = h
    BY <1>1, <1>4
  <2>2. l \in Int /\ h \in Int
    BY <1>1
  <2> HIDE DEF l, h
  <2> QED
    BY <1>9, <2>1, <2>2
<1>11. f \in Int /\ l - 1 <= 2 * f /\ 2 * f <= h + 1
  <2> HIDE DEF p, q, l, h
  <2> QED
    BY <1>9, <1>10, RoundedHalves
<1>12. n \in r - 2 * j .. r + 2 * j
  <2> DEFINE lo == r - 2 * j hi == r + 2 * j
  <2>1. lo \in Int /\ hi \in Int
    BY <1>1
  <2>2. Rises(w, Len(w), lo, hi)
    <3> SUFFICES ASSUME NEW i \in 1 .. k - 1
                 PROVE  lo <= w[i + 1] - w[i] /\ w[i + 1] - w[i] <= hi
      BY DEF Rises
    <3>1. i \in 1 .. k /\ i + 1 \in 1 .. k /\ i \in Int
      BY <1>1
    <3> DEFINE x == e[i] y == e[i + 1]
    <3>2. /\ x \in -j .. j /\ w[i] = (c + r * i) + x
          /\ y \in -j .. j /\ w[i + 1] = (c + r * (i + 1)) + y
      BY <1>2, <3>1
    <3>3. r * (i + 1) = r * i + r /\ r * i \in Int
      BY <3>1
    <3> HIDE DEF x, y
    <3> DEFINE z == w[i + 1] - w[i]
    <3>4. z = r + (y - x)
      BY <1>1, <1>4, <3>2, <3>3
    <3> HIDE DEF z
    <3>5. lo <= z /\ z <= hi
      <4>1. j \in Nat /\ x \in -j .. j /\ y \in -j .. j
        BY <1>1, <3>2
      <4> QED
        BY <3>4, <4>1
    <3> QED
      BY <3>5 DEF z
  <2> HIDE DEF lo, hi
  <2>3. n \in lo .. hi
    BY <1>1, <2>1, <2>2, DriftBetween
  <2> QED
    BY <2>3 DEF lo, hi
<1>13. Near(f + n, o, r, j)
  <2>1. f \in Int /\ n \in Int /\ j \in Nat
        /\ 2 * o + 3 * r - 10 * j - 1 <= 2 * f /\ 2 * f <= 2 * o + 3 * r + 10 * j + 1
        /\ r - 2 * j <= n /\ n <= r + 2 * j
    BY <1>1, <1>11, <1>12
  <2> HIDE DEF f, n
  <2> QED
    BY <2>1 DEF Near, Abs
<1> QED
  BY <1>7, <1>13

(* A clock that gains r a second makes a window as wide as that, and twice the
   jitter. *)
Width(k, r, j) == (k - 1) * Abs(r) + 2 * j

LEMMA DeviationOfStraight ==
    ASSUME NEW w \in Seq(Int), Len(w) > 1, NEW o \in Int, NEW r \in Int,
           NEW j, Jittered(j), Straight(w, o, r)
    PROVE  M!RoundedRoot(M!VarianceOf(w)) <= Width(Len(w), r, j)
<1> DEFINE k == Len(w)  g == r * (k - 1)  d == Width(k, r, j)
           lo == IF r >= 0 THEN o - g - j ELSE o - j
<1>1. k \in Nat /\ k > 1 /\ j \in Nat /\ (\A i \in 1 .. k : w[i] \in Int)
  BY LenProperties, ElementOfSeq DEF Jittered
<1>2. g \in Int /\ d = (IF r >= 0 THEN g ELSE -g) + 2 * j
      /\ (r >= 0 => g >= 0) /\ (r < 0 => g <= 0)
  <2> HIDE DEF k
  <2>1. (r >= 0 => r * (k - 1) >= 0) /\ (r < 0 => r * (k - 1) <= 0)
    BY <1>1
  <2>2. (k - 1) * Abs(r) = IF r >= 0 THEN r * (k - 1) ELSE -(r * (k - 1))
    BY <1>1 DEF Abs
  <2>3. r * (k - 1) \in Int
    BY <1>1
  <2> QED
    BY <1>1, <2>1, <2>2, <2>3 DEF Width
<1>3. lo \in Int /\ d \in Nat
  <2> HIDE DEF g, d
  <2> QED
    BY <1>1, <1>2
<1>4. ASSUME NEW i \in 1 .. k PROVE lo <= w[i] /\ w[i] <= lo + d
  <2> DEFINE x == w[i] y == r * (k - i)
  <2>1. x \in Int /\ (x + y) - o \in Jitters
    BY <1>1 DEF Straight
  <2>2. (x + y) - o \in -j .. j
    BY <2>1 DEF Jittered
  <2>3. /\ y \in Int
        /\ r >= 0 => 0 <= y /\ y <= g
        /\ r < 0 => g <= y /\ y <= 0
    <3> HIDE DEF k
    <3>1. k - i \in 0 .. k - 1 /\ i - 1 \in Nat /\ k - i \in Nat
      BY <1>1
    <3>2. r * (k - 1) = r * (k - i) + r * (i - 1)
      BY <1>1
    <3>3. /\ r >= 0 => r * (k - i) >= 0 /\ r * (i - 1) >= 0
          /\ r < 0 => r * (k - i) <= 0 /\ r * (i - 1) <= 0
      BY <3>1
    <3>4. r * (k - i) \in Int /\ r * (i - 1) \in Int
      BY <3>1
    <3> QED
      BY <3>2, <3>3, <3>4
  <2> HIDE DEF x, y, g, d, k
  <2>4. lo <= x /\ x <= lo + d
    <3>1. CASE r >= 0
      BY <1>1, <1>2, <2>1, <2>2, <2>3, <3>1
    <3>2. CASE r < 0
      BY <1>1, <1>2, <2>1, <2>2, <2>3, <3>2
    <3> QED
      BY <3>1, <3>2
  <2> QED
    BY <2>4 DEF x
<1> HIDE DEF lo, d
<1>5. M!RoundedRoot(M!VarianceOf(w)) <= d
  BY <1>1, <1>3, <1>4, DeviationBelow
<1> QED
  BY <1>5 DEF d

-----------------------------------------------------------------------------
(* The offset that is found. *)

(* Options -n and -N: the drift's turn follows an offset's, whose window is
   then empty, as with the defaults 8 and 64. *)
Follows == DriftNb % OffNb = 0

Rate == NaturalDrift + freq

(* What is being removed is what was found, perhaps before the first
   correction of the frequency: then the rate was the oscillator's. *)
Found(j) ==
    \E g \in {freq, 0} : /\ Near(off, Offset, NaturalDrift + g, j)
                         /\ dev <= Width(OffNb, NaturalDrift + g, j)

OffsetHeld(j) ==
    /\ pc \in Watching => Straight(off_stats, Offset, Rate)
    /\ pc = "drift" => off_stats = << >>
    /\ pc = "adjust" => Found(j)

LEMMA Multiples ==
    ASSUME NEW m \in Nat \ {0}, NEW n \in Nat \ {0}, NEW c \in Nat,
           n % m = 0, c % n = 0
    PROVE  c % m = 0
<1> DEFINE a == n \div m b == c \div n q == c \div m r == c % m p == a * b
<1>1. a \in Nat /\ b \in Nat /\ q \in Nat /\ r \in 0 .. m - 1
  OBVIOUS
<1>2. n = a * m + (n % m) /\ c = b * n + (c % n) /\ c = q * m + r
  BY DivMod
<1>3. a * m \in Int /\ b * n \in Int
  BY <1>1
<1> HIDE DEF a, b, q, r
<1>4. n = a * m /\ c = b * n
  BY <1>2, <1>3
<1>5. c = p * m /\ p \in Int
  BY <1>1, <1>4
<1> HIDE DEF p
<1> DEFINE d == p - q
<1>6. d \in Int /\ r = d * m /\ 0 <= r /\ r < m
  BY <1>1, <1>2, <1>5
<1> HIDE DEF d
<1>7. d * m >= m \/ d * m <= 0
  <2>1. d >= 1 \/ d <= 0
    BY <1>6
  <2> QED
    BY <1>6, <2>1
<1>8. r = 0
  BY <1>6, <1>7
<1> QED
  BY <1>8 DEF r

LEMMA EmptyStraight == \A o, r : Straight(<< >>, o, r)
BY EmptyRises DEF Straight

(* A pulse of the loop. *)
LEMMA StraightPulse ==
    ASSUME IInv, Filled, ClockTyped, Wait \/ RunAgain, CPulse,
           Straight(off_stats, Offset, Rate)
    PROVE  Straight(off_stats, Offset, Rate)'
<1>1. /\ Measure /\ UNCHANGED edge /\ behind' = 0 /\ pc \in Watching
      /\ pc' \notin {"fine", "trim"} /\ error' \in Int /\ cum_off' \in Int
      /\ Offset' = Offset + NaturalDrift + freq
  <2>1. pc = "wait"
    BY DEF Wait, RunAgain
  <2> QED
    BY <2>1, SecondPasses DEF ClockTyped, Watching
<1>2. PICK i \in Jitters : Pushed(off_stats, off_stats', OffNb, Offset' + i)
  BY <1>1, MeasureIs
<1>3. Offset \in Int /\ NaturalDrift \in Int /\ freq \in Int /\ Rate \in Int
  BY ClockTypes DEF ClockTyped, Rate
<1>4. Offset' = Offset + Rate
  BY <1>1, <1>3 DEF Rate
<1>5. Rate' = Rate
  BY DEF Wait, RunAgain, kernel, Rate
<1>6. Pushed(off_stats, off_stats', OffNb, (Offset + Rate) + i)
  BY <1>2, <1>4
<1>7. off_stats \in Seq(Int) /\ OffNb \in Nat \ {0} /\ Len(off_stats) <= OffNb
  BY WindowSizes DEF ClockTyped
<1>8. Straight(off_stats', Offset + Rate, Rate)
  BY <1>3, <1>6, <1>7, PushStraight
<1> QED
  BY <1>4, <1>5, <1>8

(* The drift's turn finds the offset's window empty. *)
LEMMA DriftFollows ==
    ASSUME Follows, pps_cnt \in Nat,
           Wait \/ (First /\ pc' # "down")
    PROVE  pc' # "drift"
<1>1. OffNb \in Nat \ {0} /\ DriftNb \in Nat \ {0}
  BY ClockConstants
<1>2. ASSUME NEW c \in Nat, c % DriftNb = 0 PROVE c % OffNb = 0
  BY <1>1, <1>2, Multiples DEF Follows
<1>3. CASE Wait
  <2>1. /\ pc' = "drift" => (pps_cnt + 1) % OffNb # 0 /\ (pps_cnt + 1) % DriftNb = 0
        /\ pps_cnt + 1 \in Nat
    BY <1>3 DEF Wait
  <2> QED
    BY <1>2, <2>1
<1>4. CASE First /\ pc' # "down"
  <2>1. pc' = "drift" => OffNb # 1 /\ DriftNb = 1
    BY <1>4 DEF First, Gone
  <2>2. OffNb # 1 /\ DriftNb = 1 => 1 % OffNb = 1 /\ DriftNb % OffNb # 0
    BY <1>1
  <2> QED
    BY <2>1, <2>2 DEF Follows
<1> QED
  BY <1>3, <1>4

(* The first offset of a window is on any line through it. *)
LEMMA StraightFirst ==
    ASSUME IInv, ClockTyped, First, pc' # "down", UNCHANGED <<error, edge>>, Measure
    PROVE  Straight(off_stats, Offset, Rate)'
<1>1. /\ pc = "first" /\ pc' \in Watching /\ UNCHANGED <<behind, cum_off, freq>>
  BY DEF First, Gone, Watching, time, kernel
<1>2. /\ off_stats = << >> /\ error' \in Int /\ cum_off' \in Int /\ behind' = 0
      /\ NaturalDrift \in Int /\ freq \in Int
  BY <1>1, ClockTypes DEF ClockTyped
<1>3. pc' \notin {"fine", "trim"} /\ UNCHANGED edge
  BY <1>1 DEF Watching
<1>4. Offset' \in Int
  BY <1>2, <1>3, MeasureIs
<1>5. PICK i \in Jitters : Pushed(off_stats, off_stats', OffNb, Offset' + i)
  BY <1>2, <1>3, MeasureIs
<1>6. Rate' = Rate /\ Rate \in Int
  BY <1>1, <1>2 DEF Rate
<1> DEFINE a == Offset' r == Rate o == a - r
<1>7. a \in Int /\ r \in Int
  BY <1>4, <1>6
<1> HIDE DEF a, r
<1>8. o \in Int /\ o + r = a
  BY <1>7
<1>9. Pushed(off_stats, off_stats', OffNb, (o + r) + i)
  BY <1>5, <1>8 DEF a
<1>10. /\ off_stats \in Seq(Int) /\ OffNb \in Nat \ {0} /\ Len(off_stats) <= OffNb
       /\ Straight(off_stats, o, r)
  BY <1>2, EmptyRises, EmptyStraight, ClockConstants
<1> HIDE DEF o
<1>11. Straight(off_stats', o + r, r)
  BY <1>7, <1>8, <1>9, <1>10, PushStraight DEF o
<1> QED
  BY <1>6, <1>8, <1>11 DEF a, r

(* The offset that is evaluated at the end of a window. *)
OffsetFound(j) == pc = "offset" => Near(OffsetEstimate, Offset, Rate, j)

LEMMA OffsetIsNear ==
    ASSUME NEW j, Jittered(j), Allows(2 * j), CInv(2 * j), OffsetHeld(j)
    PROVE  OffsetFound(j)
<1> SUFFICES ASSUME pc = "offset" PROVE Near(OffsetEstimate, Offset, Rate, j)
  BY DEF OffsetFound
<1>1. /\ off_stats \in Seq(Int) /\ Len(off_stats) > 1
      /\ Straight(off_stats, Offset, Rate)
  BY DEF CInv, Filled, ClockTyped, Allows, OffsetHeld, Watching
<1>2. Offset \in Int /\ Rate \in Int
  BY ClockTypes DEF CInv, ClockTyped, Rate
<1> QED
  BY <1>1, <1>2, EstimateNear DEF OffsetEstimate

LEMMA DeviationIsNarrow ==
    ASSUME NEW j, Jittered(j), Allows(2 * j), CInv(2 * j), OffsetHeld(j), pc = "offset"
    PROVE  M!RoundedRoot(M!VarianceOf(off_stats)) <= Width(OffNb, Rate, j)
<1>1. /\ off_stats \in Seq(Int) /\ Len(off_stats) = OffNb /\ OffNb > 1
      /\ Straight(off_stats, Offset, Rate)
  BY DEF CInv, Filled, Due, ClockTyped, Allows, OffsetHeld, Watching
<1>2. Offset \in Int /\ Rate \in Int
  BY ClockTypes DEF CInv, ClockTyped, Rate
<1> QED
  BY <1>1, <1>2, DeviationOfStraight

LEMMA OffsetHeldStep ==
    ASSUME NEW j, Jittered(j), Allows(2 * j), Follows
    PROVE  CInv(2 * j) /\ OffsetHeld(j) /\ [CNext]_cvars => OffsetHeld(j)'
<1> SUFFICES ASSUME CInv(2 * j), OffsetHeld(j), [CNext]_cvars PROVE OffsetHeld(j)'
  OBVIOUS
<1>1. IInv /\ Filled /\ ClockTyped /\ Tracked
  BY DEF CInv
<1>2. pps_cnt \in Nat
  BY <1>1 DEF Filled
<1>3. ASSUME pc' \notin Watching \cup {"adjust"} PROVE OffsetHeld(j)'
  BY <1>3 DEF OffsetHeld, Watching
<1>4. ASSUME off_stats' = << >>, pc' # "adjust" PROVE OffsetHeld(j)'
  BY <1>4, EmptyStraight DEF OffsetHeld
<1>5. CASE COpen \/ (First /\ pc' = "down" /\ CClose) \/ ((Exit \/ Abort) /\ CClose)
  <2>1. COpen \/ (Gone /\ CClose)
    BY <1>5 DEF First, Exit, Abort
  <2>2. pc' # "adjust"
    BY <2>1 DEF COpen, Start, Gone
  <2> QED
    BY <1>1, <1>4, <2>1, <2>2, EndsTracked
<1>6. CASE First /\ pc' # "down" /\ UNCHANGED <<error, edge>> /\ Measure
  <2>1. pc' # "adjust"
    BY <1>6 DEF First, Gone
  <2> QED
    BY <1>1, <1>2, <1>6, <2>1, StraightFirst, DriftFollows DEF OffsetHeld
<1>7. CASE (Wait \/ RunAgain) /\ CPulse
  <2>1. pc = "wait" /\ pc' # "adjust"
    BY <1>7 DEF Wait, RunAgain
  <2>2. Straight(off_stats, Offset, Rate)'
    BY <1>1, <1>7, <2>1, StraightPulse DEF OffsetHeld, Watching
  <2>3. pc' # "drift"
    <3>1. CASE Wait
      BY <1>2, <3>1, DriftFollows
    <3>2. CASE RunAgain
      BY <3>2 DEF RunAgain
    <3> QED
      BY <1>7, <3>1, <3>2
  <2> QED
    BY <2>1, <2>2, <2>3 DEF OffsetHeld
<1>8. CASE (Coarse \/ Fine \/ Trim) /\ CPulse
  <2>1. pc' \notin Watching \cup {"adjust"}
    BY <1>8 DEF Coarse, Fine, Trim, Watching
  <2> QED
    BY <1>3, <2>1
<1>9. CASE CEvalOffset
  <2>1. /\ pc = "offset" /\ pc' = "adjust" /\ off' = OffsetEstimate
        /\ dev' = M!RoundedRoot(M!VarianceOf(off_stats))
        /\ UNCHANGED <<error, edge>>
        /\ OffsetTurn(M!Rounded(M!DriftOf(off_stats)))
    BY <1>9 DEF CEvalOffset, OffsetTurn, CQuiet, clock
  <2>2. /\ Near(off', Offset, NaturalDrift + freq, j)
        /\ dev' <= Width(OffNb, NaturalDrift + freq, j)
    BY <2>1, OffsetIsNear, DeviationIsNarrow DEF OffsetFound, Rate
  <2>3. Offset' = Offset
    BY <2>1 DEF Offset
  <2>4. freq \in {freq', 0}
    BY <2>1 DEF OffsetTurn, kernel
  <2>5. Found(j)'
    BY <2>2, <2>3, <2>4 DEF Found
  <2> QED
    BY <2>1, <2>5 DEF OffsetHeld, Watching
<1>10. CASE \/ Jump /\ UNCHANGED windows
            \/ (Leave \/ Smooth \/ StartFine \/ SkipFine \/ StartTrim \/ SkipTrim) /\ CQuiet
  <2>1. pc' \notin Watching \cup {"adjust"}
    BY <1>10 DEF Jump, Leave, Smooth, StartFine, SkipFine, StartTrim, SkipTrim, Watching
  <2> QED
    BY <1>3, <2>1
<1>11. CASE CSettle
  <2>1. off_stats' = << >> /\ pc' # "adjust"
    BY <1>11 DEF CSettle, Settle, OffStats!Clear
  <2> QED
    BY <1>4, <2>1
<1>12. CASE CEvalDrift
  <2>1. pc = "drift" /\ pc' = "wait" /\ UNCHANGED off_stats
    BY <1>12 DEF CEvalDrift, EvalDriftAs
  <2> QED
    BY <1>4, <2>1 DEF OffsetHeld
<1>13. CASE UNCHANGED cvars
  <2>1. UNCHANGED <<error, edge, off_stats, pc, freq, off, dev>>
    BY <1>13 DEF cvars, clock, windows, vars, kernel, estimate
  <2>2. Offset' = Offset /\ Rate' = Rate
    BY <2>1 DEF Offset, Rate
  <2> QED
    BY <2>1, <2>2 DEF OffsetHeld, Found
<1> QED
  BY <1>5, <1>6, <1>7, <1>8, <1>9, <1>10, <1>11, <1>12, <1>13 DEF CNext, CSteps

LEMMA OffsetInvariant ==
    ASSUME NEW j, Jittered(j), Allows(2 * j), Follows
    PROVE  CSpec => [](CInv(2 * j) /\ OffsetHeld(j))
<1>1. CInit => CInv(2 * j) /\ OffsetHeld(j)
  BY CInvInit, EmptyStraight DEF CInit, Init, OffsetHeld, Watching
<1>2. CInv(2 * j) /\ OffsetHeld(j) /\ [CNext]_cvars => (CInv(2 * j) /\ OffsetHeld(j))'
  BY CInvStep, OffsetHeldStep
<1> QED
  BY <1>1, <1>2, PTL DEF CSpec

(* estimate_set and estimate_get: however the pulses of a window jitter, by j
   at most, twice the offset that is evaluated is where twice the clock's will
   be two seconds and a half after the last of them, to 14 j and a rounding.
   No window mixes offsets from before and after a correction. *)
THEOREM OffsetIsTheClocks ==
    ASSUME NEW j, Jittered(j), Allows(2 * j), Follows
    PROVE  CSpec => []OffsetFound(j)
<1>1. CInv(2 * j) /\ OffsetHeld(j) => OffsetFound(j)
  BY OffsetIsNear
<1> QED
  BY <1>1, OffsetInvariant, PTL

(* What a jump leaves of the offset. *)
JumpMeets(j) ==
    Jump => \E g \in {freq, 0} : Abs(2 * Offset' + 5 * (NaturalDrift + g)) <= 14 * j + 1

LEMMA JumpMeetsStep ==
    ASSUME NEW j, Jittered(j), CInv(2 * j), OffsetHeld(j), [CNext]_cvars
    PROVE  JumpMeets(j)
<1> SUFFICES ASSUME Jump
             PROVE  \E g \in {freq, 0} :
                        Abs(2 * Offset' + 5 * (NaturalDrift + g)) <= 14 * j + 1
  BY DEF JumpMeets
<1>1. pc = "adjust" /\ pc' = "settled" /\ cum_off' = cum_off + off /\ Found(j)
  BY DEF Jump, OffsetHeld
<1>2. /\ Offset \in Int /\ off \in Int /\ cum_off \in Int /\ error \in Int
      /\ NaturalDrift \in Int /\ freq \in Int /\ j \in Nat
      /\ PulseWidth \in Int /\ HwOffset \in Int
  BY ClockTypes, ClockConstants DEF CInv, ClockTyped, Jittered
<1>3. error' = error - off /\ UNCHANGED edge
  <2>1. CASE Jump /\ error' = error - off /\ UNCHANGED <<edge, windows>>
    BY <2>1
  <2>2. CASE Leave /\ CQuiet
    <3>1. UNCHANGED <<cum_off, error, edge>>
      BY <2>2 DEF Leave, CQuiet, clock
    <3>2. off = 0
      BY <1>1, <1>2, <3>1
    <3> QED
      BY <1>2, <3>1, <3>2
  <2>3. CASE UNCHANGED cvars
    <3>1. UNCHANGED pc
      BY <2>3 DEF cvars, vars
    <3> QED
      BY <1>1, <3>1
  <2> QED
    BY <1>1, <2>1, <2>2, <2>3
       DEF CNext, CSteps, COpen, Start, First, Wait, RunAgain, Exit, Abort, CEvalOffset,
           Coarse, Fine, Trim, Smooth, StartFine, SkipFine, StartTrim, SkipTrim,
           CSettle, Settle, CEvalDrift, EvalDriftAs
<1>4. Offset' = Offset - off
  BY <1>2, <1>3 DEF Offset, Stamp, EdgeDelay
<1>5. PICK g \in {freq, 0} : Near(off, Offset, NaturalDrift + g, j)
  BY <1>1 DEF Found
<1> DEFINE r == NaturalDrift + g o == Offset'
<1>6. r \in Int /\ o = Offset - off /\ Abs(2 * off - (2 * Offset + 5 * r)) <= 14 * j + 1
  BY <1>2, <1>4, <1>5 DEF Near
<1> HIDE DEF r, o
<1>7. Abs(2 * o + 5 * r) <= 14 * j + 1
  BY <1>2, <1>6 DEF Abs
<1> QED
  BY <1>5, <1>7 DEF o, r

(* A jump meets the pulses: it leaves the clock the offset that it will have
   drifted out of two seconds and a half after the last one, to 7 j and a
   rounding, at the rate that stands or, in the turn that first corrects the
   frequency, at the oscillator's own. *)
THEOREM JumpsMeetThePulses ==
    ASSUME NEW j, Jittered(j), Allows(2 * j), Follows
    PROVE  CSpec => [][JumpMeets(j)]_cvars
<1>1. CInv(2 * j) /\ OffsetHeld(j) /\ [CNext]_cvars => [JumpMeets(j)]_cvars
  BY JumpMeetsStep
<1> QED
  BY <1>1, OffsetInvariant, PTL DEF CSpec

-----------------------------------------------------------------------------
(* What corrections leave. *)

(* What the clock gains in a second when no offset is being corrected. *)
Slope == NaturalDrift + freq0

(* How many seconds a gradual correction has taken so far, and how many the
   one that is over may have taken: those of tick, one of tick and one of
   frequency. *)
Slewing == {"coarse", "rest", "fine", "last", "trim"}
Coarses == CoarseSeconds(PerTick)
Lasted == CASE pc = "coarse" -> {Coarses - s}
            [] pc \in {"rest", "fine"} -> {Coarses}
            [] OTHER -> Coarses .. Coarses + 1
Duration == IF Insignificant \/ Abrupt THEN {0} ELSE Coarses .. Coarses + 2

(* What is to be corrected is what was found, but for what the clock has
   drifted since, in k seconds. *)
Owed(k, j) ==
    \E g \in {freq0, 0} :
        /\ Abs(2 * (goal - Uncorrected) + 2 * (k * Slope) - 5 * (NaturalDrift + g)) <= 14 * j + 1
        /\ dev <= Width(OffNb, NaturalDrift + g, j)

(* The offset is what the clock will have drifted in k seconds, less what it
   drifts in two and a half, to the deviation, 7 j and a rounding; and the
   deviation is at most what it drifts while a window fills, and 2 j. *)
Met(k, j) ==
    \E g \in {freq0, 0} :
        /\ Abs(2 * Offset + 5 * (NaturalDrift + g) - 2 * (k * Slope)) <= 2 * dev + 14 * j + 1
        /\ dev <= Width(OffNb, NaturalDrift + g, j)

(* ppsd_adj_offset_ns did not refuse the offset. *)
Accepted == ~Bypassed /\ ~TooFar /\ (Abrupt \/ UsableTick)

OffsetMet(j) ==
    pc = "settled" /\ Accepted /\ Abs(freq0) <= Limit => \E k \in Duration : Met(k, j)

Owing(j) ==
    pc \in Slewing => /\ ~Insignificant /\ ~Abrupt
                      /\ Abs(freq0) <= Limit => \E k \in Lasted : Owed(k, j)

LEMMA Leftover ==
    ASSUME NEW x \in Int, NEW o \in Int, NEW y \in Int, NEW r \in Int,
           NEW d \in Nat, NEW m \in Nat,
           Abs(x) <= d, Abs(2 * (x - o) + 2 * y - 5 * r) <= m
    PROVE  Abs(2 * o + 5 * r - 2 * y) <= 2 * d + m
BY DEF Abs

(* A second passes during a correction. *)
LEMMA OwedLater ==
    ASSUME NEW j \in Nat, IInv, ClockTyped, FreqHeld, Abs(freq0) <= Limit,
           (Coarse \/ Fine \/ Trim) /\ CPulse, NEW k \in Int, Owed(k, j)
    PROVE  Owed(k + 1, j)' /\ Uncorrected' = Offset' + cum_off'
<1>1. /\ goal \in Int /\ Uncorrected \in Int /\ NaturalDrift \in Int /\ freq0 \in Int
      /\ goal' = goal /\ freq0' = freq0 /\ dev' = dev
  <2>1. Uncorrected \in Int /\ NaturalDrift \in Int
    BY ClockTypes DEF ClockTyped
  <2>2. goal \in Int /\ freq0 \in Int
    BY Types DEF IInv, TypeOK
  <2>3. goal' = goal /\ freq0' = freq0 /\ dev' = dev
    BY DEF Coarse, Fine, Trim, base, estimate
  <2> QED
    BY <2>1, <2>2, <2>3
<1>2. Restoring = freq0
  BY DEF FreqHeld
<1>3. Uncorrected' = Uncorrected + NaturalDrift + freq0 /\ Pending' = 0
  BY <1>2, SecondPasses DEF ClockTyped, Restoring, Pending
<1>4. Uncorrected' = Offset' + cum_off'
  <2>1. /\ Offset' \in Int /\ cum_off' \in Int
    <3>1. error' \in Int /\ UNCHANGED edge /\ cum_off' \in Int
      BY SecondPasses DEF ClockTyped
    <3> QED
      BY <3>1, ClockConstants DEF Offset, Stamp, EdgeDelay
  <2> QED
    BY <1>3, <2>1 DEF Uncorrected
<1>5. PICK g \in {freq0, 0} :
          /\ Abs(2 * (goal - Uncorrected) + 2 * (k * Slope) - 5 * (NaturalDrift + g)) <= 14 * j + 1
          /\ dev <= Width(OffNb, NaturalDrift + g, j)
  BY DEF Owed
<1> DEFINE y == k * Slope  z == (k + 1) * Slope  u == Uncorrected  v == Uncorrected'
           r == NaturalDrift + g
<1>6. y \in Int /\ z \in Int /\ z = y + Slope /\ Slope \in Int /\ r \in Int
  BY <1>1, <1>5 DEF Slope
<1>7. v = u + Slope
  BY <1>1, <1>3 DEF Slope
<1>8. u \in Int /\ Abs(2 * (goal - u) + 2 * y - 5 * r) <= 14 * j + 1
  BY <1>1, <1>5
<1> HIDE DEF y, z, u, v, r
<1>9. goal - v \in Int /\ 2 * (goal - v) + 2 * z - 5 * r = 2 * (goal - u) + 2 * y - 5 * r
  BY <1>1, <1>6, <1>7, <1>8
<1>10. Abs(2 * (goal - v) + 2 * z - 5 * r) <= 14 * j + 1
  BY <1>8, <1>9
<1>11. Slope' = Slope
  BY <1>1 DEF Slope
<1>12. g \in {freq0', 0} /\ (k + 1) * Slope' = z
  BY <1>1, <1>5, <1>11 DEF z
<1>13. Abs(2 * (goal' - Uncorrected') + 2 * ((k + 1) * Slope') - 5 * (NaturalDrift + g)) <= 14 * j + 1
  BY <1>1, <1>10, <1>12 DEF v, r
<1>14. Owed(k + 1, j)'
  BY <1>1, <1>5, <1>12, <1>13 DEF Owed
<1> QED
  BY <1>4, <1>14

(* Between two pulses of a correction. *)
LEMMA OwedMeanwhile ==
    ASSUME NEW j, IInv, ClockTyped, Tracked,
           (StartFine \/ SkipFine \/ StartTrim \/ SkipTrim) /\ CQuiet, NEW k, Owed(k, j)
    PROVE  Owed(k, j)'
<1>1. UNCHANGED <<goal, freq0, dev>>
  BY DEF StartFine, SkipFine, StartTrim, SkipTrim, base, estimate
<1>2. Uncorrected' = Uncorrected
  BY BetweenTracked DEF Between
<1> QED
  BY <1>1, <1>2 DEF Owed, Slope

(* A correction is over. *)
LEMMA OwedSettles ==
    ASSUME NEW j \in Nat, NEW k \in Int, Owed(k, j)', WholeCorrection', pc' = "settled",
           Uncorrected' = Offset' + cum_off', Offset' \in Int, IInv'
    PROVE  Met(k, j)'
<1>1. PICK g \in {freq0', 0} :
          /\ Abs(2 * (goal' - Uncorrected') + 2 * (k * Slope') - 5 * (NaturalDrift + g)) <= 14 * j + 1
          /\ dev' <= Width(OffNb, NaturalDrift + g, j)
  BY DEF Owed
<1>2. /\ freq0' \in Int /\ goal' \in Int /\ cum_off' \in Int /\ dev' \in Nat
      /\ Abs(goal' - cum_off') <= dev' /\ NaturalDrift \in Int
  BY Constants DEF IInv, TypeOK, WholeCorrection
<1> DEFINE x == goal' - cum_off'  o == Offset'  y == k * Slope'  r == NaturalDrift + g
           d == dev'  m == 14 * j + 1
<1>3. /\ x \in Int /\ o \in Int /\ r \in Int /\ d \in Nat /\ m \in Nat
      /\ Abs(x) <= d /\ 14 * j + 1 = m
  BY <1>1, <1>2
<1>4. y \in Int
  BY <1>2 DEF Slope
<1>5. goal' - Uncorrected' = x - o
  BY <1>2, <1>3
<1>6. Abs(2 * (x - o) + 2 * y - 5 * r) <= m
  BY <1>1, <1>5
<1> HIDE DEF x, o, y, r, d, m
<1>7. Abs(2 * o + 5 * r - 2 * y) <= 2 * d + m
  BY <1>3, <1>4, <1>6, Leftover
<1>8. 2 * d + m = 2 * dev' + 14 * j + 1
  BY <1>2 DEF d, m
<1>9. Abs(2 * Offset' + 5 * (NaturalDrift + g) - 2 * (k * Slope')) <= 2 * dev' + 14 * j + 1
  BY <1>7, <1>8 DEF o, r, y
<1> QED
  BY <1>1, <1>9 DEF Met

LEMMA CoarseCount ==
    ASSUME IInv
    PROVE  /\ Coarses \in Nat /\ s \in Nat /\ off \in Int /\ dev \in Nat /\ freq0 \in Int
           /\ Coarses \in Lasted \/ pc = "coarse"
           /\ Lasted \subseteq Int
<1>1. /\ off \in Int /\ Abs(off) \in Nat /\ s \in Nat /\ dev \in Nat /\ freq0 \in Int
  BY Types, Constants DEF IInv, TypeOK
<1>2. TickAdjMax * PerTick \in Nat /\ TickAdjMax * PerTick > 0
  BY Constants
<1> DEFINE m == TickAdjMax * PerTick  a == Abs(off)
<1>3. a \div m \in Nat
  <2>1. a \in Nat /\ m \in Nat /\ m > 0
    BY <1>1, <1>2
  <2> HIDE DEF a, m
  <2> QED
    BY <2>1
<1>4. Coarses \in Nat
  BY <1>3 DEF Coarses, CoarseSeconds
<1> QED
  BY <1>1, <1>4 DEF Lasted

(* What is being removed does not change while it is. *)
LEMMA SameCuts ==
    ASSUME UNCHANGED <<off, dev>>
    PROVE  /\ Coarses' = Coarses /\ (Insignificant' <=> Insignificant)
           /\ (Abrupt' <=> Abrupt) /\ Duration' = Duration
BY DEF Coarses, CoarseSeconds, Insignificant, Abrupt, Duration, PerTick, Abs

LEMMA OwingFrom ==
    ASSUME NEW j, UNCHANGED <<off, dev, freq0>>, pc' \in Slewing,
           ~Insignificant, ~Abrupt,
           Abs(freq0) <= Limit => \E k \in Lasted' : Owed(k, j)'
    PROVE  Owing(j)'
BY SameCuts DEF Owing, Limit, PerTick, Abs

(* A gradual correction begins. *)
LEMMA OwingSmooth ==
    ASSUME NEW j, Jittered(j), IInv, ClockTyped, Tracked, FreqHeld, OffsetHeld(j), Remaining,
           Smooth, CQuiet
    PROVE  Owing(j)'
<1>1. /\ pc = "adjust" /\ ~Insignificant /\ ~Abrupt /\ goal' = cum_off + off
      /\ UNCHANGED <<off, dev, freq0>> /\ s' = Coarses
      /\ pc' = IF s' > 0 THEN "coarse" ELSE "rest"
  <2>1. smooth_min' = PerTick
    BY UsableIsBoot DEF Smooth, PerTick, IInv
  <2> QED
    BY <2>1 DEF Smooth, Corrected, estimate, base, Coarses
<1>2. /\ Coarses \in Nat /\ off \in Int /\ dev \in Nat /\ freq0 \in Int /\ Coarses' = Coarses
  BY <1>1, CoarseCount, SameCuts
<1>3. 0 \in Lasted'
  BY <1>1, <1>2 DEF Lasted
<1>4. ASSUME Abs(freq0) <= Limit PROVE Owed(0, j)'
  <2>1. freq = freq0
    BY <1>1, <1>4 DEF FreqHeld, Restoring
  <2>2. PICK g \in {freq0, 0} : /\ Near(off, Offset, NaturalDrift + g, j)
                              /\ dev <= Width(OffNb, NaturalDrift + g, j)
    BY <1>1, <2>1 DEF OffsetHeld, Found
  <2>3. Uncorrected' = Uncorrected /\ Uncorrected = Offset + cum_off
    <3>1. Pending = 0 /\ Offset \in Int /\ cum_off \in Int
      BY <1>1, ClockTypes DEF Pending, ClockTyped
    <3>2. Between
      BY DEF Between
    <3> QED
      BY <3>1, <3>2, BetweenTracked DEF Uncorrected
  <2>4. /\ Offset \in Int /\ cum_off \in Int /\ NaturalDrift \in Int /\ j \in Nat
        /\ 0 * Slope' = 0
    <3>1. /\ Offset \in Int /\ cum_off \in Int /\ NaturalDrift \in Int /\ j \in Nat
      BY ClockTypes DEF ClockTyped, Jittered
    <3>2. Slope' \in Int
      BY <1>1, <1>2, <3>1 DEF Slope
    <3>3. \A t \in Int : 0 * t = 0
      OBVIOUS
    <3> QED
      BY <3>1, <3>2, <3>3, Zenon
  <2> DEFINE r == NaturalDrift + g  u == Uncorrected'
  <2>5. r \in Int /\ u = Offset + cum_off
    BY <1>2, <2>2, <2>3, <2>4
  <2>6. Abs(2 * off - (2 * Offset + 5 * r)) <= 14 * j + 1
    BY <2>2 DEF Near
  <2> HIDE DEF r, u
  <2>7. Abs(2 * ((cum_off + off) - u) + 2 * 0 - 5 * r) <= 14 * j + 1
    BY <1>2, <2>4, <2>5, <2>6 DEF Abs
  <2>8. Abs(2 * (goal' - Uncorrected') + 2 * (0 * Slope') - 5 * (NaturalDrift + g)) <= 14 * j + 1
    BY <1>1, <2>4, <2>7 DEF u, r
  <2>9. g \in {freq0', 0}
    BY <1>1, <2>2
  <2> QED
    BY <1>1, <2>2, <2>8, <2>9 DEF Owed
<1>5. pc' \in Slewing
  BY <1>1 DEF Slewing
<1> QED
  BY <1>1, <1>3, <1>4, <1>5, OwingFrom

(* It goes on. *)
LEMMA OwingStep ==
    ASSUME NEW j, Jittered(j), IInv, ClockTyped, Tracked, FreqHeld, Owing(j),
           \/ (Coarse \/ Fine) /\ CPulse
           \/ (StartFine \/ SkipFine \/ StartTrim) /\ CQuiet
    PROVE  Owing(j)'
<1>1. /\ pc \in Slewing /\ pc' \in Slewing /\ UNCHANGED <<off, dev, freq0>>
  BY DEF Coarse, Fine, StartFine, SkipFine, StartTrim, Slewing, estimate, base
<1>2. /\ ~Insignificant /\ ~Abrupt /\ j \in Nat
  BY <1>1 DEF Owing, Jittered
<1>3. /\ Coarses \in Nat /\ s \in Nat /\ Lasted \subseteq Int /\ Coarses' = Coarses
  BY <1>1, CoarseCount, SameCuts
<1>4. ASSUME Abs(freq0) <= Limit PROVE \E k \in Lasted' : Owed(k, j)'
  <2>1. PICK k \in Lasted : Owed(k, j)
    BY <1>1, <1>4 DEF Owing
  <2>2. k \in Int
    BY <1>3, <2>1
  <2>3. CASE (Coarse \/ Fine) /\ CPulse
    <3>1. Owed(k + 1, j)'
      BY <1>2, <1>4, <2>1, <2>2, <2>3, OwedLater
    <3>2. k + 1 \in Lasted'
      <4>1. CASE Coarse
        <5>1. /\ pc = "coarse" /\ s' = s - 1 /\ ((pc' = "coarse") \/ (s = 1 /\ pc' = "rest"))
          BY <4>1, NotLost, ClockConstants DEF Coarse, NoneLost
        <5>2. k = Coarses - s
          BY <2>1, <5>1 DEF Lasted
        <5> QED
          BY <1>3, <5>1, <5>2 DEF Lasted
      <4>2. CASE Fine
        <5>1. pc = "fine" /\ pc' = "last"
          BY <4>2 DEF Fine
        <5> QED
          BY <1>3, <2>1, <5>1 DEF Lasted
      <4> QED
        BY <2>3, <4>1, <4>2
    <3> QED
      BY <3>1, <3>2
  <2>4. CASE (StartFine \/ SkipFine \/ StartTrim) /\ CQuiet
    <3>1. Owed(k, j)'
      BY <2>1, <2>4, OwedMeanwhile
    <3>2. k \in Lasted'
      <4>1. \/ pc = "rest" /\ pc' \in {"fine", "last"}
            \/ pc = "last" /\ pc' = "trim"
        BY <2>4 DEF StartFine, SkipFine, StartTrim
      <4> QED
        BY <1>3, <2>1, <4>1 DEF Lasted
    <3> QED
      BY <3>1, <3>2
  <2> QED
    BY <2>3, <2>4
<1> QED
  BY <1>1, <1>2, <1>4, OwingFrom

LEMMA MetFrom ==
    ASSUME NEW j, UNCHANGED <<off, dev, freq0>>,
           Abs(freq0) <= Limit => \E k \in Duration : Met(k, j)'
    PROVE  OffsetMet(j)'
BY SameCuts DEF OffsetMet, Limit, PerTick, Abs

(* It ends. *)
LEMMA MetSlewed ==
    ASSUME NEW j, Jittered(j), IInv, ClockTyped, Tracked, FreqHeld, Owing(j),
           IInv', Remaining', (Trim /\ CPulse) \/ (SkipTrim /\ CQuiet)
    PROVE  OffsetMet(j)'
<1>1. /\ pc \in {"last", "trim"} /\ pc' = "settled" /\ UNCHANGED <<off, dev, freq0>>
  BY DEF Trim, SkipTrim, estimate, base
<1>2. /\ ~Insignificant /\ ~Abrupt /\ j \in Nat /\ WholeCorrection'
  BY <1>1 DEF Owing, Slewing, Jittered, Remaining
<1>3. /\ Coarses \in Nat /\ Duration = Coarses .. Coarses + 2
      /\ Lasted = Coarses .. Coarses + 1
  BY <1>1, <1>2, CoarseCount DEF Duration, Lasted
<1>4. Offset' \in Int /\ cum_off' \in Int
  <2>1. error' \in Int /\ UNCHANGED edge /\ cum_off' \in Int
    <3>1. CASE Trim /\ CPulse
      BY <3>1, SecondPasses DEF ClockTyped
    <3>2. CASE SkipTrim /\ CQuiet
      BY <3>2, ClockTypes DEF SkipTrim, CQuiet, clock, ClockTyped
    <3> QED
      BY <3>1, <3>2
  <2> QED
    BY <2>1, ClockConstants DEF Offset, Stamp, EdgeDelay
<1>5. Uncorrected' = Offset' + cum_off'
  <2>1. Pending' = 0
    BY <1>1 DEF Pending
  <2> QED
    BY <1>4, <2>1 DEF Uncorrected
<1>6. ASSUME Abs(freq0) <= Limit PROVE \E k \in Duration : Met(k, j)'
  <2>1. PICK k \in Lasted : Owed(k, j)
    BY <1>1, <1>6 DEF Owing, Slewing
  <2>2. CASE Trim /\ CPulse
    <3>1. Owed(k + 1, j)' /\ k + 1 \in Duration
      BY <1>2, <1>3, <1>6, <2>1, <2>2, OwedLater
    <3>2. Met(k + 1, j)'
      BY <1>1, <1>2, <1>3, <1>4, <1>5, <3>1, OwedSettles
    <3> QED
      BY <3>1, <3>2
  <2>3. CASE SkipTrim /\ CQuiet
    <3>1. Owed(k, j)' /\ k \in Duration
      BY <1>3, <2>1, <2>3, OwedMeanwhile
    <3>2. Met(k, j)'
      BY <1>1, <1>2, <1>3, <1>4, <1>5, <3>1, OwedSettles
    <3> QED
      BY <3>1, <3>2
  <2> QED
    BY <2>2, <2>3
<1> QED
  BY <1>1, <1>6, MetFrom

(* A jump meets the offset at once, and one that is less than its deviation
   is left. *)
LEMMA MetAtOnce ==
    ASSUME NEW j, Jittered(j), IInv, ClockTyped, FreqHeld, OffsetHeld(j),
           \/ Leave /\ CQuiet
           \/ Jump /\ error' = error - off /\ UNCHANGED <<edge, windows>>
    PROVE  OffsetMet(j)'
<1>1. /\ pc = "adjust" /\ pc' = "settled" /\ UNCHANGED <<off, dev, freq0, tick>> /\ Found(j)
  BY DEF Leave, Jump, estimate, base, kernel, OffsetHeld
<1>2. /\ off \in Int /\ dev \in Nat /\ freq0 \in Int /\ j \in Nat /\ NaturalDrift \in Int
      /\ Offset \in Int /\ error \in Int
  BY CoarseCount, ClockTypes DEF ClockTyped, Jittered
<1>3. \/ Offset' = Offset /\ (Accepted' => -dev < off /\ off < dev /\ Insignificant)
      \/ Offset' = Offset - off /\ Abrupt
  <2>1. CASE Leave /\ CQuiet
    <3>1. Offset' = Offset
      BY <2>1 DEF CQuiet, clock, Offset
    <3>2. Accepted' => Insignificant
      BY <1>1, <2>1 DEF Leave, Corrected, Accepted, Bypassed, TooFar, Abrupt, UsableTick
    <3> QED
      BY <3>1, <3>2 DEF Insignificant
  <2>2. CASE Jump /\ error' = error - off /\ UNCHANGED edge
    <3>1. Offset' = Offset - off
      BY <1>2, <2>2, ClockConstants DEF Offset, Stamp, EdgeDelay
    <3> QED
      BY <2>2, <3>1 DEF Jump
  <2> QED
    BY <2>1, <2>2
<1>4. ASSUME Abs(freq0) <= Limit, Accepted' PROVE \E k \in Duration : Met(k, j)'
  <2>1. freq = freq0
    BY <1>1, <1>4 DEF FreqHeld, Restoring
  <2>2. PICK g \in {freq0, 0} : /\ Near(off, Offset, NaturalDrift + g, j)
                              /\ dev <= Width(OffNb, NaturalDrift + g, j)
    BY <1>1, <2>1 DEF Found
  <2> DEFINE r == NaturalDrift + g  o == Offset'  m == 14 * j + 1
  <2>3. /\ r \in Int /\ m \in Nat /\ o \in Int
        /\ Abs(2 * off - (2 * Offset + 5 * r)) <= m
        /\ (o = Offset /\ -dev < off /\ off < dev) \/ o = Offset - off
    BY <1>2, <1>3, <1>4, <2>2 DEF Near
  <2> HIDE DEF r, o, m
  <2>4. Abs(2 * o + 5 * r) <= 2 * dev + m /\ 2 * o + 5 * r \in Int
    BY <1>2, <2>3 DEF Abs
  <2>5. 2 * (0 * Slope') = 0
    <3>1. Slope' \in Int
      BY <1>1, <1>2 DEF Slope
    <3>2. \A t \in Int : 2 * (0 * t) = 0
      OBVIOUS
    <3> QED
      BY <3>1, <3>2, Zenon
  <2>6. 2 * o + 5 * r - 2 * (0 * Slope') = 2 * o + 5 * r
    BY <2>3, <2>4, <2>5
  <2>7. Abs(2 * o + 5 * r - 2 * (0 * Slope')) <= 2 * dev' + 14 * j + 1
    BY <1>1, <1>2, <2>4, <2>6 DEF m
  <2>8. Abs(2 * Offset' + 5 * (NaturalDrift + g) - 2 * (0 * Slope')) <= 2 * dev' + 14 * j + 1
    BY <2>7 DEF o, r
  <2>9. g \in {freq0', 0}
    BY <1>1, <2>2
  <2>10. 0 \in Duration
    BY <1>3, <1>4 DEF Duration
  <2>11. Met(0, j)'
    BY <1>1, <2>2, <2>8, <2>9 DEF Met
  <2> QED
    BY <2>10, <2>11
<1>5. ASSUME (Abs(freq0) <= Limit)', Accepted' PROVE (\E k \in Duration : Met(k, j))'
  <2>1. Abs(freq0) <= Limit
    BY <1>1, <1>5 DEF Limit, PerTick, Abs
  <2> QED
    BY <1>1, <1>4, <1>5, <2>1, SameCuts
<1> QED
  BY <1>5 DEF OffsetMet

CorrectionInv(j) ==
    CInv(2 * j) /\ OffsetHeld(j) /\ FreqHeld /\ Remaining /\ Owing(j) /\ OffsetMet(j)

LEMMA CorrectionInvStep ==
    ASSUME NEW j, Jittered(j), Allows(2 * j), Follows, PerTick < MaxFreq
    PROVE  CorrectionInv(j) /\ [CNext]_cvars => CorrectionInv(j)'
<1> SUFFICES ASSUME CorrectionInv(j), [CNext]_cvars PROVE CorrectionInv(j)'
  OBVIOUS
<1>1. /\ CInv(2 * j) /\ OffsetHeld(j) /\ FreqHeld /\ Remaining /\ Owing(j) /\ OffsetMet(j)
      /\ IInv /\ ClockTyped /\ Tracked
  BY DEF CorrectionInv, CInv
<1>2. [Next]_vars
  BY <1>1, StepImplements
<1>3. /\ CInv(2 * j)' /\ OffsetHeld(j)' /\ FreqHeld' /\ Remaining' /\ IInv'
  <2>1. CInv(2 * j)' /\ IInv'
    BY <1>1, CInvStep DEF CInv
  <2>2. OffsetHeld(j)'
    BY <1>1, OffsetHeldStep
  <2>3. FreqHeld' /\ Remaining'
    BY <1>1, <1>2, FreqHeldStep, RemainingStep, ClockConstants DEF NoneLost
  <2> QED
    BY <2>1, <2>2, <2>3
<1>4. ASSUME pc' \notin Slewing \cup {"settled"} PROVE Owing(j)' /\ OffsetMet(j)'
  BY <1>4 DEF Owing, OffsetMet, Slewing
<1>5. Owing(j)' /\ OffsetMet(j)'
  <2>1. CASE COpen \/ First \/ Exit \/ Abort \/ CEvalOffset \/ CSettle \/ CEvalDrift
               \/ Wait \/ RunAgain
    <3>1. pc' \notin Slewing \cup {"settled"}
      BY <2>1 DEF COpen, Start, First, Exit, Abort, Gone, CEvalOffset, OffsetTurn, CSettle,
                  Settle, CEvalDrift, EvalDriftAs, Wait, RunAgain, Slewing
    <3> QED
      BY <1>4, <3>1
  <2>2. CASE Smooth /\ CQuiet
    <3>1. pc' # "settled"
      BY <2>2 DEF Smooth
    <3> QED
      BY <1>1, <2>2, <3>1, OwingSmooth DEF OffsetMet
  <2>3. CASE \/ (Coarse \/ Fine) /\ CPulse
             \/ (StartFine \/ SkipFine \/ StartTrim) /\ CQuiet
    <3>1. pc' # "settled"
      BY <2>3 DEF Coarse, Fine, StartFine, SkipFine, StartTrim
    <3> QED
      BY <1>1, <2>3, <3>1, OwingStep DEF OffsetMet
  <2>4. CASE (Trim /\ CPulse) \/ (SkipTrim /\ CQuiet)
    <3>1. pc' = "settled"
      BY <2>4 DEF Trim, SkipTrim
    <3> QED
      BY <1>1, <1>3, <2>4, <3>1, MetSlewed DEF Owing, Slewing
  <2>5. CASE \/ Leave /\ CQuiet
             \/ Jump /\ error' = error - off /\ UNCHANGED <<edge, windows>>
    <3>1. pc' = "settled"
      BY <2>5 DEF Leave, Jump
    <3> QED
      BY <1>1, <2>5, <3>1, MetAtOnce DEF Owing, Slewing
  <2>6. CASE UNCHANGED cvars
    <3>1. UNCHANGED <<pc, off, dev, freq0, tick, s, goal, error, edge, cum_off, adj>>
      BY <2>6 DEF cvars, clock, vars, estimate, base, kernel, smooth
    <3>2. /\ Uncorrected' = Uncorrected /\ Offset' = Offset /\ Slope' = Slope
          /\ Lasted' = Lasted
      BY <3>1, SameCuts DEF Uncorrected, Offset, Pending, PerTick, Slope, Lasted
    <3>3. Limit' = Limit /\ (Accepted' <=> Accepted)
      BY <3>1 DEF Limit, PerTick, Accepted, Bypassed, TooFar, Abrupt, UsableTick
    <3>4. \A k : (Owed(k, j)' <=> Owed(k, j)) /\ (Met(k, j)' <=> Met(k, j))
      BY <3>1, <3>2 DEF Owed, Met
    <3>5. Owing(j)'
      BY <1>1, <3>1, <3>2, <3>3, <3>4, SameCuts DEF Owing, Abs
    <3>6. OffsetMet(j)'
      BY <1>1, <3>1, <3>3, <3>4, SameCuts DEF OffsetMet, Abs
    <3> QED
      BY <3>5, <3>6
  <2> QED
    BY <2>1, <2>2, <2>3, <2>4, <2>5, <2>6 DEF CNext, CSteps
<1> QED
  BY <1>3, <1>5 DEF CorrectionInv

(* ppsd_adj_offset_ns: every correction that is not refused meets the pulses,
   whether it is a jump, some seconds at another rate, or none for an offset
   less than its deviation.  When it returns, the clock's offset is what it
   drifts in the k seconds that the correction has taken, less what it drifts
   in the two and a half that the estimate looks ahead, to the deviation, 7 j
   and a rounding.  The deviation has a bound too: of a clock that did not
   drift, whatever its offset was, no more than 9 j and a rounding is left.
   A gradual correction takes as long as the offset is large and at most two
   seconds more. *)
THEOREM CorrectionsMeetThePulses ==
    ASSUME NEW j, Jittered(j), Allows(2 * j), Follows, PerTick < MaxFreq
    PROVE  CSpec => []OffsetMet(j)
<1>1. CInit => CorrectionInv(j)
  <2> SUFFICES ASSUME CInit PROVE CorrectionInv(j)
    OBVIOUS
  <2>1. CInv(2 * j)
    BY CInvInit
  <2>2. pc = "down" /\ off_stats = << >> /\ freq = freq0 /\ freq \in Int /\ Limit \in Nat
    <3>1. freq \in InitFreqs /\ pc = "down" /\ off_stats = << >> /\ freq = freq0
      BY DEF CInit, Init
    <3>2. MaxFreq \in Nat /\ PerTick \in Nat /\ freq \in -MaxFreq .. MaxFreq
      BY <3>1, Constants
    <3>3. Limit \in Nat
      BY <3>2 DEF Limit
    <3> QED
      BY <3>1, <3>2, <3>3
  <2>3. OffsetHeld(j) /\ Remaining /\ Owing(j) /\ OffsetMet(j)
    BY <2>2, EmptyStraight
       DEF OffsetHeld, Watching, Remaining, WholeCorrection, Owing, Slewing, OffsetMet
  <2>4. FreqHeld
    BY <2>2 DEF FreqHeld, Restoring
  <2> QED
    BY <2>1, <2>3, <2>4 DEF CorrectionInv
<1>2. CorrectionInv(j) /\ [CNext]_cvars => CorrectionInv(j)'
  BY CorrectionInvStep
<1>3. CorrectionInv(j) => OffsetMet(j)
  BY DEF CorrectionInv
<1> QED
  BY <1>1, <1>2, <1>3, PTL DEF CSpec
=============================================================================
