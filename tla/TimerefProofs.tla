---------------------------- MODULE TimerefProofs ----------------------------
(***************************************************************************)
(* Proofs about Timeref: whatever the servers do, the clock is only set    *)
(* from a time that was just received.                                     *)
(***************************************************************************)
EXTENDS Timeref, TLAPS

(* Which of the two answers can hold a former query's, at each pc. *)
Asking ==
    /\ OneProtocol
    /\ pc = "sntp" => ret_gpsd <= 0
    /\ pc \in {"gpsd", "fix"} => ret_sntp <= 0

(* How far the time received can be from the true one. *)
Received ==
    pc = "answered" =>
        /\ ret_sntp > 0 => \E d \in Delays : timeref = -d
        /\ ret_gpsd > 0 => timeref = -phase /\ timestamp = skew

(* The same once _once has returned, and the offset it has returned. *)
Measured ==
    pc = "first" =>
        /\ ret_sntp > 0 => \E d \in Delays : timeref \in -(Second + d) .. 0
        /\ ret_gpsd > 0 => timeref \in 1 .. Second /\ off = skew - timeref
        /\ ret_sntp <= 0 /\ ret_gpsd <= 0 => off = 0

IInv == TypeOK /\ Asking /\ Received /\ Measured

LEMMA Constants ==
    /\ Second \in Nat /\ 0 < Second
    /\ FixTimeout \in Nat /\ 0 < FixTimeout
    /\ MaxServers \in Nat /\ 0 < MaxServers
    /\ MaxOffset \in Nat /\ 0 < MaxOffset
    /\ Processing \subseteq Nat /\ Delays \subseteq Nat /\ Delays # {}
    /\ Garbage \subseteq Int /\ Skews \subseteq Int
<1>1. {Second, MaxOffset, FixTimeout, MaxServers} \subseteq Nat \ {0}
  BY TimerefAssumption
<1>2. Processing \cup Delays \subseteq Nat /\ Delays # {}
  BY TimerefAssumption
<1>3. Garbage \cup Skews \subseteq Int
  BY TimerefAssumption
<1>4. /\ Second \in Nat \ {0} /\ MaxOffset \in Nat \ {0}
      /\ FixTimeout \in Nat \ {0} /\ MaxServers \in Nat \ {0}
  BY <1>1
<1> QED
  BY <1>2, <1>3, <1>4

LEMMA InvInit == Init => IInv
<1> SUFFICES ASSUME Init PROVE IInv
  OBVIOUS
<1>1. /\ timeref \in Int /\ timestamp \in Int /\ skew \in Int
      /\ servers \in 0 .. MaxServers - 1 /\ phase \in 0 .. Second - 1
      /\ to \in 0 .. FixTimeout
  BY Constants DEF Init
<1>2. TypeOK
  <2>1. /\ options \in [set : BOOLEAN, force : BOOLEAN, cont : BOOLEAN]
        /\ looping \in BOOLEAN /\ fallback \in BOOLEAN
    BY Zenon DEF Init
  <2>2. /\ pc = "query" /\ ret_gpsd = 0 /\ ret_sntp = 0 /\ off = 0
    BY Zenon DEF Init
  <2> QED
    BY <1>1, <2>1, <2>2 DEF TypeOK
<1>3. Asking /\ Received /\ Measured
  BY DEF Init, Asking, OneProtocol, Received, Measured
<1> QED
  BY <1>2, <1>3 DEF IInv

(* The end of _once, where the times are put right. *)
LEMMA InvAnswered ==
    ASSUME IInv, Answered
    PROVE  IInv'
<1> DEFINE read == IF ret_gpsd > 0 THEN timeref + Second ELSE timeref
           slept == IF ret_sntp > 0 THEN Second - ((phase + read) % Second) ELSE 0
<1>1. /\ pc = "answered" /\ pc' \in {"again", "first"}
      /\ UNCHANGED <<options, servers, looping, answers, fallback, to, skew>>
      /\ IF ret_gpsd <= 0 /\ ret_sntp <= 0
         THEN off' = 0 /\ UNCHANGED times
         ELSE /\ off' = timestamp - read
              /\ timeref' = read - slept
              /\ timestamp' = timestamp - slept
              /\ phase' = (phase + slept) % Second
  BY DEF Answered
<1>0. /\ ret_sntp \in Int /\ ret_gpsd \in Int /\ timeref \in Int /\ skew \in Int
  BY DEF IInv, TypeOK
<1>2. read \in Int /\ slept \in 0 .. Second
  BY Constants DEF IInv, TypeOK
<1>3. ret_sntp <= 0 => slept = 0
  BY DEF IInv, TypeOK
<1>4. ret_gpsd <= 0 => read = timeref
  BY DEF IInv, TypeOK
<1>5. ret_gpsd > 0 => read = timeref + Second
  OBVIOUS
<1> HIDE DEF read, slept
<1>6. TypeOK'
  BY <1>1, <1>2, Constants DEF IInv, TypeOK, times, answers
<1>7. Asking' /\ Received'
  BY <1>1 DEF IInv, Asking, OneProtocol, Received, answers
<1>8. ASSUME ret_sntp > 0
      PROVE  \E d \in Delays : timeref' \in -(Second + d) .. 0
  <2>1. PICK d \in Delays : timeref = -d
    BY <1>1, <1>8 DEF IInv, Received
  <2>2. ret_gpsd <= 0
    BY <1>8 DEF IInv, TypeOK, Asking, OneProtocol
  <2>3. timeref' = -d - slept /\ d \in Nat
    BY <1>0, <1>1, <1>4, <1>8, <2>1, <2>2, Constants
  <2>4. timeref' \in -(Second + d) .. 0
    BY <1>2, <2>3, Constants
  <2> QED
    BY <2>4
<1>9. ASSUME ret_gpsd > 0
      PROVE  timeref' \in 1 .. Second /\ off' = skew' - timeref'
  <2>1. timeref = -phase /\ timestamp = skew /\ phase \in 0 .. Second - 1
    BY <1>1, <1>9 DEF IInv, Received, TypeOK
  <2>2. ret_sntp <= 0
    BY <1>9 DEF IInv, TypeOK, Asking, OneProtocol
  <2>3. timeref' = Second - phase /\ off' = skew - (Second - phase) /\ skew' = skew
    BY <1>0, <1>1, <1>2, <1>3, <1>5, <1>9, <2>1, <2>2, Constants
  <2> QED
    BY <2>1, <2>3, Constants
<1>10. Measured'
  BY <1>1, <1>8, <1>9 DEF Measured, answers
<1> QED
  BY <1>6, <1>7, <1>10 DEF IInv

LEMMA TypeStep == IInv /\ [Next]_vars => TypeOK'
<1> SUFFICES ASSUME IInv, [Next]_vars PROVE TypeOK'
  OBVIOUS
<1>1. TypeOK
  BY DEF IInv
<1> USE <1>1, Constants DEF TypeOK, answers, times
<1>2. CASE Query \/ SntpFails \/ SntpLost
  BY <1>2 DEF Query, SntpFails, SntpLost
<1>3. CASE SntpAnswers
  <2>1. timeref' \in Int /\ timestamp' \in Int
    BY <1>3 DEF SntpAnswers
  <2> QED
    BY <1>3, <2>1 DEF SntpAnswers
<1>4. CASE NoFix
  <2>1. timeref' \in Int /\ timestamp' \in Int /\ to' \in 0 .. FixTimeout
    BY <1>4 DEF NoFix
  <2>2. /\ ret_gpsd' \in {-1, 0, 1} /\ pc' \in {"answered", "fix"}
        /\ pc' = "fix" => to' < FixTimeout
    BY <1>4, <2>1 DEF NoFix
  <2> QED
    BY <1>4, <2>1, <2>2 DEF NoFix
<1>5. CASE Fix
  <2>1. timeref' \in Int /\ timestamp' \in Int /\ phase' \in 0 .. Second - 1
    BY <1>5 DEF Fix
  <2> QED
    BY <1>5, <2>1 DEF Fix
<1>6. CASE Answered
  BY <1>6, InvAnswered DEF IInv
<1>7. CASE Ask \/ SetClock \/ Again
  BY <1>7 DEF Ask, SetClock, Moved, Again, IInv
<1>8. CASE GpsdRefuses \/ GpsdAccepts
  BY <1>8 DEF GpsdRefuses, GpsdAccepts
<1>9. CASE UNCHANGED vars
  BY <1>9 DEF vars
<1> QED
  BY <1>2, <1>3, <1>4, <1>5, <1>6, <1>7, <1>8, <1>9 DEF Next

LEMMA InvStep == IInv /\ [Next]_vars => IInv'
<1> SUFFICES ASSUME IInv, [Next]_vars PROVE IInv'
  OBVIOUS
<1>1. TypeOK'
  BY TypeStep
<1>2. /\ ret_gpsd \in {-1, 0, 1} /\ ret_sntp \in {-1, 0, 1}
      /\ Asking /\ Received /\ Measured
  BY DEF IInv, TypeOK
<1> USE <1>2 DEF Asking, OneProtocol, Received, Measured, answers, times
<1>3. CASE Query \/ SntpFails \/ SntpLost \/ GpsdRefuses \/ GpsdAccepts
  <2>1. (Asking /\ Received /\ Measured)'
    BY <1>3 DEF Query, SntpFails, SntpLost, GpsdRefuses, GpsdAccepts
  <2> QED
    BY <1>1, <2>1 DEF IInv
<1>4. CASE SntpAnswers \/ NoFix \/ Fix
  <2>1. (Asking /\ Received /\ Measured)'
    BY <1>4 DEF SntpAnswers, NoFix, Fix
  <2> QED
    BY <1>1, <2>1 DEF IInv
<1>5. CASE Answered
  BY <1>5, InvAnswered
<1>6. CASE Ask \/ SetClock \/ Again
  <2>1. (Asking /\ Received /\ Measured)'
    BY <1>6 DEF Ask, SetClock, Again
  <2> QED
    BY <1>1, <2>1 DEF IInv
<1>7. CASE UNCHANGED vars
  <2>1. (Asking /\ Received /\ Measured)'
    BY <1>7 DEF vars
  <2> QED
    BY <1>1, <2>1 DEF IInv
<1> QED
  BY <1>3, <1>4, <1>5, <1>6, <1>7 DEF Next

(* Types, for every behaviour of the servers. *)
THEOREM TypeCorrect == Spec => []TypeOK
<1>1. IInv => TypeOK
  BY DEF IInv
<1> QED
  BY <1>1, InvInit, InvStep, PTL DEF Spec

(* GPSD and SNTP are never both taken for the protocol that answered, however
   long the program goes on asking. *)
THEOREM OneProtocolAnswers == Spec => []OneProtocol
<1>1. IInv => OneProtocol
  BY DEF IInv, Asking
<1> QED
  BY <1>1, InvInit, InvStep, PTL DEF Spec

(* The clock is only set from a time just received, and is then within a
   second of the true time and the answer's delay, however wrong it was. *)
THEOREM SetsRight == Spec => SetWithinASecond
<1>1. ASSUME IInv, [Next]_vars, skew' # skew,
             ret_gpsd > 0 \/ Abs(off) >= MaxOffset
      PROVE  \E d \in Delays : Abs(skew') <= Second + d
  <2>1. pc = "first" /\ off # 0 /\ skew' = Moved
    BY <1>1 DEF Next, Query, SntpFails, SntpLost, SntpAnswers, GpsdRefuses,
                GpsdAccepts, NoFix, Fix, Answered, Ask, SetClock, Again, vars
  <2>2. CASE ret_gpsd > 0
    <3>1. timeref \in 1 .. Second /\ off = skew - timeref /\ skew \in Int
      BY <1>1, <2>1, <2>2 DEF IInv, Measured, TypeOK
    <3>2. skew' \in 1 .. Second
      BY <2>1, <3>1, Constants DEF Moved
    <3>3. PICK d \in Delays : d \in Nat
      BY Constants
    <3>4. d \in Delays /\ d \in Nat
      BY <3>3, Constants
    <3>5. \A n \in 1 .. Second : Abs(n) <= Second + d
      BY <3>4, Constants DEF Abs
    <3> QED
      BY <3>2, <3>4, <3>5
  <2>3. CASE ret_gpsd <= 0
    <3>1. ret_sntp > 0 /\ Abs(off) >= MaxOffset
      BY <1>1, <2>1, <2>3 DEF IInv, Measured, TypeOK
    <3>2. PICK d \in Delays : timeref \in -(Second + d) .. 0
      BY <1>1, <2>1, <3>1 DEF IInv, Measured
    <3>3. skew' = timeref
      BY <2>1, <3>1 DEF Moved
    <3>4. Abs(skew') <= Second + d
      BY <3>2, <3>3, Constants DEF Abs
    <3> QED
      BY <3>4
  <2> QED
    BY <1>1, <2>2, <2>3 DEF IInv, TypeOK
<1>2. IInv /\ [Next]_vars
        => [skew' # skew /\ (ret_gpsd > 0 \/ Abs(off) >= MaxOffset)
                => \E d \in Delays : Abs(skew') <= Second + d]_vars
  BY <1>1
<1> QED
  BY <1>2, InvInit, InvStep, PTL DEF Spec, SetWithinASecond
=============================================================================
