--------------------------- MODULE TimespecProofs ---------------------------
(***************************************************************************)
(* Proofs about Timespec: timespec_norm keeps the time it is given and     *)
(* brings it in normal form, for every number of nanoseconds in a second   *)
(* and every input, and timespec_cmp orders what is in that form.          *)
(***************************************************************************)
EXTENDS Timespec, TLAPS

(* A second carried from a part to the other. *)
LEMMA CarryKeeps ==
    ASSUME NEW a \in Int, NEW b \in Int
    PROVE  /\ (a + 1) * Second + (b - Second) = a * Second + b
           /\ (a - 1) * Second + (b + Second) = a * Second + b
<1>1. Second \in Int
  BY TimespecAssumption
<1> QED
  BY <1>1

(* What the third loop relies on: it is the second part's sign that is wrong,
   or nothing is, and one turn is enough. *)
Heading ==
    /\ pc = "negative" => ts.sec <= 0 /\ (ts.sec = 0 => ts.nsec <= 0)
    /\ pc = "positive" => ts.sec >= 0 /\ (ts.sec = 0 => ts.nsec >= 0)

IInv == TypeOK /\ ValueKept /\ Heading /\ NormalForm

LEMMA InvInit == Init => IInv
BY TimespecAssumption
   DEF Init, IInv, TypeOK, ValueKept, Heading, NormalForm, Timespecs, Zero,
       ToNs, DiffNs

LEMMA InputTypes ==
    ASSUME NEW t \in Inputs
    PROVE  t \in Timespecs /\ t.sec \in Int /\ t.nsec \in Int
<1>1. Parts \subseteq Int /\ Nanoseconds \subseteq Int
  BY TimespecAssumption
<1>2. t.sec \in Parts /\ t.nsec \in Nanoseconds
  BY DEF Inputs
<1>3. t = [sec |-> t.sec, nsec |-> t.nsec]
  BY DEF Inputs
<1>4. t.sec \in Int /\ t.nsec \in Int
  BY <1>1, <1>2
<1> QED
  BY <1>3, <1>4 DEF Timespecs

(* The three ways to call timespec_norm. *)
LEMMA InvDiff ==
    ASSUME IInv, NEW t0 \in Inputs, NEW t1 \in Inputs, Diff(t1, t0)
    PROVE  IInv'
<1>1. /\ t0 \in Timespecs /\ t1 \in Timespecs
      /\ t0.sec \in Int /\ t0.nsec \in Int /\ t1.sec \in Int /\ t1.nsec \in Int
      /\ Second \in Int
  BY InputTypes, TimespecAssumption
<1> QED
  BY <1>1
     DEF Diff, IInv, TypeOK, ValueKept, Heading, NormalForm, Timespecs, ToNs,
         DiffNs

LEMMA InvSum ==
    ASSUME IInv, NEW t0 \in Inputs, NEW t1 \in Inputs, Sum(t0, t1)
    PROVE  IInv'
<1>1. /\ t0 \in Timespecs /\ t1 \in Timespecs
      /\ t0.sec \in Int /\ t0.nsec \in Int /\ t1.sec \in Int /\ t1.nsec \in Int
      /\ Second \in Int
  BY InputTypes, TimespecAssumption
<1>2. t0.sec - (-t1.sec) = t0.sec + t1.sec
  BY <1>1
<1>3. DiffNs(t0, Minus(t1)) = ToNs([sec |-> t0.sec + t1.sec, nsec |-> t0.nsec + t1.nsec])
  BY <1>1, <1>2 DEF DiffNs, Minus, ToNs
<1>4. ValueKept'
  BY <1>3 DEF Sum, ValueKept, ToNs, DiffNs
<1>5. TypeOK'
  BY <1>1 DEF Sum, Minus, TypeOK, Timespecs
<1> QED
  BY <1>4, <1>5 DEF Sum, IInv, Heading, NormalForm

LEMMA InvShift ==
    ASSUME IInv, NEW t \in Inputs, NEW ns \in Nanoseconds, Shift(t, ns)
    PROVE  IInv'
<1>1. /\ t \in Timespecs /\ t.sec \in Int /\ t.nsec \in Int
      /\ ns \in Int /\ Second \in Int
  BY InputTypes, TimespecAssumption
<1>2. ts' = [sec |-> t.sec, nsec |-> t.nsec - ns]
  BY <1>1 DEF Shift, Timespecs
<1>3. t.sec - 0 = t.sec
  BY <1>1
<1>4. DiffNs(t, [sec |-> 0, nsec |-> ns]) = ToNs([sec |-> t.sec, nsec |-> t.nsec - ns])
  BY <1>1, <1>3 DEF DiffNs, ToNs
<1>5. ValueKept'
  BY <1>2, <1>4 DEF Shift, ValueKept, ToNs, DiffNs
<1>6. TypeOK'
  BY <1>1, <1>2 DEF Shift, TypeOK, Timespecs
<1> QED
  BY <1>5, <1>6 DEF Shift, IInv, Heading, NormalForm

(* A turn of a loop, whichever. *)
LEMMA InvTurn ==
    ASSUME IInv, NEW n \in {-1, 1}, Carry(n)
    PROVE  /\ ts' \in Timespecs
           /\ ts'.sec = ts.sec + n
           /\ ts'.nsec = ts.nsec - n * Second
           /\ ToNs(ts)' = ToNs(ts)
<1>1. ts.sec \in Int /\ ts.nsec \in Int /\ Second \in Int
  BY TimespecAssumption DEF IInv, TypeOK, Timespecs
<1>2. CASE n = 1
  <2>1. ts' = [sec |-> ts.sec + 1, nsec |-> ts.nsec - Second]
    BY <1>1, <1>2 DEF Carry
  <2> QED
    BY <1>1, <1>2, <2>1, CarryKeeps DEF Timespecs, ToNs
<1>3. CASE n = -1
  <2>1. ts' = [sec |-> ts.sec - 1, nsec |-> ts.nsec + Second]
    BY <1>1, <1>3 DEF Carry
  <2> QED
    BY <1>1, <1>3, <2>1, CarryKeeps DEF Timespecs, ToNs
<1> QED
  BY <1>2, <1>3

LEMMA InvStep == IInv /\ [Next]_vars => IInv'
<1> SUFFICES ASSUME IInv, [Next]_vars PROVE IInv'
  OBVIOUS
<1>1. /\ ts \in Timespecs /\ ts.sec \in Int /\ ts.nsec \in Int
      /\ Second \in Int /\ Second > 0
  BY TimespecAssumption DEF IInv, TypeOK, Timespecs
<1>2. CASE TooLow
  <2>1. CASE ts.nsec <= -Second
    <3>1. Carry(-1) /\ pc = "low" /\ UNCHANGED <<pc, left, right>>
      BY <1>2, <2>1 DEF TooLow
    <3>2. ts' \in Timespecs /\ ToNs(ts)' = ToNs(ts)
      BY <3>1, InvTurn
    <3> QED
      BY <3>1, <3>2
         DEF IInv, TypeOK, ValueKept, Heading, NormalForm, DiffNs
  <2>2. CASE ~(ts.nsec <= -Second)
    BY <1>1, <1>2, <2>2
       DEF TooLow, IInv, TypeOK, ValueKept, Heading, NormalForm, ToNs, DiffNs
  <2> QED
    BY <2>1, <2>2
<1>3. CASE TooHigh
  <2>1. CASE ts.nsec >= Second
    <3>1. Carry(1) /\ pc = "high" /\ UNCHANGED <<pc, left, right>>
      BY <1>3, <2>1 DEF TooHigh
    <3>2. ts' \in Timespecs /\ ToNs(ts)' = ToNs(ts) /\ ts'.nsec = ts.nsec - 1 * Second
      BY <3>1, InvTurn
    <3>3. -Second < ts'.nsec
      BY <1>1, <2>1, <3>2
    <3> QED
      BY <3>1, <3>2, <3>3
         DEF IInv, TypeOK, ValueKept, Heading, NormalForm, DiffNs
  <2>2. CASE ~(ts.nsec >= Second)
    BY <1>1, <1>3, <2>2
       DEF TooHigh, IInv, TypeOK, ValueKept, Heading, NormalForm, Normal, ToNs,
           DiffNs
  <2> QED
    BY <2>1, <2>2
<1>4. CASE Negative
  <2>1. CASE ts.nsec > 0
    <3>1. Carry(1) /\ pc = "negative" /\ UNCHANGED <<pc, left, right>>
      BY <1>4, <2>1 DEF Negative
    <3>2. /\ ts' \in Timespecs /\ ToNs(ts)' = ToNs(ts)
          /\ ts'.sec = ts.sec + 1 /\ ts'.nsec = ts.nsec - 1 * Second
      BY <3>1, InvTurn
    <3>3. -Second < ts'.nsec /\ ts'.nsec < 0 /\ ts'.sec <= 0
      BY <1>1, <2>1, <3>1, <3>2 DEF IInv, TypeOK, Heading
    <3> QED
      BY <1>1, <3>1, <3>2, <3>3
         DEF IInv, TypeOK, ValueKept, Heading, NormalForm, DiffNs
  <2>2. CASE ~(ts.nsec > 0)
    BY <1>1, <1>4, <2>2
       DEF Negative, IInv, TypeOK, ValueKept, Heading, NormalForm, Normal, ToNs,
           DiffNs
  <2> QED
    BY <2>1, <2>2
<1>5. CASE Positive
  <2>1. CASE ts.nsec < 0
    <3>1. Carry(-1) /\ pc = "positive" /\ UNCHANGED <<pc, left, right>>
      BY <1>5, <2>1 DEF Positive
    <3>2. /\ ts' \in Timespecs /\ ToNs(ts)' = ToNs(ts)
          /\ ts'.sec = ts.sec + (-1) /\ ts'.nsec = ts.nsec - (-1) * Second
      BY <3>1, InvTurn
    <3>3. ts'.nsec < Second /\ ts'.nsec > 0 /\ ts'.sec >= 0
      BY <1>1, <2>1, <3>1, <3>2 DEF IInv, TypeOK, Heading
    <3> QED
      BY <1>1, <3>1, <3>2, <3>3
         DEF IInv, TypeOK, ValueKept, Heading, NormalForm, DiffNs
  <2>2. CASE ~(ts.nsec < 0)
    BY <1>1, <1>5, <2>2
       DEF Positive, IInv, TypeOK, ValueKept, Heading, NormalForm, Normal, ToNs,
           DiffNs
  <2> QED
    BY <2>1, <2>2
<1>6. CASE Return
  BY <1>1, <1>6
     DEF Return, IInv, TypeOK, ValueKept, Heading, NormalForm, Timespecs, Zero,
         ToNs, DiffNs
<1>7. CASE UNCHANGED vars
  BY <1>7
     DEF vars, IInv, TypeOK, ValueKept, Heading, NormalForm, ToNs, DiffNs
<1> QED
  BY <1>2, <1>3, <1>4, <1>5, <1>6, <1>7, InvDiff, InvSum, InvShift DEF Next, Steps

LEMMA Invariant == Spec => []IInv
<1>1. Init => IInv
  BY InvInit
<1>2. IInv /\ [Next]_vars => IInv'
  BY InvStep
<1> QED
  BY <1>1, <1>2, PTL DEF Spec

(* Types, and the range of the nanoseconds each loop leaves to the next, for
   every input. *)
THEOREM TypeCorrect == Spec => []TypeOK
<1>1. IInv => TypeOK
  BY DEF IInv
<1> QED
  BY <1>1, Invariant, PTL

(* timespec_norm never changes the time its argument stands for. *)
THEOREM TimeKept == Spec => []ValueKept
<1>1. IInv => ValueKept
  BY DEF IInv
<1> QED
  BY <1>1, Invariant, PTL

(* Whatever its argument, timespec_norm returns one in normal form. *)
THEOREM Normalises == Spec => []NormalForm
<1>1. IInv => NormalForm
  BY DEF IInv
<1> QED
  BY <1>1, Invariant, PTL

(* One second more is Second nanoseconds more. *)
LEMMA SecondsOrder ==
    ASSUME NEW a \in Int, NEW b \in Int, a < b
    PROVE  a * Second + Second <= b * Second
<1>1. Second \in Int /\ Second > 0
  BY TimespecAssumption
<1>2. /\ b - a \in Int /\ b - a >= 1
      /\ (b - a) * Second = b * Second - a * Second
  BY <1>1
<1>3. ASSUME NEW c \in Int, c >= 1 PROVE c * Second >= Second
  BY <1>1, <1>3
<1>4. (b - a) * Second >= Second
  BY <1>2, <1>3
<1>5. a * Second \in Int /\ b * Second \in Int
  BY <1>1
<1> QED
  BY <1>1, <1>2, <1>4, <1>5

(* timespec_cmp is the order of the times, for what is in normal form. *)
LEMMA CmpOrders ==
    ASSUME NEW a \in Timespecs, NEW b \in Timespecs, Normal(a), Normal(b)
    PROVE  /\ Cmp(a, b) \in Int
           /\ Cmp(a, b) < 0 => ToNs(a) < ToNs(b)
           /\ Cmp(a, b) = 0 => ToNs(a) = ToNs(b)
           /\ Cmp(a, b) > 0 => ToNs(a) > ToNs(b)
<1>1. /\ a.sec \in Int /\ a.nsec \in Int /\ b.sec \in Int /\ b.nsec \in Int
      /\ Second \in Int /\ Second > 0
  BY TimespecAssumption DEF Timespecs
<1>2. ASSUME NEW c \in Timespecs, NEW d \in Timespecs, Normal(c), Normal(d),
             c.sec < d.sec
      PROVE  ToNs(c) < ToNs(d)
  <2>1. /\ c.sec \in Int /\ c.nsec \in Int /\ d.sec \in Int /\ d.nsec \in Int
    BY DEF Timespecs
  <2>2. c.sec * Second + Second <= d.sec * Second
    BY <1>2, <2>1, SecondsOrder
  <2>3. c.sec * Second \in Int /\ d.sec * Second \in Int
    BY <1>1, <2>1
  <2>4. CASE c.sec < 0
    <3>1. c.nsec <= 0 /\ -Second < d.nsec
      BY <1>2, <2>4 DEF Normal
    <3> QED
      BY <1>1, <2>1, <2>2, <2>3, <3>1 DEF ToNs
  <2>5. CASE ~(c.sec < 0)
    <3>1. c.nsec < Second /\ 0 <= d.nsec
      BY <1>2, <2>1, <2>5 DEF Normal
    <3> QED
      BY <1>1, <2>1, <2>2, <2>3, <3>1 DEF ToNs
  <2> QED
    BY <2>4, <2>5
<1>3. CASE a.sec = b.sec
  <2>1. a.sec * Second = b.sec * Second /\ a.sec * Second \in Int
    BY <1>1, <1>3
  <2> QED
    BY <1>1, <1>3, <2>1 DEF Cmp, ToNs
<1>4. CASE a.sec < b.sec
  <2>1. ToNs(a) < ToNs(b)
    BY <1>2, <1>4
  <2> QED
    BY <1>1, <1>4, <2>1 DEF Cmp
<1>5. CASE b.sec < a.sec
  <2>1. ToNs(b) < ToNs(a) /\ ToNs(a) \in Int /\ ToNs(b) \in Int
    BY <1>1, <1>2, <1>5 DEF ToNs
  <2> QED
    BY <1>1, <1>5, <2>1 DEF Cmp
<1> QED
  BY <1>1, <1>3, <1>4, <1>5

(* The parts of a time in normal form have its sign. *)
LEMMA SignOfNormal ==
    ASSUME NEW a \in Timespecs, Normal(a)
    PROVE  /\ ToNs(a) \in Int
           /\ ToNs(a) < 0 <=> a.sec < 0 \/ a.nsec < 0
           /\ ToNs(a) > 0 <=> a.sec > 0 \/ a.nsec > 0
<1>1. /\ a.sec \in Int /\ a.nsec \in Int /\ 0 \in Int
      /\ Second \in Int /\ Second > 0
  BY TimespecAssumption DEF Timespecs
<1>2. a.sec * Second \in Int /\ 0 * Second = 0
  BY <1>1
<1>3. CASE a.sec = 0
  BY <1>1, <1>2, <1>3 DEF ToNs
<1>4. CASE a.sec < 0
  <2>1. a.sec * Second + Second <= 0
    BY <1>1, <1>2, <1>4, SecondsOrder
  <2> QED
    BY <1>1, <1>2, <1>4, <2>1 DEF ToNs, Normal
<1>5. CASE a.sec > 0
  <2>1. Second <= a.sec * Second
    BY <1>1, <1>2, <1>5, SecondsOrder
  <2> QED
    BY <1>1, <1>2, <1>5, <2>1 DEF ToNs, Normal
<1> QED
  BY <1>1, <1>3, <1>4, <1>5

(* timespec_cmp and timespec_diff never disagree on which of two normal times
   comes first. *)
THEOREM CmpAndDiffAgree == Spec => []CmpAgrees
<1>1. IInv => CmpAgrees
  <2> SUFFICES ASSUME IInv, pc = "done", Normal(left), Normal(right)
               PROVE  /\ Cmp(left, right) < 0 <=> ts.sec < 0 \/ ts.nsec < 0
                      /\ Cmp(left, right) > 0 <=> ts.sec > 0 \/ ts.nsec > 0
    BY DEF CmpAgrees
  <2>1. /\ left \in Timespecs /\ right \in Timespecs
        /\ ts \in Timespecs /\ Normal(ts)
    BY DEF IInv, TypeOK, NormalForm
  <2>2. /\ left.sec \in Int /\ left.nsec \in Int
        /\ right.sec \in Int /\ right.nsec \in Int /\ Second \in Int
    BY <2>1, TimespecAssumption DEF Timespecs
  <2>3. (left.sec - right.sec) * Second = left.sec * Second - right.sec * Second
    BY <2>2
  <2>4. /\ left.sec * Second \in Int /\ right.sec * Second \in Int
    BY <2>2
  <2>5. ToNs(ts) = ToNs(left) - ToNs(right)
    BY <2>2, <2>3, <2>4 DEF IInv, ValueKept, DiffNs, ToNs
  <2>6. ToNs(left) \in Int /\ ToNs(right) \in Int
    BY <2>2, <2>4 DEF ToNs
  <2>7. /\ Cmp(left, right) \in Int
        /\ Cmp(left, right) < 0 => ToNs(left) < ToNs(right)
        /\ Cmp(left, right) = 0 => ToNs(left) = ToNs(right)
        /\ Cmp(left, right) > 0 => ToNs(left) > ToNs(right)
    BY <2>1, CmpOrders
  <2>8. /\ ToNs(ts) < 0 <=> ts.sec < 0 \/ ts.nsec < 0
        /\ ToNs(ts) > 0 <=> ts.sec > 0 \/ ts.nsec > 0
    BY <2>1, SignOfNormal
  <2> HIDE DEF ToNs, Cmp
  <2> QED
    BY <2>5, <2>6, <2>7, <2>8
<1> QED
  BY <1>1, Invariant, PTL
=============================================================================
