------------------------------ MODULE Timespec ------------------------------
(***************************************************************************)
(* Time stamps and durations, in seconds and nanoseconds                   *)
(* (src/timespec_helper.c).  A sum or a difference of two of them, or a    *)
(* time stamp the caller has changed, is brought by timespec_norm to a     *)
(* normal form in which both parts have the same sign.                     *)
(*                                                                         *)
(* timespec_norm is stepped one turn of a loop at a time: the loops run    *)
(* one after the other and each relies on where the former ones stopped.   *)
(* The integers have no width: the program's seconds are 64 bits.          *)
(***************************************************************************)
EXTENDS Integers

CONSTANTS
    Second,       \* 10^9 ns
    Parts,        \* the seconds and nanoseconds of what is computed with
    Nanoseconds

ASSUME TimespecAssumption ==
    /\ Second \in Nat \ {0}
    /\ Parts \subseteq Int
    /\ Nanoseconds \subseteq Int

VARIABLES
    ts,          \* the timespec being normalised
    pc,          \* where timespec_norm stands
    left, right  \* what it was computed from: ts stands for left - right

vars == <<ts, pc, left, right>>

Timespecs == [sec : Int, nsec : Int]
Inputs == [sec : Parts, nsec : Nanoseconds]
Zero == [sec |-> 0, nsec |-> 0]

(* timespec2ns *)
ToNs(t) == t.sec * Second + t.nsec

(* timespec_diff_ns *)
DiffNs(t1, t0) == (t1.sec - t0.sec) * Second + t1.nsec - t0.nsec

(* CmpAgrees: the nanoseconds decide first. *)
Cmp_Bug(t0, t1) ==
    IF t0.nsec = t1.nsec THEN t0.sec - t1.sec ELSE t0.nsec - t1.nsec

(* timespec_cmp *)
Cmp(t0, t1) ==
    IF t0.sec = t1.sec THEN t0.nsec - t1.nsec ELSE t0.sec - t1.sec

Minus(t) == [sec |-> -t.sec, nsec |-> -t.nsec]

Init ==
    /\ ts = Zero
    /\ pc = "idle"
    /\ left = Zero
    /\ right = Zero

(* timespec_norm is called, by timespec_diff or timespec_sum, or with a time
   stamp from whose nanoseconds an offset was subtracted, as ppsd_update does. *)
Diff(t1, t0) ==
    /\ pc = "idle"
    /\ ts' = [sec |-> t1.sec - t0.sec, nsec |-> t1.nsec - t0.nsec]
    /\ left' = t1 /\ right' = t0
    /\ pc' = "low"

Sum(t0, t1) ==
    /\ pc = "idle"
    /\ ts' = [sec |-> t0.sec + t1.sec, nsec |-> t0.nsec + t1.nsec]
    /\ left' = t0 /\ right' = Minus(t1)
    /\ pc' = "low"

Shift(t, ns) ==
    /\ pc = "idle"
    /\ ts' = [t EXCEPT !.nsec = @ - ns]
    /\ left' = t /\ right' = [sec |-> 0, nsec |-> ns]
    /\ pc' = "low"

(* ValueKept: a second is taken from a part and not given to the other. *)
Carry_Bug(n) == ts' = [ts EXCEPT !.nsec = @ - n * Second]

(* A turn of a loop: n seconds go from one part to the other. *)
Carry(n) == ts' = [sec |-> ts.sec + n, nsec |-> ts.nsec - n * Second]

(* TypeOK: exactly one second is left in the nanoseconds. *)
TooLow_Bug ==
    /\ pc = "low"
    /\ IF ts.nsec < -Second
       THEN Carry(-1) /\ UNCHANGED pc
       ELSE pc' = "high" /\ UNCHANGED ts
    /\ UNCHANGED <<left, right>>

TooLow ==
    /\ pc = "low"
    /\ IF ts.nsec <= -Second
       THEN Carry(-1) /\ UNCHANGED pc
       ELSE pc' = "high" /\ UNCHANGED ts
    /\ UNCHANGED <<left, right>>

(* NormalForm: negative seconds are not looked at. *)
TooHigh_Bug ==
    /\ pc = "high"
    /\ IF ts.nsec >= Second
       THEN Carry(1) /\ UNCHANGED pc
       ELSE /\ pc' = IF ts.sec > 0 THEN "positive" ELSE "done"
            /\ UNCHANGED ts
    /\ UNCHANGED <<left, right>>

(* The second loop, and the choice of the third. *)
TooHigh ==
    /\ pc = "high"
    /\ IF ts.nsec >= Second
       THEN Carry(1) /\ UNCHANGED pc
       ELSE /\ pc' = IF ts.sec < 0 THEN "negative"
                     ELSE IF ts.sec > 0 THEN "positive" ELSE "done"
            /\ UNCHANGED ts
    /\ UNCHANGED <<left, right>>

Negative ==
    /\ pc = "negative"
    /\ IF ts.nsec > 0
       THEN Carry(1) /\ UNCHANGED pc
       ELSE pc' = "done" /\ UNCHANGED ts
    /\ UNCHANGED <<left, right>>

(* NormReturns: the loop has lost its body. *)
Positive_Bug ==
    /\ pc = "positive"
    /\ IF ts.nsec < 0 THEN UNCHANGED pc ELSE pc' = "done"
    /\ UNCHANGED <<ts, left, right>>

Positive ==
    /\ pc = "positive"
    /\ IF ts.nsec < 0
       THEN Carry(-1) /\ UNCHANGED pc
       ELSE pc' = "done" /\ UNCHANGED ts
    /\ UNCHANGED <<left, right>>

(* The caller is done with the result. *)
Return ==
    /\ pc = "done"
    /\ pc' = "idle"
    /\ ts' = Zero /\ left' = Zero /\ right' = Zero

Steps == TooLow \/ TooHigh \/ Negative \/ Positive \/ Return

Next ==
    \/ \E t0, t1 \in Inputs : Diff(t1, t0) \/ Sum(t0, t1)
    \/ \E t \in Inputs, ns \in Nanoseconds : Shift(t, ns)
    \/ Steps

Spec == Init /\ [][Next]_vars

(* A call of timespec_norm runs to its end: it never blocks. *)
FairSpec == Spec /\ WF_vars(Steps)
-----------------------------------------------------------------------------
(* Properties. *)

(* Types, and the range of the nanoseconds each loop leaves to the next. *)
TypeOK ==
    /\ ts \in Timespecs
    /\ left \in Timespecs
    /\ right \in Timespecs
    /\ pc \in {"idle", "low", "high", "negative", "positive", "done"}
    /\ pc \notin {"idle", "low"} => -Second < ts.nsec
    /\ pc \notin {"idle", "low", "high"} => ts.nsec < Second

(* "tdiff is timespec_norm(t1 - t0)", "tsum is timespec_norm(t0 + t1)"
   (timespec_helper.h:23, 34): no loop of timespec_norm changes the time. *)
ValueKept == ToNs(ts) = DiffNs(left, right)

(* "if tv_sec == 0, -1e9 < tv_nsec < +1e9", "if tv_sec < 0, -1e9 < tv_nsec
   <= 0", "if tv_sec > 0, 0 =< tv_nsec < +1e9" (timespec_helper.h:14-19). *)
Normal(t) ==
    /\ -Second < t.nsec /\ t.nsec < Second
    /\ t.sec < 0 => t.nsec <= 0
    /\ t.sec > 0 => t.nsec >= 0

(* What timespec_norm returns is in that form, whatever it was given. *)
NormalForm == pc = "done" => Normal(ts)

(* "a negative nb if t0 < t1, a positive nb if t0 > t1, 0 if t0 == t1"
   (timespec_helper.h:41-45), of time stamps in normal form: timespec_cmp
   agrees with the difference timespec_diff returns, whose parts have its
   sign. *)
CmpAgrees ==
    pc = "done" /\ Normal(left) /\ Normal(right) =>
        /\ Cmp(left, right) < 0 <=> ts.sec < 0 \/ ts.nsec < 0
        /\ Cmp(left, right) > 0 <=> ts.sec > 0 \/ ts.nsec > 0

(* timespec_norm returns. *)
NormReturns == pc # "idle" ~> pc = "idle"
=============================================================================
