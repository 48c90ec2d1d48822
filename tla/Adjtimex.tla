------------------------------ MODULE Adjtimex ------------------------------
(***************************************************************************)
(* The kernel's clock as the daemon steers it through adjtimex(2)          *)
(* (src/adjtimex_helper.c): the length of a tick, in us, and a frequency   *)
(* correction, in ppb.  Both outlive the process that set them.            *)
(*                                                                         *)
(* The helper converts ppb to the kernel's 16 bit fixed point and back; it *)
(* rounds symmetrically, so that a correction and its opposite cancel, and *)
(* the model stays in ppb.  It also reads the kernel and writes it back in *)
(* two system calls; with the single master README.md section 2 asks for,  *)
(* nothing changes in between, and they are one step here.                 *)
(***************************************************************************)
EXTENDS Integers

CONSTANTS
    BootTick,          \* tick at boot
    MinTick, MaxTick,  \* ticks the kernel accepts
    MaxFreq,           \* it brings any frequency in -MaxFreq .. MaxFreq
    Second             \* 10^9 ns

ASSUME KernelAssumption ==
    /\ {BootTick, MinTick, MaxTick, MaxFreq, Second} \subseteq Nat \ {0}
    /\ MinTick <= BootTick /\ BootTick <= MaxTick

VARIABLES tick, freq

(* The ppb a change of the tick by 1 us makes. *)
PerTick == Second \div BootTick

Clamped(f) == IF f > MaxFreq THEN MaxFreq ELSE IF f < -MaxFreq THEN -MaxFreq ELSE f

(* adjtimex_adj_tick: a tick out of range is refused, and nothing changes. *)
AdjTick(us) ==
    /\ tick' = IF MinTick <= tick + us /\ tick + us <= MaxTick
               THEN tick + us ELSE tick
    /\ UNCHANGED freq

(* A seeded bug, for FreqRestored: the frequency is set, not adjusted. *)
AdjFreq_Bug(ppb) ==
    /\ freq' = Clamped(ppb)
    /\ UNCHANGED tick

(* adjtimex_adj_freq: a frequency out of range is not refused but clamped. *)
AdjFreq(ppb) ==
    /\ freq' = Clamped(freq + ppb)
    /\ UNCHANGED tick
=============================================================================
