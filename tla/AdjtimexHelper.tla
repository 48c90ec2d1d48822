--------------------------- MODULE AdjtimexHelper ---------------------------
(***************************************************************************)
(* src/adjtimex_helper.c: the helper through which the daemon, timeref and *)
(* the program jfadjtimex set the kernel's clock, and that program.  Each  *)
(* member of Masters is a process that runs such jobs one after another,   *)
(* all of them on one kernel.                                              *)
(*                                                                         *)
(* A step is at most one system call, so that another master may come      *)
(* between the one that reads tick and frequency and the one that writes   *)
(* them back.  The kernel's frequency is in its own fixed point, Ppm to a  *)
(* ppm.  The kernel refuses a tick out of range.  Linux clamps the         *)
(* frequency; kernels the code also expects refuse it.                     *)
(***************************************************************************)
EXTENDS Integers, Sequences

CONSTANTS
    Masters,
    BootTick, MinTick, MaxTick,  \* tick at boot, ticks the kernel accepts
    MaxFreq,                     \* largest frequency of the kernel
    Ppm,                         \* 65536, the kernel's fixed point of a ppm
    PpbPerPpm,                   \* 1000
    TopPpm,                      \* 1000, where TIMEX_LIMITS begins
    Second,                      \* 10^9 ns
    Roots,                       \* which masters the kernel may obey
    Jobs,                        \* jobs each process may be given
    MaxJobs                      \* bound: jobs run in a behaviour

-----------------------------------------------------------------------------
(* Conversions.  Names that end in _Bug are seeded bugs, see README.md. *)

(* roundl: half away from zero. *)
Round(n, d) == IF n >= 0 THEN (2 * n + d) \div (2 * d)
                         ELSE -((d - 2 * n) \div (2 * d))

(* FrequencyAddsUp: a cast, which truncates. *)
ToQ16_Bug(ppb) == IF ppb >= 0 THEN (Ppm * ppb) \div PpbPerPpm
                              ELSE -((-Ppm * ppb) \div PpbPerPpm)

(* _ppb_to_q16, _q16_to_ppb *)
ToQ16(ppb) == Round(Ppm * ppb, PpbPerPpm)
ToPpb(q16) == Round(PpbPerPpm * q16, Ppm)

Searches == {"max", "min", "freq"}

Calls == [op : {"tick_freq", "set_offset", "offset", "status", "limits",
                "snapshot", "watch"},
          us : Int, adj_tick : BOOLEAN, q16 : Int, adj_freq : BOOLEAN,
          ppb : Int, ns : Int]

(* The helper converts frequencies to the kernel's fixed point. *)
HelperCalls == {c \in Calls : c.op = "tick_freq" => c.q16 = ToQ16(c.ppb)}

ASSUME HelperAssumption ==
    /\ {BootTick, MinTick, MaxFreq, PpbPerPpm, TopPpm, Second}
          \subseteq Nat \ {0}
    /\ {MaxTick, Ppm, MaxJobs} \subseteq Nat
    /\ MinTick <= BootTick /\ BootTick <= MaxTick
    /\ MaxTick < 2 * MinTick           \* BootTick +- 10 %
    /\ MinTick < MaxTick /\ 1 < MinTick
    /\ PpbPerPpm < Ppm
    /\ MaxFreq <= TopPpm * Ppm /\ Ppm <= MaxFreq
    /\ Roots \subseteq SUBSET Masters
    /\ Jobs \in [Masters -> SUBSET Seq(HelperCalls)]

VARIABLES
    timex,      \* the kernel's tick, freq, offset and status
    moved,      \* what the clock was set by, in ns
    clamps,     \* what the kernel does with a frequency out of range
    root,       \* the masters the kernel obeys
    pc,         \* where each master stands
    todo,       \* the calls of its job
    call, ret,  \* the arguments of _adjtimex_tick_freq, and who called it
    got,        \* what it has read
    ok,         \* the kernel accepted
    search, probe, limits, back,  \* locals and _LIMITS of TIMEX_LIMITS
    prev_tx,    \* static _prev_tx of adjtimex_snapshot, or Unread
    change,     \* what its last call returned
    jobs,       \* jobs begun
    \* not in the code, for the properties:
    want,       \* tick, and frequency in ppb, that the accepted calls asked
                \* for, and how many of them were rounded
    exact,      \* whether it is known what tick and freq should be
    alone,      \* no other master has written since the call began
    asked,      \* sum of the offsets of less than a second, or negative,
                \* that masters the kernel obeys have asked for
    touched     \* the kernel has changed since the master's last snapshot

kernel == <<timex, moved, clamps, root>>
settings == <<call, ret, got, ok>>
probing == <<search, probe, limits, back>>
snapshots == <<prev_tx, change>>
ghosts == <<want, exact, alone, asked, touched>>
vars == <<kernel, pc, todo, settings, probing, snapshots, jobs, ghosts>>

-----------------------------------------------------------------------------
(* adjtimex_get_freq *)
GetFreq == ToPpb(timex.freq)

(* timex_cmp: the members that differ *)
Differences(old, new) ==
    {f \in {"status", "freq", "offset", "tick"} : old[f] # new[f]}

-----------------------------------------------------------------------------
(* The helper's functions as calls: what they give _adjtimex_tick_freq, or  *)
(* put in the structure they give the kernel.                               *)

NoCall == [op |-> "snapshot", us |-> 0, adj_tick |-> FALSE, q16 |-> 0,
           adj_freq |-> FALSE, ppb |-> 0, ns |-> 0]

TickFreq(us, adj_tick, q16, adj_freq) ==
    [op |-> "tick_freq", us |-> us, adj_tick |-> adj_tick, q16 |-> q16,
     adj_freq |-> adj_freq, ppb |-> 0, ns |-> 0]

SetQ16(q16) == TickFreq(0, TRUE, q16, FALSE)
set_freq(ppb) == [SetQ16(ToQ16(ppb)) EXCEPT !.ppb = ppb]
adj_freq(ppb) == [TickFreq(0, TRUE, ToQ16(ppb), TRUE) EXCEPT !.ppb = ppb]

set_tick(us) == TickFreq(us, FALSE, 0, TRUE)
adj_tick(us) == TickFreq(us, TRUE, 0, TRUE)
adj_tick_freq(us, ppb) ==
    [TickFreq(us, TRUE, ToQ16(ppb), TRUE) EXCEPT !.ppb = ppb]

Offset(op, ns) == [NoCall EXCEPT !.op = op, !.ns = ns]
Plain(op) == [NoCall EXCEPT !.op = op]

(* jfadjtimex: main's options, and what it does with them, in its order.  -d *)
(* and -f share a variable.  Limits are printed by four calls.               *)
Program(o) ==
    LET If(c, calls) == IF c THEN calls ELSE <<>>
    IN  If(o.adj, <<adj_freq(o.ppb)>>)
        \o If(o.set, <<set_freq(o.ppb)>>)
        \o If(o.nso # 0, <<Offset("offset", o.nso)>>)
        \o If(o.nsS # 0, <<Offset("set_offset", o.nsS)>>)
        \o If(o.tick_us # 0, <<set_tick(o.tick_us)>>)
        \o If(o.limits, <<Plain("limits"), Plain("limits"),
                          Plain("limits"), Plain("limits")>>)
        \o If(o.cont, <<Plain("watch")>>)

-----------------------------------------------------------------------------
Nothing == [tick |-> 0, freq |-> 0]
Unread == [tick |-> 0, freq |-> 0, offset |-> 0, status |-> {}]

Init ==
    /\ timex = [tick |-> BootTick, freq |-> 0, offset |-> 0, status |-> {}]
    /\ moved = 0
    /\ clamps \in BOOLEAN
    /\ root \in Roots
    /\ pc = [m \in Masters |-> "idle"]
    /\ todo = [m \in Masters |-> <<>>]
    /\ call = [m \in Masters |-> NoCall]
    /\ ret = [m \in Masters |-> "next"]
    /\ got = [m \in Masters |-> Nothing]
    /\ ok = [m \in Masters |-> FALSE]
    /\ search = [m \in Masters |-> "none"]
    /\ probe = [m \in Masters |-> 0]
    /\ limits = [m \in Masters |-> [s \in Searches |-> 0]]
    /\ back = [m \in Masters |-> Nothing]
    /\ prev_tx = [m \in Masters |-> Unread]
    /\ change = [m \in Masters |-> {}]
    /\ jobs = 0
    /\ want = [tick |-> BootTick, ppb |-> 0, rounded |-> 0]
    /\ exact = [tick |-> TRUE, freq |-> TRUE]
    /\ alone = [m \in Masters |-> TRUE]
    /\ asked = 0
    /\ touched = [m \in Masters |-> FALSE]

(* A process is given a job: the daemon's calls, timeref's, or jfadjtimex's. *)
Run(m) ==
    /\ pc[m] = "idle"
    /\ jobs < MaxJobs
    /\ jobs' = jobs + 1
    /\ \E j \in Jobs[m] : todo' = [todo EXCEPT ![m] = j]
    /\ pc' = [pc EXCEPT ![m] = "next"]
    /\ UNCHANGED <<kernel, settings, probing, snapshots, ghosts>>

(* _adjtimex_tick_freq begins: it reads, with _adjtimex_get_tick. *)
Request(m, c, to) ==
    /\ call' = [call EXCEPT ![m] = c]
    /\ ret' = [ret EXCEPT ![m] = to]
    /\ got' = [got EXCEPT ![m] = [tick |-> timex.tick, freq |-> timex.freq]]
    /\ pc' = [pc EXCEPT ![m] = "write"]
    /\ UNCHANGED ok

(* The job's next call. *)
Dispatch(m) ==
    /\ pc[m] = "next"
    /\ todo[m] # <<>>
    /\ LET c == Head(todo[m]) IN
       /\ todo' = IF c.op = "watch" THEN todo   \* while (cont)
                  ELSE [todo EXCEPT ![m] = Tail(@)]
       /\ IF c.op = "tick_freq"
          THEN Request(m, c, "next")
          ELSE /\ call' = [call EXCEPT ![m] = c]
               /\ pc' = [pc EXCEPT ![m] = c.op]
               /\ UNCHANGED <<ret, got, ok>>
    /\ alone' = [alone EXCEPT ![m] = TRUE]
    /\ UNCHANGED <<kernel, probing, snapshots, jobs, want, exact, asked, touched>>

(* The job is over, and its locals forgotten. *)
Done(m) ==
    /\ pc[m] = "next"
    /\ todo[m] = <<>>
    /\ pc' = [pc EXCEPT ![m] = "idle"]
    /\ call' = [call EXCEPT ![m] = NoCall]
    /\ got' = [got EXCEPT ![m] = Nothing]
    /\ back' = [back EXCEPT ![m] = Nothing]
    /\ ok' = [ok EXCEPT ![m] = FALSE]
    /\ UNCHANGED <<kernel, todo, ret, search, probe, limits, snapshots, jobs,
                   ghosts>>

InRange(q) == -MaxFreq <= q /\ q <= MaxFreq
Clamped(q) == IF q > MaxFreq THEN MaxFreq ELSE IF q < -MaxFreq THEN -MaxFreq ELSE q

(* TickAddsUp: the tick at boot is taken for the one that was read. *)
NewTick_Bug(m) == call[m].us + IF call[m].adj_tick THEN BootTick ELSE 0

(* The settings a call asks for. *)
NewTick(m) == call[m].us + IF call[m].adj_tick THEN got[m].tick ELSE 0
NewFreq(m) == call[m].q16 + IF call[m].adj_freq THEN got[m].freq ELSE 0

Accepts(m) == /\ m \in root
              /\ MinTick <= NewTick(m) /\ NewTick(m) <= MaxTick
              /\ clamps \/ InRange(NewFreq(m))

(* Bookkeeping of what the accepted calls asked for.  A call that was not
   alone is known only by what it sets whatever it has read. *)
Account(m) ==
    LET c == call[m]
        user == ret[m] = "next"
        tick == IF user /\ ~c.adj_tick THEN TRUE ELSE exact.tick /\ alone[m]
        freq == IF user /\ ~c.adj_freq THEN InRange(NewFreq(m))
                ELSE exact.freq /\ alone[m] /\ (user => InRange(NewFreq(m)))
        rounded == (IF c.adj_freq THEN want.rounded ELSE 0)
                      + IF c.ppb = 0 THEN 0 ELSE 1
    IN  /\ exact' = [tick |-> tick, freq |-> freq]
        /\ want' = IF ~user THEN want ELSE
             [tick |-> c.us + IF c.adj_tick THEN want.tick ELSE 0,
              ppb |-> c.ppb + IF c.adj_freq THEN want.ppb ELSE 0,
              rounded |-> rounded]
        /\ alone' = [n \in Masters |-> (n = m /\ alone[n]) \/ pc[n] = "idle"]

Touch(old, new) ==
    touched' = [n \in Masters |-> touched[n] \/ Differences(old, new) # {}]

(* The write of _adjtimex_tick_freq. *)
Write(m) ==
    /\ pc[m] = "write"
    /\ ok' = [ok EXCEPT ![m] = Accepts(m)]
    /\ IF Accepts(m)
       THEN /\ timex' = [timex EXCEPT !.tick = NewTick(m),
                                      !.freq = Clamped(NewFreq(m))]
            /\ Account(m)
            /\ Touch(timex, timex')
       ELSE UNCHANGED <<timex, want, exact, alone, touched>>
    /\ pc' = [pc EXCEPT ![m] = ret[m]]
    /\ UNCHANGED <<moved, clamps, root, todo, call, ret, got, probing,
                   snapshots, jobs, asked>>

-----------------------------------------------------------------------------
(* ClockMovedAsAsked: a single second is borrowed. *)
Normal_Bug(ns) == IF ns < 0 THEN [sec |-> -1, nsec |-> ns + Second]
                  ELSE [sec |-> 0, nsec |-> ns]

(* The loop of adjtimex_set_offset: seconds are borrowed until the nanoseconds
   are not negative.  A second or more is left in the nanoseconds. *)
Normal(ns) == IF ns < 0
              THEN [sec |-> ns \div Second, nsec |-> ns - (ns \div Second) * Second]
              ELSE [sec |-> 0, nsec |-> ns]

(* adjtimex_set_offset.  The kernel refuses nanoseconds that are negative or
   a second or more. *)
SetOffset(m) ==
    /\ pc[m] = "set_offset"
    /\ LET t == Normal(call[m].ns) IN
       /\ ok' = [ok EXCEPT ![m] = m \in root /\ 0 <= t.nsec /\ t.nsec < Second]
       /\ moved' = IF ok'[m] THEN moved + t.sec * Second + t.nsec ELSE moved
    /\ asked' = IF m \in root /\ call[m].ns < Second THEN asked + call[m].ns
                ELSE asked
    /\ pc' = [pc EXCEPT ![m] = "next"]
    /\ UNCHANGED <<timex, clamps, root, todo, call, ret, got, probing,
                   snapshots, jobs, want, exact, alone, touched>>

(* adjtimex_offset, clamped to half a second; or else ADJ_OFFSET "do nothing",
   as the code says of one machine.  adjtimex_hardpps. *)
SetTimex(m) ==
    /\ pc[m] \in {"offset", "status"}
    /\ ok' = [ok EXCEPT ![m] = m \in root]
    /\ LET half == Second \div 2
           ns == call[m].ns
           new == IF pc[m] = "offset"
                  THEN [timex EXCEPT !.offset = IF ns > half THEN half
                                 ELSE IF ns < -half THEN -half ELSE ns]
                  ELSE [timex EXCEPT !.status = {"PPSFREQ", "PPSTIME"}]
       IN  \/ m \in root /\ timex' = new
           \/ m \notin root /\ timex' = timex
           \/ pc[m] = "offset" /\ timex' = timex
    /\ Touch(timex, timex')
    /\ pc' = [pc EXCEPT ![m] = "next"]
    /\ UNCHANGED <<moved, clamps, root, todo, call, ret, got, probing,
                   snapshots, jobs, want, exact, alone, asked>>

-----------------------------------------------------------------------------
(* adjtimex_snapshot, the first time: _prev_tx is read. *)
FirstSnapshot(m) ==
    /\ pc[m] \in {"snapshot", "watch"}
    /\ prev_tx[m] = Unread
    /\ prev_tx' = [prev_tx EXCEPT ![m] = timex]
    /\ touched' = [touched EXCEPT ![m] = FALSE]
    /\ UNCHANGED <<kernel, pc, todo, settings, probing, change, jobs, want,
                   exact, alone, asked>>

(* NoFalseAlarm: _prev_tx keeps the first snapshot. *)
Snapshot_Bug(m) ==
    /\ pc[m] \in {"snapshot", "watch"}
    /\ prev_tx[m] # Unread
    /\ change' = [change EXCEPT ![m] = Differences(prev_tx[m], timex)]
    /\ touched' = [touched EXCEPT ![m] = FALSE]
    /\ pc' = [pc EXCEPT ![m] = "next"]
    /\ UNCHANGED <<kernel, todo, settings, probing, prev_tx, jobs, want, exact,
                   alone, asked>>

(* And then: what has changed since the last one becomes _prev_tx. *)
Snapshot(m) ==
    /\ pc[m] \in {"snapshot", "watch"}
    /\ prev_tx[m] # Unread
    /\ change' = [change EXCEPT ![m] = Differences(prev_tx[m], timex)]
    /\ prev_tx' = IF change'[m] # {} THEN [prev_tx EXCEPT ![m] = timex]
                  ELSE prev_tx
    /\ touched' = [touched EXCEPT ![m] = FALSE]
    /\ pc' = [pc EXCEPT ![m] = "next"]
    /\ UNCHANGED <<kernel, todo, settings, probing, jobs, want, exact, alone,
                   asked>>

-----------------------------------------------------------------------------
(* TIMEX_LIMITS: three searches, each skipped if its result is known, and a
   fourth, "fine", that refines the third. *)

(* Enters the first of the searches s that has no result in lim. *)
Enter(m, s, lim, b, last) ==
    LET missing == {x \in s : lim[x] = 0}
        first == IF "max" \in missing THEN "max"
                 ELSE IF "min" \in missing THEN "min"
                 ELSE IF "freq" \in missing THEN "freq" ELSE "none"
    IN  /\ search' = [search EXCEPT ![m] = first]
        /\ probe' = [probe EXCEPT ![m] =
                        CASE first = "max"  -> 2 * b.tick
                          [] first = "min"  -> 1
                          [] first = "freq" -> TopPpm * Ppm
                          [] first = "none" -> last]
        /\ pc' = [pc EXCEPT ![m] = IF first = "none" THEN "next" ELSE "probe"]

(* The values to be restored are read. *)
StartLimits(m) ==
    /\ pc[m] = "limits"
    /\ back' = [back EXCEPT ![m] = [tick |-> timex.tick, freq |-> timex.freq]]
    /\ Enter(m, Searches, limits[m], back'[m], 0)
    /\ UNCHANGED <<kernel, todo, settings, limits, snapshots, jobs, ghosts>>

(* TypeOK: the value 0 is tried, and passed. *)
Goes_Bug(m) == IF search[m] = "min" THEN probe[m] < limits[m]["max"]
               ELSE probe[m] >= 0

(* The conditions of the four loops. *)
Goes(m) == IF search[m] = "min" THEN probe[m] < limits[m]["max"]
           ELSE probe[m] > 0

(* LimitsEnd: the loops over the ticks do not move. *)
Step_Bug(s) == IF s = "freq" THEN -Ppm ELSE IF s = "fine" THEN -1 ELSE 0

Step(s) == CASE s = "max"  -> -1
             [] s = "min"  -> 1
             [] s = "freq" -> -Ppm
             [] s = "fine" -> -1

(* What the searches set: a value, and the one that was read. *)
Trial(m) ==
    IF search[m] \in {"max", "min"} THEN set_tick(probe[m]) ELSE SetQ16(probe[m])
Restoration(m) ==
    IF search[m] \in {"max", "min"} THEN set_tick(back[m].tick)
    ELSE SetQ16(back[m].freq)

(* A turn of a loop: the value is tried ... *)
Try(m) ==
    /\ pc[m] = "probe"
    /\ Goes(m)
    /\ Request(m, Trial(m), "tried")
    /\ UNCHANGED <<kernel, todo, probing, snapshots, jobs, ghosts>>

(* ... and refused. *)
TryNext(m) ==
    /\ pc[m] = "tried"
    /\ ~ok[m]
    /\ probe' = [probe EXCEPT ![m] = @ + Step(search[m])]
    /\ pc' = [pc EXCEPT ![m] = "probe"]
    /\ UNCHANGED <<kernel, todo, settings, search, limits, back, snapshots, jobs,
                   ghosts>>

(* Nothing was accepted: nothing to restore, no result.  Not in the fine
   search, which ends no lower than the frequency accepted before it. *)
GiveUp(m) ==
    /\ pc[m] = "probe"
    /\ ~Goes(m)
    /\ Enter(m, IF search[m] = "max" THEN {"min", "freq"}
                ELSE IF search[m] = "min" THEN {"freq"} ELSE {},
             limits[m], back[m], 0)
    /\ UNCHANGED <<kernel, todo, settings, limits, back, snapshots, jobs, ghosts>>

(* The value found was accepted, so it is in the kernel: the former one comes
   back. *)
Restore(m) ==
    /\ pc[m] = "tried"
    /\ ok[m]
    /\ Request(m, Restoration(m), "restored")
    /\ UNCHANGED <<kernel, todo, probing, snapshots, jobs, ghosts>>

(* LimitsFound: the fine search begins where the coarse one ended. *)
Refined_Bug(q16) == q16

Refined(q16) == q16 + Ppm

(* The result is kept and the next search begins. *)
Found(m) ==
    /\ pc[m] = "restored"
    /\ LET s == search[m]
           found == IF s = "fine" THEN "freq" ELSE s
           result == IF s = "fine" THEN ToPpb(probe[m]) ELSE probe[m]
       IN  IF s = "freq"
           THEN /\ search' = [search EXCEPT ![m] = "fine"]
                /\ probe' = [probe EXCEPT ![m] = Refined(@)]
                /\ pc' = [pc EXCEPT ![m] = "probe"]
                /\ UNCHANGED limits
           ELSE /\ limits' = [limits EXCEPT ![m][found] = result]
                /\ Enter(m, IF s = "max" THEN {"min", "freq"}
                            ELSE IF s = "min" THEN {"freq"} ELSE {},
                         limits'[m], back[m], 0)
    /\ UNCHANGED <<kernel, todo, settings, back, snapshots, jobs, ghosts>>

-----------------------------------------------------------------------------
Steps(m) ==
    \/ Dispatch(m) \/ Done(m) \/ Write(m)
    \/ SetOffset(m) \/ SetTimex(m) \/ FirstSnapshot(m) \/ Snapshot(m)
    \/ StartLimits(m) \/ Try(m) \/ TryNext(m) \/ GiveUp(m)
    \/ Restore(m) \/ Found(m)

Next == \E m \in Masters : Run(m) \/ Steps(m)

Spec == Init /\ [][Next]_vars

(* No call blocks: each process goes on when it is scheduled. *)
FairSpec == Spec /\ \A m \in Masters : WF_vars(Steps(m))

-----------------------------------------------------------------------------
(* Properties. *)

Timexes == [tick : MinTick .. MaxTick, freq : -MaxFreq .. MaxFreq,
            offset : Int, status : SUBSET {"PPSFREQ", "PPSTIME"}]

Readings ==
    {Nothing} \cup [tick : MinTick .. MaxTick, freq : -MaxFreq .. MaxFreq]

TypeOK ==
    /\ timex \in Timexes
    /\ moved \in Int /\ asked \in Int
    /\ clamps \in BOOLEAN
    /\ root \in Roots
    /\ pc \in [Masters -> {"idle", "next", "write", "set_offset",
                           "offset", "status", "limits", "snapshot", "watch",
                           "probe", "tried", "restored"}]
    /\ todo \in [Masters -> Seq(HelperCalls)]
    /\ call \in [Masters -> Calls]
    /\ ret \in [Masters -> {"next", "tried", "restored"}]
    /\ got \in [Masters -> Readings]
    /\ ok \in [Masters -> BOOLEAN]
    /\ search \in [Masters -> Searches \cup {"none", "fine"}]
    /\ probe \in [Masters -> Nat]
    /\ limits \in [Masters -> [Searches -> Int]]
    /\ back \in [Masters -> Readings]
    /\ prev_tx \in [Masters -> Timexes \cup {Unread}]
    /\ change \in [Masters -> SUBSET {"status", "freq", "offset", "tick"}]
    /\ jobs \in 0 .. MaxJobs
    /\ want \in [tick : Int, ppb : Int, rounded : Nat]
    /\ exact \in [tick : BOOLEAN, freq : BOOLEAN]
    /\ alone \in [Masters -> BOOLEAN]
    /\ touched \in [Masters -> BOOLEAN]

Quiet == \A m \in Masters : search[m] = "none"

(* "One master only" (README.md:26) is asked for because tick and frequency
   are read and written back (adjtimex_helper.c:326-351).  As long as no call
   falls between two system calls of another, or in its search of limits, no
   adjustment of the tick is lost, whatever was refused, and TIMEX_LIMITS
   leaves no trace; "-f 0 -t 10000" (README.md:103) resets the tick even after
   one was. *)
TickAddsUp == Quiet /\ exact.tick => timex.tick = want.tick

(* The same of the frequency: each adjustment in ppb is rounded to the
   kernel's units once, so that it strays from what was asked for by half a
   unit a call, and adjtimex_get_freq returns the very sum that was asked for
   as long as Ppm allows (65 calls): ppsd's cum_drift_ppb and the kernel
   agree. *)
FrequencyAddsUp ==
    Quiet /\ exact.freq =>
       LET error == PpbPerPpm * timex.freq - Ppm * want.ppb
           bound == want.rounded * PpbPerPpm
       IN  /\ -bound <= 2 * error /\ 2 * error <= bound
           /\ bound < Ppm => GetFreq = want.ppb

(* What TIMEX_LIMITS finds (adjtimex_helper.c:443-505), whoever else sets the
   clock meanwhile: the kernel's limits of the tick and, of a kernel that
   refuses frequencies, that of the frequency.  Of one that clamps them, as
   the comment of line 59 says, one ppm above where the search began. *)
LimitsFound ==
    \A m \in Masters :
       LET l == limits[m] IN
       /\ l["max"] \in {0, MaxTick}
       /\ l["min"] \in {0, MinTick}
       /\ l["freq"] \in {0, ToPpb(IF clamps THEN (TopPpm + 1) * Ppm ELSE MaxFreq)}

(* The clock is moved by the very sum of the offsets asked for: the loop of
   adjtimex_helper.c:412-415 makes of any negative one what the kernel takes.
   An offset of a second or more is not, and is refused. *)
ClockMovedAsAsked == moved = asked

(* adjtimex_snapshot, which the daemon prints "ADJTIMEX change detected" by
   (ppsd.c:279), reports a change only if there was one since the last call. *)
NoFalseAlarm ==
    [][\A m \in Masters :
          pc[m] \in {"snapshot", "watch"} /\ pc'[m] = "next" /\ change'[m] # {}
             => touched[m]]_vars

(* TIMEX_LIMITS ends, refused or not: its loops only stop at a value that is
   accepted, or at their bound. *)
LimitsEnd == \A m \in Masters : pc[m] = "limits" ~> pc[m] = "next"
=============================================================================
