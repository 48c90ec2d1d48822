# A verification of ppsd

`ppsd` (`src/`) disciplines the system clock of a Linux machine with a pulse
per second (PPS). It stamps each pulse with the system clock, estimates the
clock's offset and drift over windows of pulses, and corrects both through
`adjtimex(2)`. This directory holds TLA+ models of the parts that decide what
the clock does, the TLC configurations that check them on small instances, and
proofs, checked by TLAPS, of what holds for every value of their constants.

## 1. Inventory

| Component | Source | State | Operations |
|---|---|---|---|
| daemon | `ppsd.c`, `ppsd.h`, `ppsd_main.c` | `ppsd_t`: the last time stamp, `timeref` (the true second of the last pulse), `cum_off_ns`, `cum_drift_ppb`, two windows of statistics; the counter of `ppsd_run`; the locals of a correction in progress | `ppsd_open`, `ppsd_update`, `ppsd_adj_drift_ppb`, `ppsd_adj_offset_ns`, `ppsd_run`, `main`'s loop |
| PPS device | `pps_helper.c` | device, handle, captured edge | `pps_open`, `pps_get_timestamp` (timeout of 1.5 s, retry), `pps_close` |
| kernel clock adjustment | `adjtimex_helper.c` | the kernel's tick, frequency, offset and status, which outlive the process, and the clock; cached `TIMEX_LIMITS` and last snapshot | `set`/`adj` of tick and frequency, `set_offset`, `offset`, `hardpps`, `snapshot`, probing of the limits; the program `jfadjtimex` |
| offset statistics | `pps_stats.c` | a circular buffer whose cells are also linked in a list sorted by offset; running sums | constructor, `reset`, `update` (evict, store, link), `remove`; readers: mean, variance, drift, median |
| the `pps_stats` program | `pps_stats.c` | such a buffer, `t0`, the lines counted | reads offsets that were printed, prints them again, sorted or not |
| time stamps | `timespec_helper.c` | none | `timespec_norm`, `diff`, `sum`, `cmp`, conversions |
| timeref | `timeref.c` | the clock, set once before the daemon runs | query of GPSD or SNTP, then a step of the clock |
| former statistics | `attics/ll_stats.c`, `attics/ll_stats_ll.c` | a circular buffer and its sums | constructor, reset, update, mean, variance, drift |
| logging, options | `slog.h`, `opt.h` | none | macros; `ass()` prints and exits |
| Kalman filter, Durbin-Watson, `hardpps` | `kalman.c`, `durbin-watson.c`, `hardpps.c` | | stand-alone experiments |
| former daemons | the rest of `attics/` | | built by nothing |
| scripts, service, data | `tools/`, `etc/`, `data/` | | `ppsd.service` restarts the daemon when it exits |

How they interact: `main` opens the daemon and calls `ppsd_run` again and
again. `ppsd_run` calls `ppsd_update` once a second, which blocks in
`pps_get_timestamp`, counts the second in `timeref` and gives the offset to the
window of offsets and, with `cum_off_ns` added, to the window of the drift. When
its counter calls for it, `ppsd_run` corrects the offset; a smooth correction
changes the tick or the frequency for some seconds, **and calls `ppsd_update`
itself to let them pass**: the windows are fed, pulses are lost and `timeref`
moves from inside the correction. The changes are in the kernel, and remain
there if the process disappears, and any other program that calls `adjtimex`
shares them. What the daemon prints is what `pps_stats` reads.

What is hard here, and what each component must therefore satisfy:

* daemon: the changes of tick and frequency are temporary and must be undone
  on every path, pulses lost included (`TickRestored`, `FreqRestored`); the
  clock's rate stays bounded (`SlewBounded`); a correction cut in seconds of
  tick, a second of tick and a second of frequency must add up to the offset
  (`WholeCorrection`), and must be hidden from the drift (`DriftUnbiased`); it
  ends (`CorrectionEnds`), and the drift has its turn (`DriftEvaluated`); with
  the options meant for it the clock is never set back (`NeverJumpsBack`); a
  killed daemon leaves a bounded error (`LeftoverBounded`). An estimate is made
  of as many offsets as it should (`WindowsFull`), is as true as the daemon
  takes it to be (`ImplementsPpsd`), and the clock ends up and stays near the
  pulses (`SteadyAtLast`).
* kernel clock adjustment: settings are read and written back, by several
  programs at once (`TickAddsUp`, `FrequencyAddsUp`); the limits are found by
  setting the clock to values that may be accepted (`LimitsFound`,
  `LimitsEnd`); negative offsets are borrowed (`ClockMovedAsAsked`); the daemon
  trusts a snapshot for having been alone (`NoFalseAlarm`).
* statistics: index arithmetic on two interleaved structures, over histories
  that no test reaches: the list stays sorted and complete (`SortedList`),
  updates end (`UpdateReturns`), pass their assertions and write in the buffer
  (`UpdateSafe`), and the buffer is a sliding window
  (`ImplementsSlidingWindow`). What is summed incrementally, or from a cell in
  the middle of the buffer, agrees with the window (`MomentsAgree`,
  `MedianOfOdd`), and with the statistics it replaced (`FormerAgrees`).
* the `pps_stats` program: a line is read by guessing how it was printed, times
  are relative to a reference that may change, and the sorted print, a buffer
  at a time, must not miss an offset (`OffsetsKept`, `TimesKept`,
  `SortedLosesLittle`).
* time stamps: four loops that rely on one another (`NormalForm`, `ValueKept`,
  `NormReturns`), and a comparison that is right only of what they return
  (`CmpAgrees`).
* timeref: two protocols tried in turn, each remembering what the other once
  answered (`OneProtocol`); a clock set from a stored time, perhaps of a report
  without a fix or of a former server (`SetWithinASecond`); attempts that must
  be counted (`QueryEnds`).

`PROJECT.json` lists every component with its status, and every hazard with its
line and the properties that cover it.

## 2. Modules

    SlidingWindow <--implements-- PpsStats    FormerStats      Adjtimex
           ^                      /     \     /                   |
           |              MCPpsStats    BothStats                Ppsd
           |                     \      /       \               /  |  \
           |                     MCStats   PpsStatsProofs      |   |   \
           |                                                  /    |    \
           +-------- PpsdClock --implements--------------------+   | MCPpsd
    Moments <---------/    |  \                                PpsdProofs
        |      MCPpsdClock-+   +----- PpsdClockProofs --------------/
      Sums

    AdjtimexHelper      StatsFile        Timespec          Timeref
       /        \        /     \          /     \          /     \
    ..Proofs  MC..  ..Proofs  MC..   ..Proofs  MC..   ..Proofs  MC..

`PpsStats` instantiates `Moments`, as `PpsdClock` does. `PpsStatsProofs`,
`PpsdClockProofs` and `StatsFileProofs` share `SumsProofs`, the lemmas about sums
and remainders.

### PpsStats, SlidingWindow, Moments, Sums: `pps_stats.c`

`SlidingWindow` is the abstract specification: the last `Length` offsets, the
oldest first. `PpsStats` is the code: arrays as functions over `Slots`, `NIL`
for the index `length` with which the code says "no cell". `pps_stats_update`
is cut at its assertions and at the turns of its insertion loop: `Update`
(entry), `Evict` (`pps_stats_remove_oldest`), `Place` or `PlaceFirst`, `Walk`
and `Link`; nothing interleaves with them, the cut is there so that each
assertion, and where the loop stands, can be stated. Reading past the array
never happens; a write past its end changes no modelled cell, and `UpdateSafe`
forbids it. The refinement mapping reads the buffer from the oldest cell to the
newest (`Window`), and holds the former window while an update is in progress.

The readers keep no state: `Mean`, `Variance`, `Drift` and `Median` sum cell
after cell from where the code begins, over the whole buffer or the last
offsets. `Moments` defines the same of a window, from the formulas; both are
fractions, where the code has long doubles. `Sums` is the addition, term after
term, that both are made of.

### FormerStats and BothStats: `attics/ll_stats.c`, `attics/ll_stats_ll.c`

The two versions of the statistics that `pps_stats.c` replaced: one ring, with
the sums of long doubles and those of integers, the latter's squares cut to
`Unsigned` (2^32). `BothStats` gives them the offsets that `pps_stats_update`
is given and compares what they answer. `FormerAgrees` names the differences:
a window of a single offset, and, of the former ones, the drift of a buffer
that has wrapped and the variance of integers too large to be squared.

### Ppsd and Adjtimex: `ppsd.c`, `ppsd_main.c`, `pps_helper.c`, `adjtimex_helper.c`

`Adjtimex` is the kernel as the daemon uses it: `AdjTick` refuses a tick out of
range, `AdjFreq` clamps. `Ppsd` extends it; a step is a wait for a pulse, or
what the code does between two waits. `pc` says which wait or branch the
process is at:

    down -> first -> wait --> offset -> adjust -> (settled | coarse | rest)
                      ^  \-> drift -/      coarse -> rest -> fine -> last -> trim -> settled
                      |________________________________________________________|

| `pc` | in the code |
|---|---|
| `first` | the `ppsd_update` before the loop, which sets `timeref` |
| `wait` | the `ppsd_update` of the loop of `ppsd_run` |
| `offset`, `drift` | the two turns of the counter `pps_cnt` |
| `adjust` | entry of `ppsd_adj_offset_ns`, its early returns and its choice of a jump |
| `coarse`, `fine`, `trim` | the three places it calls `ppsd_update` with tick or frequency changed |
| `rest`, `last` | the two assertions between them |
| `settled` | it has returned |

A wait ends with a pulse, with an error after a second and a half
(`TimedOut`), or with a timeout that looks early, since the elapsed time is
read from the very clock being slewed, and is waited again (`Retry`). `late`
and `behind` keep how far the wait is from the last pulse and how many seconds
`timeref` missed. `Crash` is any signal; `Start` is `ppsd.service`.

Four variables are not in the code and only serve the properties: `tick0` and
`freq0` (what the kernel is set to when no offset is being corrected), `moved`
(what the corrections have moved the clock by since `cum_off` was reset) and
`goal` (the `cum_off` that would correct the whole offset).

Abstractions:

* an offset estimate is any member of `Offsets` with any deviation, whatever
  the pulses before; a drift estimate is the oscillator's drift plus the
  frequency correction, plus an error in `Noise`. `PpsdClock` shows that the
  windows produce no other;
* the outlier filter (called with 0, hence never enabled) is left out;
* the conversion of ppb to the kernel's 16 bit fixed point is symmetric, so a
  change and its undoing cancel: the model stays in ppb;
* the helper reads the settings and writes them back in two calls. They are
  one step here, and two in `AdjtimexHelper`;
* integers have no width.

### PpsdClock: the daemon in its loop

`PpsdClock` extends `Ppsd` with what closes the loop: `error`, the clock's
distance to the true time, which each second changes by the oscillator's drift,
the frequency and the tick; the jitter of a time stamp; the edge that
`pps_open` negotiates with the device, with the delay of the one it may have to
settle for, and option `-H`; the two windows. Each action is one of `Ppsd`
with its open value filled in: the offset estimate is carried from the window's
mean to the present by its drift, as `ppsd_adj_offset_ns` does, rounding
included. Since every step must be a step of `Ppsd` with estimates that `Ppsd`
allows, `ImplementsPpsd` is the claim that abstracting the windows loses
nothing; `SteadyAtLast` is what the daemon is for. No pulse is lost here: one
lost inside a correction makes the clock a second wrong (section 4).

### AdjtimexHelper: `adjtimex_helper.c`

Any number of processes (`Masters`) run jobs, sequences of the helper's calls,
on one kernel: the daemon's, and those of `jfadjtimex`, made from its options
as its `main` does (`Program`). A step is at most one system call.
`_adjtimex_tick_freq` is `Request` (read) then `Write`; `adjtimex_snapshot` is
`FirstSnapshot` then `Snapshot`, or the latter alone once it has read;
`TIMEX_LIMITS` is `StartLimits`, then a `Try`, `Write`, `TryNext` for each value
refused, `Restore`, `Write`, `Found` for the one that is accepted, or `GiveUp`.
The kernel refuses a caller who is not in `root`; it refuses a tick out of
range; of a frequency, it clamps it or refuses it (`clamps`).

`want` is what the accepted calls asked for, `exact` whether that is known: a
call that another one has fallen into is only known by what it sets whatever
it read. `alone` says that no other master has written since a call, or a
search, began. The properties hold of what is `exact`: README.md:26 asks
for one master, and this says what more than one may do.

### StatsFile: the `pps_stats` program

A line is the fields that `pps_stats_print1`, `offset_fprint` and
`pps_stats_print2` print, in any of `Formats`: times relative or absolute, with
or without a fraction, offsets relative or as time stamps, columns of statistics
or not, a header with `t0` or none. Reading one guesses its format from its
fields, as the code does. `%09ld` prints at least nine characters and reads at most nine, the
minus sign among them (`Scanned`; `Radix` is 10, so that a scaled field loses
a digit as that one does). `Read` actions are the kinds of line (an offset, a
text, a header), followed by the update of the window and its print, sorted or
not (`-S`), with or without a reset between files (`-r`).

### Timespec: `timespec_helper.c`

`Diff`, `Sum` and `Shift` are the three ways a value reaches `timespec_norm`
(the third is `ppsd_update`, which subtracts the hardware offset);
`TooLow`, `TooHigh`, `Negative`, `Positive` are a turn, or the end, of each of
its loops. `ts` is the value, `left - right` what it must still be worth.

### Timeref: `timeref.c`

The program runs once, before the daemon, and shares nothing with it but the
clock it leaves. `Query` is the choice of `_once`, `SntpFails`, `SntpLost`,
`SntpAnswers` the ways `sntp_timeref` ends, `GpsdRefuses`, `GpsdAccepts`,
`NoFix` and `Fix` those of `gpsd_timeref`, the last two a turn of its loop;
`Answered` is the end of `_once`, with its added second and its sleep; `Ask`,
`SetClock` and `Again` are `main`. The static variables `ret_gpsd` and
`ret_sntp` keep their values from one query to the next, and so do `timeref`
and `timestamp`, which `NoFix` overwrites as the code does.

A time is modelled by its distance to the true time, so that time passing
moves what has been read (`slept` in `Answered`) and not the clock; `phase` is
the true time within its second, which the sleep and GPSD's plain seconds
need. Servers have no identity: each may answer, late, with a delay before
its own answer, fail or be silent. `-s`, `-f` and `-c` are chosen in `Init`;
setting the clock may be refused (`MayFail`: not root). The address of GPSD by
default goes through the same `_once` as one server.

### Seeded bugs

Definitions whose name ends in `_Bug...` are mistakes the code could hold where
the definition after them stands: a lost update of a link, an early return that
skips the restoration of the tick, a sign that is not put back. Nothing uses
them; `PROJECT.json` pairs each with the property that must fail if it
replaces the right definition, which shows that the property can fail.

## 3. Runs

| Run | States | Shows |
|---|---|---|
| `stats` | 9439 | Every sequence of updates and resets of a buffer of 4 cells and 3 offsets: types, sorted list, assertions and writes, sums, means, variances and drifts, median of odd counts, refinement of `SlidingWindow`, and every update returns; the two former versions answer the same but for what `FormerAgrees` names. |
| `ppsd` | 590498 | Pulses lost anywhere, with timeouts or silently, both boot frequencies, 16 offsets of both signs, windows of 2 and 5 pulses: types, tick and frequency restored, bounded rate, corrections end, the drift is evaluated although neither window divides the other. |
| `ppsd_steady` | 57952 | No pulse lost, one-shot runs (`-1`), kills and restarts at every step: the drift never sees a correction, a correction is whole, with a minimum of -30 the clock is never set back, and the tick stays within one correction of its value at boot. |
| `ppsd_clock` | 66721 | The daemon with its windows, its device and the clock it steers: full windows, estimates as true as `Ppsd` assumes, and the clock ends up and stays near the pulses. |
| `adjtimex` | 584610 | Two processes, of which one may be refused, on kernels that clamp or refuse a frequency: nothing is lost unless two calls overlap, the limits are found and the settings restored, offsets add up, snapshots raise no false alarm, searches end. |
| `stats_file` | 917774 | Two files of 4 lines in 25 formats, with texts among the lines, read into a buffer of 2: offsets and times are those that were printed but for the named exceptions, and the sorted print loses no more offsets than there were texts. |
| `timeref` | 47482 | One or two servers, every mix of failures, late answers and fixes, clocks wrong either way, all options: one protocol at a time, a clock once set is right to a second, queries end. |
| `timespec` | 10618 | A difference, sum or shift of any two time stamps: see the properties of section 1. |

Four more runs, `stats_median`, `ppsd_assert_rest`, `ppsd_lost` and
`timeref_sntp`, each find one property violated (section 4).

Bounds, and why they are enough:

* `stats`: 4 cells are the fewest with a cell strictly inside the list, an
  even and an odd number of offsets held above 2 and a wrap; 3 values in 4 cells force
  equal offsets and every order of insertion. The state space is finite and
  complete: no bound on the length of a history. `Unsigned` is 8, so that the
  square of one of the offsets is cut.
* `ppsd`: the scale keeps what the code compares: a tick of 10 us changed by
  at most 2, 10 ppb per us, a second of 100 ns, so that the coarse correction
  does 20 ns a second, the fine one 10, and `HalfSecond` is 50. `MCOffsets`
  has, for both signs, offsets outside the limits, insignificant ones, ones
  within the reach of the frequency, of one second of tick, and of one and two
  coarse seconds, with and without remainders. `MaxBehind` bounds the pulses a
  process may lose to 2, enough to lose one in two successive waits of one
  correction. `cum_off` grows only until the next drift evaluation.
* `ppsd_steady`: the kernel accepts five times the change of a correction, so
  that it is the daemon and not the kernel that keeps corrections from adding up;
  windows of 2 and 3 pulses do not divide each other.
* `ppsd_clock`: the same scale, an oscillator 4 or 5 ns a second fast before any
  correction and a jitter of 1 ns, so that windows of 3 and 6 offsets tell the drift
  to 1 ppb. The initial errors need a jump, tick corrections and none; devices
  capture both edges, one, or none; the pulse width is that of option `-H`.
* `adjtimex`: ticks of 3 to 5 and frequencies to 7 units, 5 to the ppm, where
  3 ppb are a ppm: conversions round, the coarse search of the frequency stops
  short of the limit and the fine one finds it, 2 ppm above the first try. Three
  jobs, so that two of one master may surround one of the other; each is a
  sequence that the daemon, or `jfadjtimex` by its options, really makes.
* `stats_file`: a second of 8 ns, printed in base 2, so that a field has three
  characters; offsets of both signs that carry and borrow, of which one negative
  fits that field and the other does not,
  references with and without a fraction, headers and first times of 0 and 2
  (`Formats` has first times below `Epoch`: a program that prints relative times
  was started after 1970). A buffer
  of 2 wraps within a file, and 4 lines fill it twice.
* `timespec`: a second of 3 ns with seconds in -1..1 and nanoseconds in -7..7
  carries more than one second both ways.
* `timeref`: a second of 4 quarters with `-o` at its half, as in the code; two
  attempts stand for the 900 of `GPSD_TIMEOUT_S`, two servers for a command
  line, enough for a server to fail after each protocol has. A server takes 0, 1 or 3
  quarters to answer, so that its offset is null, under and over `-o`; garbage
  times are far from the true one either way.

Fairness: `WF_vars` of all the steps the program takes by itself. For the daemon
it says that a wait ends, with a pulse or with the timeout given to
`time_pps_fetch`, and that the process is scheduled; it says nothing of `Start`,
`Retry` and `Crash`. `MaxBehind` makes retries finite: if every timeout looked
early, `pps_get_timestamp` would call itself for ever. In `AdjtimexHelper` it is
assumed of each process alone: no call of the helper blocks, and none waits for
another process; being given a job (`Run`) is not assumed. `pps_stats_update`
and `timespec_norm` do not block. `timeref` is only kept waiting by a lost
datagram, which is the state `blocked`.

Deadlock is checked but where the programs end: `timeref` exits, or waits in
`read` for ever; in `adjtimex` the jobs are used up, in `stats_file` the files.

## 4. What the code does not do as it says

Four runs each find one property violated.

* `ppsd_assert_rest`: a negative offset of a coarse second or more makes
  `smooth_max_ppb` negative (`ppsd.c:380`), and the assertion of line 397,
  `complement_ns < smooth_max_ppb`, exits the daemon. `RestAssertion`.
* `ppsd_lost`: a pulse lost inside a correction leaves `timeref` a second
  behind: the nested `ppsd_update`'s result is ignored. `TimerefIsLastPulse`.
* `stats_median`: the median of an even number of offsets (4 and more) is not
  the mean of the two in the middle. `MedianOfEven`.
* `timeref_sntp`: after SNTP the offset is measured between two times of the
  server (`timeref.c:246`), never with the local clock: however wrong the
  clock is, `timeref -s` leaves it. `SntpSets`.

Noticed while modelling, without a run.

The daemon:

* killed during a correction it leaves the tick changed, and once restarted
  refuses smooth corrections since the tick is no multiple of 1000;
  `LeftoverBounded` says it gets no worse;
* the assertion of `ppsd.c:415` fails when the complement is exactly the smallest
  change of the tick (the condition of line 398 is `>`, so it is left uncut;
  `Abort` models both exits);
* `cum_drift_ppb` starts with the sign opposite to the corrections it cumulates
  (`ppsd.c:285`), but is only printed;
* a frequency near the kernel's limit is clamped by the trim and not given back
  (`ppsd.c:421`), which is why the proofs below assume `WithinReach`;
* the offset's estimate is carried half a window and one second ahead by its drift,
  and one second more by the caller;
* the usage text says that an offset outside the limits is not corrected
  (`ppsd_main.c:75-76`), it is, by a jump; and that the default is 96 seconds
  (66) where it is 64 (123).

The helper and `jfadjtimex`:

* `-f` sets the frequency where README.md:102 of the repository says it adjusts
  it; `-d` and `-f` share a variable, so that the last one given is used by both;
* `TIMEX_LIMITS` finds 1001 ppm on a kernel that clamps (`LimitsFound`);
* `adjtimex_set_offset` is refused for a second or more, where a negative offset of
  any size is taken.

The statistics:

* a buffer of one cell is written past its end by its second update
  (`pps_stats.c:295-301`): `lowest` and `highest` become `length`. The models and
  proofs leave this out (`Length # 1`);
* with one offset held, mean, variance and drift are 0;
* a text among the lines is stored as an offset of 0 at time 0, and not
  counted; an absolute time of a whole second is taken for a relative one and
  gets `t0` added; of a time stamp with a fractional reference, the offset is 0 or
  the figure that follows (exceptions of `OffsetsKept` and `TimesKept`);
* a negative time stamp is read without its last digit if it has nine
  (`pps_stats.c:590` prints what `817` reads): the first line of a file printed with times
  relative to it and absolute time stamps, `0, 0.-300000000`, is read as an
  offset of -30 ms (the other exception of `OffsetsKept`);
* the former statistics' drift is that of the cells' order, wrong once the
  buffer has wrapped.

`timeref` takes an offset of exactly 0 for a failure and asks the next server
(`timeref.c:411`), sets the clock to a time read before its sleep (`323`), up
to a second late, or with GPSD up to a second early (`300`, marked `FIXME`),
and with `-f` after SNTP moves the clock by the server's processing time.

## 5. Proofs

| Theorem | Statement | Assumes |
|---|---|---|
| `PpsStatsProofs!TypeCorrect` | `TypeOK` | |
| `PpsStatsProofs!ListAlwaysSorted` | `SortedList` | `Length # 1` |
| `PpsStatsProofs!UpdatesAreSafe` | `UpdateSafe` | `Length # 1` |
| `PpsStatsProofs!SlidingCorrect` | `ImplementsSlidingWindow` | |
| `PpsStatsProofs!MomentsAlwaysAgree` | `MomentsAgree` | |
| `PpsStatsProofs!MedianOfOddIsInTheMiddle` | `MedianOfOdd` | `Length # 1` |
| `PpsStatsProofs!FormerAlwaysAgrees` | `FormerAgrees` | |
| `PpsdProofs!TypeCorrect` | `TypeOK` | |
| `PpsdProofs!KillsLeaveOneCorrection` | `LeftoverBounded` | |
| `PpsdProofs!TickComesBack` | `TickRestored` | no kills |
| `PpsdProofs!FreqComesBack`, `RateBounded` | `FreqRestored`, `SlewBounded` | `WithinReach` |
| `PpsdProofs!CorrectionsAreWhole` | `WholeCorrection` | `NoneLost` |
| `PpsdProofs!DriftNeverSeesCorrections` | `DriftUnbiased` | `WithinReach`, no lost pulse |
| `PpsdProofs!ClockNeverSetBack` | `NeverJumpsBack` | `OneSided` |
| `PpsdClockProofs!EstimatesFromFullWindows` | `WindowsFull` | |
| `PpsdClockProofs!EstimatesAllowed` | `ImplementsPpsd` | `Allows(J)` |
| `PpsdClockProofs!DriftIsTheClocks` | `DriftFound(J)` | `Allows(J)`, `PerTick < MaxFreq` |
| `PpsdClockProofs!OffsetIsTheClocks`, `JumpsMeetThePulses` | `OffsetFound(j)`, `JumpMeets(j)` | `Jittered(j)`, `Allows(2 * j)`, `Follows` |
| `PpsdClockProofs!CorrectionsMeetThePulses` | `OffsetMet(j)` | as above, `PerTick < MaxFreq` |
| `StatsFileProofs!OffsetsReadBack`, `TimesReadBack`, `SortedPrint` | `OffsetsKept`, `TimesKept`, `SortedLosesLittle` | |
| `AdjtimexHelperProofs!TypeCorrect` | `TypeOK` | |
| `AdjtimexHelperProofs!LimitsAreFound` | `LimitsFound` | |
| `AdjtimexHelperProofs!TicksAddUp`, `FrequenciesAddUp` | `TickAddsUp`, `FrequencyAddsUp` | |
| `AdjtimexHelperProofs!OffsetsAddUp`, `SnapshotsTrue` | `ClockMovedAsAsked`, `NoFalseAlarm` | |
| `TimespecProofs!TypeCorrect`, `TimeKept`, `Normalises`, `CmpAndDiffAgree` | `TypeOK`, `ValueKept`, `NormalForm`, `CmpAgrees` | |
| `TimerefProofs!TypeCorrect`, `OneProtocolAnswers`, `SetsRight` | `TypeOK`, `OneProtocol`, `SetWithinASecond` | |

All are theorems of `Spec` (of `CSpec` in `PpsdClockProofs`, of `BothSpec` for
`FormerAlwaysAgrees`) for every value of
the constants that meets the named assumptions of the modules
(`LengthAssumption`, `UnsignedAssumption`, `KernelAssumption`, `DaemonAssumption`, `ClockAssumption`,
`StatsFileAssumption`, `HelperAssumption`, `TimespecAssumption`,
`TimerefAssumption`), which TLC evaluates in the runs.

**Sums.** What is summed by a loop is proved by induction. The library's induction
theorems cannot be used (they take the property as an operator), but
`WFMin`, the smallest element of a set, can: `Induction` takes the *set* of the numbers
for which something holds. A recursive function is unfolded (`SumStep`) after
a function that satisfies its equation is exhibited, by induction again. From
these come the sums of a window that is pushed, the identities that least
squares need, and the bounds of a sum by those of its terms.

**Statistics.** `IInv == TypeOK /\ SortedList /\ LoopInvariant`. `SortedList`
cannot be inductive between two calls, since an update breaks and repairs the
links; it is therefore stated of the cells listed at each `pc`, and
`LoopInvariant` says that `at` and `nxt` are neighbours with every cell passed
no higher than the new offset. The list is described without recursion:
`next` and `prev` are inverse on the listed cells, increase with the order (offset,
then age), and skip nothing; the lemmas over `Evict` and the three `Link`
actions then relate the former order to the new one. With one cell the code
really fails (section 4), hence `Length # 1`; the refinement does not need it.

The incremental sums are those of the window (`RunningSums`): at `place` a full buffer
has already given up its oldest offset, so they are those of the rest. The
readers then sum the cells that the refinement mapping reads (`Back` meets
`Window` from its end), for `MomentsAlwaysAgree`; the drift is that of least squares
after the abscissas the code shifts are summed. The median counts: the code
follows as many links as half the length from the lowest cell, each of which
passes one cell in the order of the list, so as many cells come before it as
were passed, and as many after as remain (`MedianOfOddIsInTheMiddle`).

`FormerFollows` relates the former ring to the buffer: the same cells, but for the
one that `pps_stats_insert` has written while its loop runs. `FormerSums` says
that the four former sums are those of what that ring holds; the cut squares
are those of the window of cuts, which slides as the window does. The loops
of `ll_stats_window` go over the cells from both ends of the ring, and those of
`pps_stats.c` backwards: `SumInAnyOrder` is that a sum does not depend on it. The drift
agrees because places are one apart and sum to zero about their middle
(`PlacesVary`). `CutsDiffer` and `QuotientIs` are the integer version's.

**Daemon.** `IInv == TypeOK /\ Steering /\ Cut`. `Steering` is the argument of
the tick: a correction begins only if the tick is a multiple of 1000 us, and
the only such value within one correction of the boot value is the boot value
itself (`NearMultiples`); so whatever a killed process left, the next
correction starts from the boot value or not at all, and the change being
undone is the one `adj` remembers. `Cut` bounds what remains after each
stage of the cut. `Trimming` adds the frequency, under `WithinReach` (a first
frequency and drift corrections that cannot bring the frequency nearer to the
kernel's limit than one trim, and no kills: a killed process leaves the
frequency trimmed, and the next one takes it for the normal one). `Remaining` is the arithmetic of
`WholeCorrection`: coarse seconds left times their size, plus the complement,
is what is left of `goal`. `Balanced` is that of `DriftUnbiased`: what has
moved the clock and what is cumulated cancel, but for the second in progress.
`NoneLost` says that no pulse is lost: none can time out, or none may be by a
daemon that goes on (`MaxBehind` is 0).
`OneSided` is what README.md:82-86 of the repository asks for, a minimum that is
not positive and a maximum of half a second or more: offsets above half a second
are refused before, so what is corrected abruptly is negative
(`JumpsForward`), and everything else only changes the rate.

**Daemon in its loop.** `Filled` is the argument of `WindowsFull`: a window holds
at least as many offsets as the counter modulo its size, and is full at its
turn, whatever pulses a correction took without counting them; the window of the
offsets is emptied only when the counter is a multiple of its size.

`EstimatesAllowed` is the refinement. Its invariant is
`CInv(J) == IInv /\ Filled /\ ClockTyped /\ Tracked /\ Rising(J)`, for `J` a bound
of how much the jitters of two pulses differ. `Uncorrected` is the offset of a
clock that would never have been corrected, what the second in progress has
not done yet left out (`Pending`): steps between two pulses do not change it
(`BetweenTracked`). `Tracked` says that the last offset of the drift's window is
it but for a jitter, whence `Rising`: two neighbours of the window differ by what the
oscillator gains in a second, give or take the frequency and `J`. The slope of the
least squares line is an average of the differences of neighbours with
weights that are positive (`SlopeBetween`), so it lies between the least and the greatest
of them, and so does the drift. `Allows(J)` lets `Ppsd` choose any offset and deviation, and a drift
within `2 * MaxFreq + PerTick + J` of the true one: the first
correction may move the frequency from one end of its range to the other inside
a window, and a trim near the end be clamped by a change of tick. It asks for windows of more than one offset, since one has no drift.
So the theorems of `PpsdProofs` that put no limit on the drift's estimate hold of this daemon:
`TypeCorrect`, `KillsLeaveOneCorrection`, and, each under its own assumption, `TickComesBack`,
`CorrectionsAreWhole` and `ClockNeverSetBack`. `FreqComesBack`, `RateBounded` and
`DriftNeverSeesCorrections` do not carry over: a `Noise` this wide
excludes `WithinReach`, as it must, since an oscillator and a frequency at
the ends of their ranges do bring the frequency to its limit.

`DriftIsTheClocks` is what the wide `Noise` leaves out. While the frequency is not
within a change of tick of its limit, so that no trim is clamped, the drift
evaluated is that of the oscillator with the present frequency correction, or, in the window
of the first correction, between that and none (`Slowest`, `Fastest`), to `J`: nothing
that was done to the offset shows in it. `RisesRight` is its invariant and
`FreqHeld` says what the frequency will be once a trim is undone. `PerTick < MaxFreq`
holds of Linux (100 ppm for a microsecond of tick, 500 ppm of frequency).

`OffsetIsTheClocks` does the same for the offset. `Straight` says that the window
lies on one line but for the jitters: it is emptied after every correction and, if
`-N` is a multiple of `-n` (`Follows`, true of the defaults), also whenever the
drift's turn changes the frequency. The sums of a window on a line are computed in
`LineSums`, and `EstimateNear` follows them through the mean, the slope and both
roundings: the estimate is where the clock will be 2.5 seconds after the last pulse,
to 7 `j` and a rounding (the code goes half the window's length and one second past its middle, which
is 1.5 seconds after its last pulse, and then one second further). So a
jump leaves the opposite of what the clock drifts in that time (`JumpsMeetThePulses`), at the
present rate or, in the turn that first corrects the frequency, at the oscillator's.
`CorrectionsMeetThePulses` is that of every correction, the gradual ones too, which go
on for seconds while the clock drifts. `Owed` is its invariant: what is to be
corrected is what was found, but for what the clock has gained at its own rate in the
`k` seconds (`Lasted`) since; each nested pulse adds one second to both, since `Uncorrected`
gains `Slope` and `goal` stands. When it is over `Remaining` says that `cum_off` is within the
deviation of `goal`. The deviation is no more than the width of the window
(`DeviationBelow`, from the least and the largest square a sum can have), which is what
the clock drifts while it fills and two jitters. So of a clock that did not drift
at most 9 `j` and a rounding is left, whatever its offset was.
Without `Follows` a window may hold offsets from before and after
a change of frequency, and none of the three is claimed.

**Lines.** `Types` and, for the offsets, the reading of what was printed by
cases on the format (`ReadingBack`): a carry or a borrow of the printed nanoseconds
is given back by the difference that reads them, and they are negative, hence perhaps too
wide for their field, only when `now` is the `base` of the program that wrote them
(`WideNumbers`; that `base` is not after `now` is part of `Types`). `FilesOrdered` says that the offsets of the
file being read are the last ones of the buffer, and `TimesRead` that they
are all shifted by the same time (`Shift`), once `t0` is known. For the sorted
print, `PrintedInTime` relates the cells that have not been printed to the
lines counted since the last print and to the texts, which take a cell and are not counted:
some number of texts `k` since the last print explains what is waiting.

**Helper.** `IInv == TypeOK /\ LimitsFound` and, of each master, `Standing`
and `Probing`. `Standing` relates where it is to what it is writing. `Probing`
is the argument of the searches: no value the kernel would have taken has been
passed, whatever other masters write, because the kernel's answer does not
depend on its settings; the coarse search of a frequency is at a multiple of a
ppm, and stops less than one below the limit, from where the fine one starts above
it. The sums need more. `Fresh`: what a call has read is still in the kernel if
no other master has written since. `TickKept` and `FreqKept` say where the
sum of what was asked for is: in the kernel, unless a search has a value of its own
there (`HoldsTick`), and then in what that search will restore, if it has been
alone. An accepted write makes every other master in a call or a search not
alone, which is what keeps this inductive; a restoration is never refused, since
its master is obeyed and what it restores was once in the kernel
(`RestorationAccepted`). A rounding strays by half a unit (`Rounds`), errors add
(`ErrorsAdd`), and a sum that close is the only whole number of ppb there
(`Nearest`). All steps but a write share one frame (`Calm`, `CalmSteps`).

**Time stamps.** `IInv == TypeOK /\ ValueKept /\ Heading /\ NormalForm`.
`Heading` is what the last two loops keep: the seconds cannot pass zero before
the nanoseconds have changed sign. The ranges each loop leaves to the next are
part of `TypeOK`. `CmpAgrees` then follows from `ValueKept` and `NormalForm`.

**Timeref.** `IInv == TypeOK /\ Asking /\ Received /\ Measured`. `Asking` says
which of the two remembered answers is out of date at each `pc`: SNTP is only
asked when GPSD has not answered, and GPSD when SNTP has not, which is why
both never hold. `Received` and `Measured` follow a time from its reading to the end
of `_once`: what remains of a failed query has no bound, but no answer is then
remembered and `off` is 0. `SetWithinASecond` is an action property: it follows
from `Measured` before the step.

Only model-checked: `ImplementsPpsd` with the `Noise` of 1 ppb of the
run, where the window sizes and the jitters round to it; and the liveness
properties `UpdateReturns`, `CorrectionEnds`, `DriftEvaluated`, `SteadyAtLast`,
`LimitsEnd`, `NormReturns` and `QueryEnds` (fairness and `ENABLED` are not
supported).

## 6. Not modelled, and the plan

In this order:

1. The single shot offset and its remainder (`adjtimex_helper.c`), and
   `pps_set_clock` (`pps_helper.c`), which no program calls.
2. The safety half of `SteadyAtLast` for every value of the constants.
   `CorrectionsMeetThePulses` bounds the offset a correction leaves by the drift and
   the jitter, and `DriftIsTheClocks` the drift that is found by the jitter:
   what is missing is how small both become from one run to the next.
3. The former daemons, `attics/ppsd_fsm2.c` first: a table of states, which the
   present daemon replaced by nested calls.
4. The options of the programs, where one changes what another means.

Left out: the Kalman filter, Durbin-Watson and `hardpps` (floating point
experiments that the daemon does not call; `kalman.c:48` says
`F.P.Ft + Q` and computes `F.P + Q`, but with fractions for floats a covariance
says little), logging, widths and units of what is printed, scripts and data.
The width of integers: `pps_stats.c:389` squares an offset in 64 bits, which an
offset above 3 seconds overflows; the scaled models have none.
