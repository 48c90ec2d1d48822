------------------------------ MODULE PpsStats ------------------------------
(***************************************************************************)
(* pps_stats_t (src/pps_stats.c): the last Length offsets in a circular    *)
(* buffer whose cells are also linked, by index, in a list sorted by       *)
(* offset.  Equal offsets are listed the oldest first.                     *)
(*                                                                         *)
(* The daemon has a single thread, so an operation is never interrupted;   *)
(* pps_stats_update is nevertheless cut into the steps between its         *)
(* assertions and the turns of its loop, with a program counter, so that   *)
(* each assertion and the loop's invariant can be stated.                  *)
(*                                                                         *)
(* Arrays are functions over Slots.  A write to offset[length], past the   *)
(* end of the allocation, changes no slot: EXCEPT leaves the function      *)
(* alone.  The time stamps of the cells are left out.                      *)
(***************************************************************************)
EXTENDS Integers, Sequences, FiniteSets, Sums

CONSTANTS
    Length,   \* number of cells of the buffer
    Offsets   \* the offsets that can be measured, in ns

ASSUME LengthAssumption == Length \in Nat \ {0}
ASSUME OffsetsAssumption == Offsets \subseteq Int

Slots == 0 .. Length - 1
NIL == Length            \* the index "length" stands for "no cell"
Links == Slots \cup {NIL}

VARIABLES
    ns, prev, next,      \* offset[].priv.ns, .prev and .next
    oldest,              \* the next cell to be written
    full,                \* is_full > 0
    lowest, highest,     \* the ends of the sorted list
    cum, cum2,           \* sum of the offsets held, and of their squares
    pc,                  \* where pps_stats_update stands
    x,                   \* its argument offset_ns
    at, nxt              \* "prev" and "next" of the loop of pps_stats_insert

ring == <<ns, oldest, full>>
list == <<prev, next, lowest, highest>>
cums == <<cum, cum2>>
walk == <<at, nxt>>
vars == <<ring, list, cums, walk, pc, x>>

-----------------------------------------------------------------------------
(* State functions.  A name that ends in _Bug, here and below, is a seeded *)
(* bug: a mistake the code could hold where the definition that follows    *)
(* stands, which the property named catches.                               *)

(* pps_stats_length *)
HeldLength == IF full THEN Length ELSE oldest

(* _pps_stats_newest *)
Newest ==
    IF oldest < 1
    THEN IF HeldLength = 0 THEN 0 ELSE HeldLength - 1
    ELSE oldest - 1

(* pps_stats_lower: NIL is the NULL pointer, given or returned. *)
Lower(i) ==
    IF i = NIL
    THEN IF HeldLength = 0 THEN NIL ELSE highest
    ELSE IF prev[i] >= HeldLength THEN NIL ELSE prev[i]

(* pps_stats_older of a cell: the indexes go down, then round. *)
Older(i) == IF i = 0 THEN HeldLength - 1 ELSE i - 1

(* The n-th cell from the newest, as the loops go with pps_stats_older. *)
Back(k) ==
    LET cell[n \in 1 .. k] == IF n = 1 THEN Newest ELSE Older(cell[n - 1])
    IN  cell

(* _pps_stats_cums over the last k offsets: the loop goes from the newest
   to older ones; k = 0 or k > length answers with the running sums. *)
Cums(k) ==
    IF k = 0 \/ k > HeldLength
    THEN cums
    ELSE LET cell == Back(k)
         IN  << SumTo([n \in 1 .. k |-> ns[cell[n]]], k),
                SumTo([n \in 1 .. k |-> ns[cell[n]] * ns[cell[n]]], k) >>

(* The number of offsets that the statistics asked over a window of k use. *)
Windowed(k) == IF 0 < k /\ k < HeldLength THEN k ELSE HeldLength

(* pps_stats_mean and pps_stats_var, fractions; the mean of one is left 0. *)
Mean(k) ==
    LET n == Windowed(k) IN IF n <= 1 THEN <<0, 1>> ELSE <<Cums(n)[1], n>>

Variance(k) ==
    LET n == Windowed(k)
    IN  IF n <= 1
        THEN <<0, 1>>
        ELSE <<n * Cums(n)[2] - Cums(n)[1] * Cums(n)[1], n * (n - 1)>>

(* pps_stats_drift_ppb: pps_stats_covar over _pps_stats_tsvar.  The times are
   one second apart, as ppsd_update gives them: the n-th newest is at -n. *)
Drift(k) ==
    LET m == Windowed(k)
        cell == Back(m)
        t == SumTo([n \in 1 .. m |-> -n], m)
        t2 == SumTo([n \in 1 .. m |-> n * n], m)
        y == Mean(k)
        covar == SumTo([n \in 1 .. m |->
                           (y[2] * ns[cell[n]] - y[1]) * (m * (-n) - t)], m)
    IN  IF m * t2 - t * t = 0
        THEN <<0, 1>>
        ELSE <<covar, y[2] * (m * t2 - t * t)>>

(* MedianOfOdd: the middle of the buffer, not of the list. *)
DoubleMedian_Bug == IF HeldLength = 0 THEN 0 ELSE 2 * ns[HeldLength \div 2]

(* pps_stats_median, doubled to stay in the integers. *)
DoubleMedian ==
    LET len == HeldLength
        down[n \in 0 .. Length] ==
            IF n = 0 THEN highest ELSE Lower(down[n - 1])
    IN  CASE len = 0       -> 0
          [] len = 2       -> Cums(len)[1]
          [] len % 2 = 1   -> 2 * ns[down[len \div 2]]
          [] OTHER         -> ns[down[len \div 2]] + ns[down[len \div 2 + 1]]

-----------------------------------------------------------------------------
(* Initial state: pps_stats_ctor, which zeroes the cells. *)
Init ==
    /\ ns = [i \in Slots |-> 0]
    /\ prev = [i \in Slots |-> 0]
    /\ next = [i \in Slots |-> 0]
    /\ oldest = 0
    /\ full = FALSE
    /\ lowest = NIL
    /\ highest = NIL
    /\ cum = 0
    /\ cum2 = 0
    /\ pc = "idle"
    /\ x = 0
    /\ at = NIL
    /\ nxt = NIL

(* pps_stats_reset, zeroing as every caller asks. *)
Reset ==
    /\ pc = "idle"
    /\ ns' = [i \in Slots |-> 0]
    /\ prev' = [i \in Slots |-> 0]
    /\ next' = [i \in Slots |-> 0]
    /\ oldest' = 0
    /\ full' = FALSE
    /\ lowest' = NIL
    /\ highest' = NIL
    /\ cum' = 0
    /\ cum2' = 0
    /\ UNCHANGED <<walk, pc, x>>

(* MomentsAgree: the squares are forgotten. *)
Remove_Bug(k) ==
    /\ IF lowest = k
       THEN lowest' = next[k] /\ next' = next
       ELSE lowest' = lowest /\ next' = [next EXCEPT ![prev[k]] = next[k]]
    /\ IF highest = k
       THEN highest' = prev[k] /\ prev' = prev
       ELSE highest' = highest /\ prev' = [prev EXCEPT ![next[k]] = prev[k]]
    /\ cum' = cum - ns[k]
    /\ cum2' = cum2

(* pps_stats_remove: cell k leaves the list and the sums, not the buffer. *)
Remove(k) ==
    /\ IF lowest = k
       THEN lowest' = next[k] /\ next' = next
       ELSE lowest' = lowest /\ next' = [next EXCEPT ![prev[k]] = next[k]]
    /\ IF highest = k
       THEN highest' = prev[k] /\ prev' = prev
       ELSE highest' = highest /\ prev' = [prev EXCEPT ![next[k]] = prev[k]]
    /\ cum' = cum - ns[k]
    /\ cum2' = cum2 - ns[k] * ns[k]

(* pps_stats_update is called. *)
Update(v) ==
    /\ pc = "idle"
    /\ x' = v
    /\ pc' = IF full THEN "evict" ELSE "place"
    /\ UNCHANGED <<ring, list, cums, walk>>

(* pps_stats_remove_oldest, when the buffer is full. *)
Evict ==
    /\ pc = "evict"
    /\ Remove(oldest)
    /\ pc' = "place"
    /\ UNCHANGED <<ring, walk, x>>

(* TypeOK: the index wraps one cell too late. *)
Advance_BugWrap ==
    /\ oldest' = IF oldest + 1 > Length THEN 0 ELSE oldest + 1
    /\ full' = (full \/ oldest + 1 > Length)
    /\ pc' = "idle"
    /\ x' = 0
    /\ at' = NIL /\ nxt' = NIL

(* ImplementsSlidingWindow: the buffer is full only when it wraps. *)
Advance_BugFull ==
    /\ oldest' = IF oldest + 1 = Length THEN 0 ELSE oldest + 1
    /\ full' = (oldest + 1 = Length)
    /\ pc' = "idle"
    /\ x' = 0
    /\ at' = NIL /\ nxt' = NIL

(* The end of pps_stats_update, once the cell is linked; its argument and
   the locals of pps_stats_insert are forgotten. *)
Advance ==
    /\ oldest' = IF oldest + 1 = Length THEN 0 ELSE oldest + 1
    /\ full' = (full \/ oldest + 1 = Length)
    /\ pc' = "idle"
    /\ x' = 0
    /\ at' = NIL
    /\ nxt' = NIL

(* pps_stats_insert writes the offset in its cell. *)
Store ==
    /\ ns' = [ns EXCEPT ![oldest] = x]
    /\ cum' = cum + x
    /\ cum2' = cum2 + x * x

(* pps_stats_insert in an empty buffer. *)
PlaceFirst ==
    /\ pc = "place"
    /\ HeldLength = 0
    /\ Store
    /\ lowest' = oldest
    /\ highest' = oldest
    /\ prev' = [prev EXCEPT ![oldest] = NIL]
    /\ next' = [next EXCEPT ![oldest] = NIL]
    /\ Advance

(* pps_stats_insert up to its loop. *)
Place ==
    /\ pc = "place"
    /\ HeldLength > 0
    /\ Store
    /\ nxt' = lowest
    /\ at' = NIL
    /\ pc' = "walk"
    /\ UNCHANGED <<oldest, full, list, x>>

(* SortedList: equal offsets are listed the newest first. *)
Beyond_Bug == nxt # NIL /\ x > ns[nxt]

(* The condition of the loop. *)
Beyond == nxt # NIL /\ x >= ns[nxt]

(* UpdateReturns: the next cell is not followed. *)
Walk_BugStuck ==
    /\ pc = "walk"
    /\ Beyond
    /\ at' = nxt
    /\ UNCHANGED <<ring, list, cums, nxt, pc, x>>

(* One turn of the loop. *)
Walk ==
    /\ pc = "walk"
    /\ Beyond
    /\ at' = nxt
    /\ nxt' = next[nxt]
    /\ UNCHANGED <<ring, list, cums, pc, x>>

(* The three ways to link the cell once the loop has stopped. *)
LinkLowest ==
    /\ pc = "walk"
    /\ ~Beyond
    /\ nxt = lowest
    /\ prev' = [prev EXCEPT ![lowest] = oldest, ![oldest] = NIL]
    /\ next' = [next EXCEPT ![oldest] = lowest]
    /\ lowest' = oldest
    /\ Advance
    /\ UNCHANGED <<ns, highest, cums>>

(* UpdateSafe: highest does not move. *)
LinkHighest_Bug ==
    /\ pc = "walk"
    /\ ~Beyond
    /\ nxt # lowest
    /\ nxt = NIL
    /\ next' = [next EXCEPT ![highest] = oldest, ![oldest] = NIL]
    /\ prev' = [prev EXCEPT ![oldest] = highest]
    /\ Advance
    /\ UNCHANGED <<ns, lowest, highest, cums>>

LinkHighest ==
    /\ pc = "walk"
    /\ ~Beyond
    /\ nxt # lowest
    /\ nxt = NIL
    /\ next' = [next EXCEPT ![highest] = oldest, ![oldest] = NIL]
    /\ prev' = [prev EXCEPT ![oldest] = highest]
    /\ highest' = oldest
    /\ Advance
    /\ UNCHANGED <<ns, lowest, cums>>

LinkBetween ==
    /\ pc = "walk"
    /\ ~Beyond
    /\ nxt # lowest
    /\ nxt # NIL
    /\ next' = [next EXCEPT ![at] = oldest, ![oldest] = nxt]
    /\ prev' = [prev EXCEPT ![oldest] = at, ![nxt] = oldest]
    /\ Advance
    /\ UNCHANGED <<ns, lowest, highest, cums>>

Link == LinkLowest \/ LinkHighest \/ LinkBetween
Steps == Evict \/ PlaceFirst \/ Place \/ Walk \/ Link

Next == Reset \/ Steps \/ \E v \in Offsets : Update(v)

Spec == Init /\ [][Next]_vars

(* A call of pps_stats_update runs to its end: it never blocks. *)
FairSpec == Spec /\ WF_vars(Steps)

-----------------------------------------------------------------------------
(* Properties. *)

(* The live cells: those pps_stats_update has written since the last reset. *)
Live == IF full THEN Slots ELSE 0 .. oldest - 1

(* The cells that are in the list: during pps_stats_insert, the cell being
   overwritten has left it and is not back yet. *)
Listed == IF pc \in {"place", "walk"} THEN Live \ {oldest} ELSE Live

(* The pairs of cells <<i, j>> where i comes before j in the list, for the
   offsets f and the oldest cell o: by offset, the cell written first among
   equals.  Cells are written in the circular order that starts at o. *)
WrittenBefore(i, j, o) == IF (i >= o) = (j >= o) THEN i < j ELSE i >= o

Order(f, o) ==
    {p \in Slots \X Slots :
        \/ f[p[1]] < f[p[2]]
        \/ f[p[1]] = f[p[2]] /\ WrittenBefore(p[1], p[2], o)}

(* Types, and the ranges of every index the code keeps. *)
TypeOK ==
    /\ ns \in [Slots -> Int]
    /\ prev \in [Slots -> Links]
    /\ next \in [Slots -> Links]
    /\ oldest \in Slots
    /\ full \in BOOLEAN
    /\ lowest \in Links
    /\ highest \in Links
    /\ cum \in Int
    /\ cum2 \in Int
    /\ pc \in {"idle", "evict", "place", "walk"}
    /\ pc = "evict" => full
    /\ pc # "idle" => x \in Offsets
    /\ x \in Int
    /\ at \in Links
    /\ nxt \in Links

(* lo and hi are the ends of the cells L in the order B ("index of the lowest
   offset", "index of the highest offset": pps_stats.c:38-39). *)
SortedEnds(L, B, lo, hi) ==
    /\ lo \in L \cup {NIL}
    /\ hi \in L \cup {NIL}
    /\ lo = NIL <=> L = {}
    /\ hi = NIL <=> L = {}
    /\ \A i \in L : /\ i # lo => <<lo, i>> \in B
                    /\ i # hi => <<i, hi>> \in B

(* pv and nx are inverse of each other on L and stop only at the ends. *)
MutualLinks(L, pv, nx, lo, hi) ==
    \A i \in L :
        /\ pv[i] \in L \cup {NIL}
        /\ nx[i] \in L \cup {NIL}
        /\ pv[i] = NIL <=> i = lo
        /\ nx[i] = NIL <=> i = hi
        /\ pv[i] # NIL => nx[pv[i]] = i
        /\ nx[i] # NIL => pv[nx[i]] = i

(* nx leads to the following cell in the order, and skips none. *)
ImmediateSuccessor(L, B, nx) ==
    \A i \in L :
        nx[i] # NIL =>
            /\ <<i, nx[i]>> \in B
            /\ \A j \in L : ~(<<i, j>> \in B /\ <<j, nx[i]>> \in B)

Chain(L, B, pv, nx, lo, hi) ==
    /\ SortedEnds(L, B, lo, hi)
    /\ MutualLinks(L, pv, nx, lo, hi)
    /\ ImmediateSuccessor(L, B, nx)

(* lowest, highest, prev and next describe one list, that of exactly the
   listed cells in the order of their offsets, oldest first among equals,
   whatever was evicted and inserted before. *)
SortedList == Chain(Listed, Order(ns, oldest), prev, next, lowest, highest)

(* The loop of pps_stats_insert (pps_stats.c:286-293) always stands between
   two neighbours of the list, and everything behind it is at most x. *)
LoopInvariant ==
    pc = "walk" =>
        /\ ns[oldest] = x
        /\ Listed # {}
        /\ at \in Listed \cup {NIL}
        /\ nxt = IF at = NIL THEN lowest ELSE next[at]
        /\ at # NIL => ns[at] <= x

(* No assertion of pps_stats_remove (pps_stats.c:228 and 238) or of
   pps_stats_insert (275, 276, 300 and 310) fails. *)
Assertions ==
    /\ pc = "evict" => /\ lowest = oldest => prev[oldest] = NIL
                       /\ highest = oldest => next[oldest] = NIL
    /\ pc = "place" /\ HeldLength = 0 => lowest = NIL /\ highest = NIL
    /\ pc = "walk" /\ ~Beyond => /\ nxt = lowest => at = NIL
                                 /\ nxt # lowest /\ nxt = NIL => at = highest

(* Every cell pps_stats_remove and pps_stats_insert write through a link is a
   cell of the buffer: none is offset[length]. *)
WritesInBounds ==
    /\ pc = "evict" => /\ lowest # oldest => prev[oldest] \in Slots
                       /\ highest # oldest => next[oldest] \in Slots
    /\ pc = "walk" /\ ~Beyond =>
        IF nxt = lowest THEN lowest \in Slots
        ELSE IF nxt = NIL THEN highest \in Slots ELSE at \in Slots

(* An update is safe at each of its steps, whatever the former ones linked. *)
UpdateSafe == Assertions /\ WritesInBounds

(* The offsets of count cells, from one cell on, round the end of the buffer. *)
HeldFrom(f, start, count) ==
    [n \in 1 .. count |->
        f[IF start + n - 1 < Length THEN start + n - 1
          ELSE start + n - 1 - Length]]

(* The offsets held, the oldest first.  The offset being added is among them
   from the moment pps_stats_insert stores it. *)
Window ==
    IF pc = "walk"
    THEN IF full \/ oldest + 1 = Length
         THEN HeldFrom(ns, IF oldest + 1 = Length THEN 0 ELSE oldest + 1, Length)
         ELSE HeldFrom(ns, 0, oldest + 1)
    ELSE IF full THEN HeldFrom(ns, oldest, Length) ELSE HeldFrom(ns, 0, oldest)

Sliding == INSTANCE SlidingWindow WITH window <- Window

(* The buffer behaves as the sliding window its users rely on: an update
   drops the oldest offset, and only when Length of them are held. *)
ImplementsSlidingWindow == Sliding!Spec

M == INSTANCE Moments

(* The offsets that what is asked over the last k is made of. *)
Last(k) == SubSeq(Window, Len(Window) - Windowed(k) + 1, Len(Window))

(* The sums, the mean, the variance and the drift over any window, even longer
   than what is held, are those of the last offsets given to pps_stats_update,
   whatever was evicted and wherever the buffer has wrapped: nothing in the
   code ever compares what it has added and subtracted with the buffer, though
   "k == length is a way to test both ways agreed" (pps_stats.c:377). *)
MomentsAgree ==
    pc = "idle" =>
        \A k \in 0 .. Length + 1 :
            /\ Windowed(k) = IF k \in 1 .. Len(Window) THEN k ELSE Len(Window)
            /\ Cums(k) = << M!Total(Last(k)), M!Squares(Last(k)) >>
            /\ M!Same(Mean(k), M!MeanOf(Last(k)))
            /\ M!Same(Variance(k), M!VarianceOf(Last(k)))
            /\ M!Same(Drift(k), M!DriftOf(Last(k)))

(* pps_stats_median returns the median of the offsets held when their number
   is odd: one of them, with less than half of them below and less than half
   above.  (When it is even, see MedianOfEven in MCPpsStats.) *)
MedianOfOdd ==
    pc = "idle" /\ HeldLength % 2 = 1 =>
        \E m \in DOMAIN Window :
            /\ DoubleMedian = 2 * Window[m]
            /\ 2 * Cardinality({i \in DOMAIN Window : Window[i] < Window[m]})
                  < HeldLength
            /\ 2 * Cardinality({i \in DOMAIN Window : Window[i] > Window[m]})
                  < HeldLength

(* A call of pps_stats_update returns: the loop over the list ends. *)
UpdateReturns == pc # "idle" ~> pc = "idle"
=============================================================================
