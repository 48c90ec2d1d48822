------------------------ MODULE AdjtimexHelperProofs ------------------------
(***************************************************************************)
(* Proofs about AdjtimexHelper: what TIMEX_LIMITS finds and leaves behind, *)
(* and what is known of the clock after any calls of any masters.          *)
(***************************************************************************)
EXTENDS AdjtimexHelper, TLAPS

-----------------------------------------------------------------------------
(* Where master m stands in a call or in a search. *)
Searching(m) ==
    \/ pc[m] \in {"probe", "tried", "restored"}
    \/ pc[m] = "write" /\ ret[m] # "next"

Standing(m) ==
    /\ search[m] # "none" <=> Searching(m)
    /\ search[m] # "none" => back[m] # Nothing
    /\ pc[m] = "write" =>
          /\ got[m] # Nothing
          /\ ret[m] = "next" => call[m] \in HelperCalls /\ call[m].op = "tick_freq"
          /\ ret[m] = "tried" => call[m] = Trial(m)
          /\ ret[m] = "restored" => call[m] = Restoration(m)

(* The kernel takes the value being tried, and has taken it. *)
InReach(m) ==
    IF search[m] \in {"max", "min"}
    THEN MinTick <= probe[m] /\ probe[m] <= MaxTick
    ELSE clamps \/ probe[m] <= MaxFreq

(* Its last value, and not the former one, is in the kernel. *)
Holds(m) ==
    \/ pc[m] = "tried" /\ ok[m]
    \/ pc[m] = "write" /\ ret[m] = "restored"
Took(m) == Holds(m) \/ pc[m] = "restored"

(* No value that would have been taken has been passed. *)
Probing(m) ==
    /\ search[m] \in {"max", "freq", "fine"} /\ pc[m] # "probe" => 0 < probe[m]
    /\ search[m] = "freq" => \E k \in 0 .. TopPpm : probe[m] = k * Ppm
    /\ Took(m) => m \in root /\ InReach(m)
    /\ pc[m] = "tried" /\ ~ok[m] /\ m \in root => ~InReach(m)
    /\ m \in root =>
          /\ search[m] = "max" => MaxTick <= probe[m]
          /\ search[m] = "min" => probe[m] <= MinTick
          /\ search[m] = "freq" =>
                IF clamps THEN probe[m] = TopPpm * Ppm ELSE MaxFreq - Ppm < probe[m]
          /\ search[m] = "fine" =>
                IF clamps THEN probe[m] = (TopPpm + 1) * Ppm ELSE MaxFreq <= probe[m]

IInv == TypeOK /\ LimitsFound /\ \A m \in Masters : Standing(m) /\ Probing(m)

HoldsTick(m) == search[m] \in {"max", "min"} /\ Holds(m)
HoldsFreq(m) == search[m] \in {"freq", "fine"} /\ Holds(m)

Fresh ==
    \A m \in Masters :
        pc[m] = "write" /\ alone[m] => got[m] = [tick |-> timex.tick, freq |-> timex.freq]

TickKept ==
    exact.tick =>
        /\ (\A m \in Masters : ~HoldsTick(m)) => timex.tick = want.tick
        /\ \A m \in Masters :
              /\ search[m] # "none" /\ alone[m]
              /\ \A n \in Masters \ {m} : ~HoldsTick(n)
              => back[m].tick = want.tick

Close(freq) ==
    LET error == PpbPerPpm * freq - Ppm * want.ppb
        bound == want.rounded * PpbPerPpm
    IN  -bound <= 2 * error /\ 2 * error <= bound

FreqKept ==
    exact.freq =>
        /\ (\A m \in Masters : ~HoldsFreq(m)) => Close(timex.freq)
        /\ \A m \in Masters :
              /\ search[m] # "none" /\ alone[m]
              /\ \A n \in Masters \ {m} : ~HoldsFreq(n)
              => Close(back[m].freq)

Seen ==
    \A m \in Masters :
        prev_tx[m] # Unread /\ ~touched[m] => Differences(prev_tx[m], timex) = {}

AllInv == IInv /\ Fresh /\ TickKept /\ FreqKept /\ Seen /\ ClockMovedAsAsked

-----------------------------------------------------------------------------
LEMMA Constants ==
    /\ BootTick \in Nat /\ MinTick \in Nat /\ MaxTick \in Nat
    /\ MaxFreq \in Nat /\ Ppm \in Nat /\ PpbPerPpm \in Nat
    /\ TopPpm \in Nat /\ Second \in Nat /\ MaxJobs \in Nat
    /\ 0 < PpbPerPpm /\ PpbPerPpm < Ppm /\ 0 < TopPpm /\ 0 < Second
    /\ 1 < MinTick /\ MinTick < MaxTick /\ MaxTick < 2 * MinTick
    /\ MinTick <= BootTick /\ BootTick <= MaxTick
    /\ MaxFreq <= TopPpm * Ppm /\ Ppm <= MaxFreq
    /\ Roots \subseteq SUBSET Masters
    /\ Jobs \in [Masters -> SUBSET Seq(HelperCalls)]
<1>1. /\ {BootTick, MinTick, MaxFreq, PpbPerPpm, TopPpm, Second} \subseteq Nat \ {0}
      /\ {MaxTick, Ppm, MaxJobs} \subseteq Nat
  BY HelperAssumption
<1>2. /\ BootTick \in Nat /\ MinTick \in Nat /\ MaxTick \in Nat
      /\ MaxFreq \in Nat /\ Ppm \in Nat /\ PpbPerPpm \in Nat
      /\ TopPpm \in Nat /\ Second \in Nat /\ MaxJobs \in Nat
      /\ PpbPerPpm # 0 /\ TopPpm # 0 /\ Second # 0
  BY <1>1
<1>3. /\ MinTick <= BootTick /\ BootTick <= MaxTick
      /\ MaxTick < 2 * MinTick /\ MinTick < MaxTick /\ 1 < MinTick
      /\ PpbPerPpm < Ppm
      /\ MaxFreq <= TopPpm * Ppm /\ Ppm <= MaxFreq
      /\ Roots \subseteq SUBSET Masters
      /\ Jobs \in [Masters -> SUBSET Seq(HelperCalls)]
  BY HelperAssumption
<1> QED
  BY <1>2, <1>3

(* roundl is within half of what it rounds, and answers n for n * d. *)
LEMMA Rounds ==
    ASSUME NEW n \in Int, NEW d \in Nat, 0 < d
    PROVE  /\ Round(n, d) \in Int
           /\ 2 * (d * Round(n, d) - n) <= d
           /\ -d <= 2 * (d * Round(n, d) - n)
<1> DEFINE a == IF n >= 0 THEN 2 * n + d ELSE d - 2 * n
           q == a \div (2 * d)
<1>1. a \in Int /\ 2 * d \in Nat /\ 0 < 2 * d
  OBVIOUS
<1>2. q \in Int /\ (2 * d) * q <= a /\ a < (2 * d) * q + 2 * d
  <2> HIDE DEF a
  <2> QED BY <1>1
<1>3. Round(n, d) = IF n >= 0 THEN q ELSE -q
  BY DEF Round
<1>4. (2 * d) * q = 2 * (d * q)
  BY <1>2
<1>5. d * (-q) = -(d * q)
  BY <1>2
<1>6. d * q \in Int
  BY <1>2
<1> HIDE DEF q
<1>7. CASE n >= 0
  <2>1. a = 2 * n + d /\ Round(n, d) = q
    BY <1>7, <1>3
  <2> HIDE DEF a
  <2> QED BY <2>1, <1>2, <1>4, <1>6
<1>8. CASE ~(n >= 0)
  <2>1. a = d - 2 * n /\ Round(n, d) = -q
    BY <1>8, <1>3
  <2> HIDE DEF a
  <2> QED BY <2>1, <1>2, <1>4, <1>5, <1>6
<1> QED
  BY <1>7, <1>8

LEMMA Converts ==
    ASSUME NEW f \in Int
    PROVE  ToQ16(f) \in Int /\ ToPpb(f) \in Int
BY Constants, Rounds DEF ToQ16, ToPpb

LEMMA Written ==
    ASSUME NEW p
    PROVE  /\ set_tick(p) = [op |-> "tick_freq", us |-> p, adj_tick |-> FALSE,
                             q16 |-> 0, adj_freq |-> TRUE, ppb |-> 0, ns |-> 0]
           /\ SetQ16(p) = [op |-> "tick_freq", us |-> 0, adj_tick |-> TRUE,
                           q16 |-> p, adj_freq |-> FALSE, ppb |-> 0, ns |-> 0]
BY DEF set_tick, SetQ16, TickFreq

LEMMA CallsTyped ==
    ASSUME NEW p \in Int
    PROVE  set_tick(p) \in Calls /\ SetQ16(p) \in Calls
<1>1. set_tick(p) \in Calls
  BY DEF set_tick, SetQ16, TickFreq, Calls
<1>2. SetQ16(p) \in Calls
  BY DEF set_tick, SetQ16, TickFreq, Calls
<1> QED
  BY <1>1, <1>2

-----------------------------------------------------------------------------
(* A step of one master leaves the others where they stand. *)
Untouched(n) ==
    /\ pc'[n] = pc[n] /\ call'[n] = call[n] /\ ret'[n] = ret[n]
    /\ got'[n] = got[n] /\ ok'[n] = ok[n] /\ search'[n] = search[n]
    /\ probe'[n] = probe[n] /\ back'[n] = back[n]

LEMMA OthersStand ==
    ASSUME NEW n, Untouched(n), UNCHANGED <<clamps, root>>,
           Standing(n), Probing(n)
    PROVE  Standing(n)' /\ Probing(n)'
<1>1. Standing(n)'
  BY DEF Untouched, Standing, Searching, Trial, Restoration
<1>2. Probing(n)'
  BY DEF Untouched, Probing, Took, Holds, InReach
<1> QED
  BY <1>1, <1>2

LEMMA InvInit == Init => IInv
<1> SUFFICES ASSUME Init PROVE IInv
  OBVIOUS
<1> USE Constants DEF Init
<1>1. timex \in Timexes
  BY DEF Timexes
<1>2. NoCall \in Calls
  BY DEF NoCall, Calls
<1>3. Nothing \in Readings
  BY DEF Readings
<1>4. TypeOK
  <2>1. /\ moved \in Int /\ asked \in Int /\ clamps \in BOOLEAN /\ root \in Roots
        /\ jobs \in 0 .. MaxJobs
    OBVIOUS
  <2>2. /\ pc \in [Masters -> {"idle", "next", "write", "set_offset",
                           "offset", "status", "limits", "snapshot", "watch",
                           "probe", "tried", "restored"}]
        /\ todo \in [Masters -> Seq(HelperCalls)]
        /\ call \in [Masters -> Calls]
        /\ ret \in [Masters -> {"next", "tried", "restored"}]
        /\ got \in [Masters -> Readings]
        /\ ok \in [Masters -> BOOLEAN]
    BY <1>2, <1>3
  <2>3. /\ search \in [Masters -> Searches \cup {"none", "fine"}]
        /\ probe \in [Masters -> Nat]
        /\ back \in [Masters -> Readings]
        /\ change \in [Masters -> SUBSET {"status", "freq", "offset", "tick"}]
        /\ alone \in [Masters -> BOOLEAN] /\ touched \in [Masters -> BOOLEAN]
    BY <1>3
  <2>4. limits \in [Masters -> [Searches -> Int]]
    <3>1. [s \in Searches |-> 0] \in [Searches -> Int]
      OBVIOUS
    <3>2. limits = [m \in Masters |-> [s \in Searches |-> 0]]
      BY Zenon
    <3> HIDE DEF Init
    <3> QED
      BY <3>1, <3>2
  <2>5. prev_tx \in [Masters -> Timexes \cup {Unread}]
    <3>1. prev_tx = [m \in Masters |-> Unread]
      BY Zenon
    <3> HIDE DEF Init
    <3> QED
      BY <3>1
  <2>6. /\ want \in [tick : Int, ppb : Int, rounded : Nat]
        /\ exact \in [tick : BOOLEAN, freq : BOOLEAN]
    <3>1. BootTick \in Int /\ 0 \in Int /\ 0 \in Nat
      OBVIOUS
    <3> QED
      BY <3>1
  <2> QED
    BY <1>1, <2>1, <2>2, <2>3, <2>4, <2>5, <2>6 DEF TypeOK
<1>5. LimitsFound
  BY DEF LimitsFound, Searches
<1>6. ASSUME NEW m \in Masters PROVE Standing(m) /\ Probing(m)
  BY DEF Standing, Probing, Searching, Took, Holds
<1> QED
  BY <1>4, <1>5, <1>6 DEF IInv

(* What a read finds is a tick and a frequency of the kernel's. *)
LEMMA Reads ==
    ASSUME TypeOK
    PROVE  LET r == [tick |-> timex.tick, freq |-> timex.freq]
           IN  r \in Readings /\ r # Nothing
BY Constants DEF TypeOK, Timexes, Readings, Nothing

PCs == {"idle", "next", "write", "set_offset", "offset", "status", "limits",
        "snapshot", "watch", "probe", "tried", "restored"}

LEMMA InvRun ==
    ASSUME IInv, NEW m \in Masters, Run(m)
    PROVE  IInv'
<1> USE DEF IInv, Run
<1>1. TypeOK'
  <2>1. todo' \in [Masters -> Seq(HelperCalls)]
    <3>1. PICK j \in Jobs[m] : todo' = [todo EXCEPT ![m] = j]
      OBVIOUS
    <3>2. j \in Seq(HelperCalls)
      BY Constants
    <3> QED
      BY <3>1, <3>2 DEF TypeOK
  <2>2. pc' \in [Masters -> PCs]
    BY DEF TypeOK, PCs
  <2>3. jobs' \in 0 .. MaxJobs
    BY Constants DEF TypeOK
  <2>4. UNCHANGED <<kernel, settings, probing, snapshots, ghosts>>
    OBVIOUS
  <2> QED
    BY <2>1, <2>2, <2>3, <2>4
       DEF TypeOK, PCs, kernel, settings, probing, snapshots, ghosts
<1>2. LimitsFound'
  BY DEF LimitsFound, kernel, probing
<1>3. ASSUME NEW n \in Masters PROVE Standing(n)' /\ Probing(n)'
  <2>1. CASE n = m
    BY <2>1 DEF TypeOK, kernel, settings, probing, Standing, Probing,
                Searching, Took, Holds, InReach
  <2>2. CASE n # m
    BY <2>2, OthersStand DEF TypeOK, kernel, settings, probing, Untouched
  <2> QED
    BY <2>1, <2>2
<1> QED
  BY <1>1, <1>2, <1>3

LEMMA HeadAndTail ==
    ASSUME NEW S, NEW q \in Seq(S), q # <<>>
    PROVE  Head(q) \in S /\ Tail(q) \in Seq(S)
OBVIOUS

LEMMA InvDispatch ==
    ASSUME IInv, NEW m \in Masters, Dispatch(m)
    PROVE  IInv'
<1> DEFINE c == Head(todo[m])
<1>0. c \in HelperCalls /\ Tail(todo[m]) \in Seq(HelperCalls)
  BY HeadAndTail DEF IInv, TypeOK, Dispatch
<1>a. c \in Calls /\ (c.op = "tick_freq" => c.q16 = ToQ16(c.ppb))
  BY <1>0 DEF HelperCalls
<1>b. c.op \in {"tick_freq", "set_offset", "offset", "status", "limits",
                "snapshot", "watch"}
  BY <1>a DEF Calls
<1>c. /\ pc[m] = "next" /\ todo[m] # <<>>
      /\ todo' = IF c.op = "watch" THEN todo ELSE [todo EXCEPT ![m] = Tail(@)]
      /\ call' = [call EXCEPT ![m] = c]
      /\ ret' = IF c.op = "tick_freq" THEN [ret EXCEPT ![m] = "next"] ELSE ret
      /\ got' = IF c.op = "tick_freq"
                THEN [got EXCEPT ![m] = [tick |-> timex.tick, freq |-> timex.freq]]
                ELSE got
      /\ pc' = [pc EXCEPT ![m] = IF c.op = "tick_freq" THEN "write" ELSE c.op]
      /\ alone' = [alone EXCEPT ![m] = TRUE]
      /\ UNCHANGED <<kernel, ok, probing, snapshots, jobs, want, exact, asked, touched>>
  BY DEF Dispatch, Request
<1> HIDE DEF c
<1> USE DEF IInv
<1>1. TypeOK'
  <2>1. todo' \in [Masters -> Seq(HelperCalls)]
    BY <1>0, <1>c DEF TypeOK
  <2>2. /\ pc' \in [Masters -> PCs]
        /\ call' \in [Masters -> Calls]
        /\ ret' \in [Masters -> {"next", "tried", "restored"}]
    BY <1>a, <1>b, <1>c DEF TypeOK, PCs
  <2>3. got' \in [Masters -> Readings]
    BY <1>c, Reads DEF TypeOK
  <2>4. alone' \in [Masters -> BOOLEAN]
    BY <1>c DEF TypeOK
  <2> QED
    BY <2>1, <2>2, <2>3, <2>4, <1>c DEF TypeOK, PCs, kernel, probing, snapshots
<1>2. LimitsFound'
  BY <1>c DEF LimitsFound, kernel, probing
<1>3. ASSUME NEW n \in Masters PROVE Standing(n)' /\ Probing(n)'
  <2>1. CASE n = m
    <3>1. search[m] = "none"
      BY <1>c DEF Standing, Searching
    <3>2. UNCHANGED <<root, clamps, probing>>
      BY <1>c DEF kernel
    <3>3. /\ pc'[m] = IF c.op = "tick_freq" THEN "write" ELSE c.op
          /\ call'[m] = c
          /\ c.op = "tick_freq" => ret'[m] = "next"
          /\ c.op = "tick_freq" => got'[m] = [tick |-> timex.tick, freq |-> timex.freq]
      BY <1>c DEF TypeOK
    <3>4. Standing(m)'
      BY <3>1, <3>2, <3>3, <1>0, <1>b, Reads DEF probing, Standing, Searching
    <3>5. Probing(m)'
      BY <3>1, <3>2, <3>3, <1>b DEF probing, Probing, Took, Holds
    <3> QED
      BY <2>1, <3>4, <3>5
  <2>2. CASE n # m
    <3>1. Untouched(n) /\ UNCHANGED <<clamps, root>>
      BY <2>2, <1>c DEF TypeOK, kernel, probing, Untouched
    <3> QED
      BY <3>1, OthersStand
  <2> QED
    BY <2>1, <2>2
<1> QED
  BY <1>1, <1>2, <1>3

LEMMA InvDone ==
    ASSUME IInv, NEW m \in Masters, Done(m)
    PROVE  IInv'
<1> USE DEF IInv, Done
<1>1. TypeOK'
  <2>1. NoCall \in Calls /\ Nothing \in Readings
    BY DEF NoCall, Calls, Readings
  <2>2. /\ pc' \in [Masters -> PCs] /\ call' \in [Masters -> Calls]
        /\ got' \in [Masters -> Readings] /\ back' \in [Masters -> Readings]
        /\ ok' \in [Masters -> BOOLEAN]
    BY <2>1 DEF TypeOK, PCs
  <2>3. UNCHANGED <<kernel, todo, ret, search, probe, limits, snapshots, jobs, ghosts>>
    OBVIOUS
  <2> QED
    BY <2>2, <2>3 DEF TypeOK, PCs, kernel, snapshots, ghosts
<1>2. LimitsFound'
  BY DEF LimitsFound, kernel
<1>3. ASSUME NEW n \in Masters PROVE Standing(n)' /\ Probing(n)'
  <2>1. CASE n = m
    BY <2>1 DEF TypeOK, kernel, Standing, Probing, Searching, Took, Holds
  <2>2. CASE n # m
    BY <2>2, OthersStand DEF TypeOK, kernel, Untouched
  <2> QED
    BY <2>1, <2>2
<1> QED
  BY <1>1, <1>2, <1>3

(* What a call in progress would set. *)
LEMMA Settings ==
    ASSUME IInv, NEW m \in Masters, pc[m] = "write"
    PROVE  /\ NewTick(m) \in Int /\ NewFreq(m) \in Int
           /\ got[m].tick \in MinTick .. MaxTick /\ got[m].freq \in -MaxFreq .. MaxFreq
           /\ ret[m] \in {"next", "tried", "restored"}
           /\ ret[m] # "next" =>
                 LET tick == search[m] \in {"max", "min"}
                     p == IF ret[m] = "tried" THEN probe[m]
                          ELSE IF tick THEN back[m].tick ELSE back[m].freq
                 IN  /\ search[m] # "none"
                     /\ back[m].tick \in MinTick .. MaxTick
                     /\ back[m].freq \in -MaxFreq .. MaxFreq
                     /\ NewTick(m) = IF tick THEN p ELSE got[m].tick
                     /\ NewFreq(m) = IF tick THEN got[m].freq ELSE p
<1> USE DEF IInv
<1>1. /\ got[m].tick \in MinTick .. MaxTick /\ got[m].freq \in -MaxFreq .. MaxFreq
      /\ ret[m] \in {"next", "tried", "restored"}
      /\ call[m] \in Calls
      /\ probe[m] \in Nat
  BY DEF TypeOK, Readings, Standing
<1>2. got[m].tick \in Int /\ got[m].freq \in Int
  BY <1>1, Constants
<1>3. /\ call[m].us \in Int /\ call[m].q16 \in Int
      /\ call[m].adj_tick \in BOOLEAN /\ call[m].adj_freq \in BOOLEAN
  BY <1>1 DEF Calls
<1>4. NewTick(m) \in Int /\ NewFreq(m) \in Int
  BY <1>2, <1>3 DEF NewTick, NewFreq
<1>5. ASSUME ret[m] # "next"
      PROVE  /\ search[m] # "none"
             /\ back[m].tick \in MinTick .. MaxTick
             /\ back[m].freq \in -MaxFreq .. MaxFreq
  BY <1>5 DEF Standing, Searching, TypeOK, Readings
<1>6. CASE ret[m] = "next"
  BY <1>1, <1>4, <1>6
<1>7. CASE ret[m] # "next"
  <2> DEFINE tick == search[m] \in {"max", "min"}
             p == IF ret[m] = "tried" THEN probe[m]
                  ELSE IF tick THEN back[m].tick ELSE back[m].freq
  <2>1. call[m] = IF tick THEN set_tick(p) ELSE SetQ16(p)
    BY <1>1, <1>7 DEF Standing, Trial, Restoration
  <2>2. p \in Int
    BY <1>1, <1>5, <1>7, Constants
  <2>3. NewTick(m) = IF tick THEN p ELSE got[m].tick
    <3>1. CASE tick
      BY <3>1, <2>1, <2>2, Written DEF NewTick
    <3>2. CASE ~tick
      BY <3>2, <2>1, <2>2, <1>2, Written DEF NewTick
    <3> QED BY <3>1, <3>2
  <2>4. NewFreq(m) = IF tick THEN got[m].freq ELSE p
    <3>1. CASE tick
      BY <3>1, <2>1, <2>2, <1>2, Written DEF NewFreq
    <3>2. CASE ~tick
      BY <3>2, <2>1, <2>2, Written DEF NewFreq
    <3> QED BY <3>1, <3>2
  <2> QED
    BY <1>1, <1>4, <1>5, <1>7, <2>3, <2>4
<1> QED
  BY <1>6, <1>7

(* A restoration is always accepted: a master that searches is obeyed. *)
LEMMA RestorationAccepted ==
    ASSUME IInv, NEW m \in Masters, pc[m] = "write", ret[m] = "restored"
    PROVE  /\ Accepts(m)
           /\ Clamped(NewFreq(m)) = NewFreq(m)
<1>1. m \in root
  BY DEF IInv, Probing, Took, Holds
<1>2. /\ MinTick <= NewTick(m) /\ NewTick(m) <= MaxTick
      /\ -MaxFreq <= NewFreq(m) /\ NewFreq(m) <= MaxFreq
      /\ NewFreq(m) \in Int
  BY Settings
<1> QED
  BY <1>1, <1>2, Constants DEF Accepts, InRange, Clamped

(* A write, accepted or refused, as its effects on the variables. *)
LEMMA Writes ==
    ASSUME IInv, NEW m \in Masters, Write(m)
    PROVE  /\ pc[m] = "write"
           /\ ok' = [ok EXCEPT ![m] = Accepts(m)]
           /\ Accepts(m) \in BOOLEAN
           /\ pc' = [pc EXCEPT ![m] = ret[m]]
           /\ UNCHANGED <<moved, clamps, root, todo, call, ret, got, search, probe,
                          limits, back, prev_tx, change, jobs, asked>>
BY Zenon DEF Write, Accepts, InRange, probing, snapshots

LEMMA TypeWrite ==
    ASSUME TypeOK, IInv, NEW m \in Masters, Write(m)
    PROVE  TypeOK'
<1> USE DEF TypeOK
<1>1. pc' \in [Masters -> PCs] /\ ok' \in [Masters -> BOOLEAN]
  <2>1. ret[m] \in PCs
    BY DEF PCs
  <2>2. ASSUME NEW b \in BOOLEAN PROVE [ok EXCEPT ![m] = b] \in [Masters -> BOOLEAN]
    OBVIOUS
  <2>3. /\ ok' = [ok EXCEPT ![m] = Accepts(m)] /\ Accepts(m) \in BOOLEAN
        /\ pc' = [pc EXCEPT ![m] = ret[m]]
    BY Writes, Zenon
  <2>4. ok' \in [Masters -> BOOLEAN]
    BY <2>2, <2>3, Zenon
  <2>5. pc' \in [Masters -> PCs]
    BY <2>1, <2>3 DEF PCs
  <2> QED
    BY <2>4, <2>5
<1>2. CASE Accepts(m)
  <2>1. timex' \in Timexes
    <3>1. timex' = [timex EXCEPT !.tick = NewTick(m), !.freq = Clamped(NewFreq(m))]
      BY <1>2 DEF Write
    <3>2. NewTick(m) \in MinTick .. MaxTick
      BY <1>2, Settings, Writes, Constants DEF Accepts
    <3>3. Clamped(NewFreq(m)) \in -MaxFreq .. MaxFreq
      BY Settings, Writes, Constants DEF Clamped
    <3> QED
      BY <3>1, <3>2, <3>3 DEF Timexes
  <2>2. want' \in [tick : Int, ppb : Int, rounded : Nat]
    <3>1. call[m] \in Calls /\ call[m].us \in Int /\ call[m].ppb \in Int
      BY DEF Calls
    <3>2. want.tick \in Int /\ want.ppb \in Int /\ want.rounded \in Nat
      OBVIOUS
    <3> DEFINE t == call[m].us + IF call[m].adj_tick THEN want.tick ELSE 0
               f == call[m].ppb + IF call[m].adj_freq THEN want.ppb ELSE 0
               r == (IF call[m].adj_freq THEN want.rounded ELSE 0)
                      + IF call[m].ppb = 0 THEN 0 ELSE 1
    <3>3. t \in Int /\ f \in Int /\ r \in Nat
      BY <3>1, <3>2
    <3>4. want' = want \/ want' = [tick |-> t, ppb |-> f, rounded |-> r]
      BY <1>2, Zenon DEF Write, Account
    <3> HIDE DEF t, f, r
    <3> QED
      BY <3>3, <3>4
  <2>3. exact' \in [tick : BOOLEAN, freq : BOOLEAN]
    <3> DEFINE c == call[m]
               user == ret[m] = "next"
               tick == IF user /\ ~c.adj_tick THEN TRUE ELSE exact.tick /\ alone[m]
               freq == IF user /\ ~c.adj_freq THEN InRange(NewFreq(m))
                       ELSE exact.freq /\ alone[m] /\ (user => InRange(NewFreq(m)))
    <3>1. exact.tick \in BOOLEAN /\ exact.freq \in BOOLEAN /\ alone[m] \in BOOLEAN
      OBVIOUS
    <3>2. tick \in BOOLEAN /\ freq \in BOOLEAN
      BY <3>1, Zenon DEF InRange
    <3>3. exact' = [tick |-> tick, freq |-> freq]
      BY <1>2, Zenon DEF Write, Account
    <3> HIDE DEF tick, freq
    <3> QED
      BY <3>2, <3>3
  <2>4. alone' \in [Masters -> BOOLEAN]
    <3>1. alone' = [n \in Masters |-> (n = m /\ alone[n]) \/ pc[n] = "idle"]
      BY <1>2, Zenon DEF Write, Account
    <3>2. ASSUME NEW n \in Masters
          PROVE  ((n = m /\ alone[n]) \/ pc[n] = "idle") \in BOOLEAN
      BY Zenon
    <3> QED
      BY <3>1, <3>2, Zenon
  <2>5. touched' \in [Masters -> BOOLEAN]
    <3>1. touched' = [n \in Masters |-> touched[n] \/ Differences(timex, timex') # {}]
      BY <1>2, Zenon DEF Write, Touch
    <3>2. ASSUME NEW n \in Masters
          PROVE  (touched[n] \/ Differences(timex, timex') # {}) \in BOOLEAN
      BY Zenon
    <3> QED
      BY <3>1, <3>2, Zenon
  <2> QED
    BY <1>1, <2>1, <2>2, <2>3, <2>4, <2>5, Writes DEF PCs
<1>3. CASE ~Accepts(m)
  <2>1. UNCHANGED <<timex, want, exact, alone, touched>>
    BY <1>3 DEF Write
  <2> QED
    BY <1>1, <2>1, Writes DEF PCs
<1> QED
  BY <1>2, <1>3

LEMMA InvWrite ==
    ASSUME IInv, NEW m \in Masters, Write(m)
    PROVE  IInv'
<1>1. TypeOK'
  BY TypeWrite DEF IInv
<1>2. LimitsFound'
  BY Writes DEF IInv, LimitsFound
<1>3. ASSUME NEW n \in Masters PROVE Standing(n)' /\ Probing(n)'
  <2>0. TypeOK /\ Standing(n) /\ Probing(n)
    BY DEF IInv
  <2>1. CASE n = m
    <3>1. /\ pc[m] = "write" /\ pc'[m] = ret[m]
          /\ ok'[m] = Accepts(m)
          /\ ret[m] \in {"next", "tried", "restored"}
          /\ UNCHANGED <<clamps, root, call, ret, got, search, probe, back>>
      BY Writes, <2>0 DEF TypeOK
    <3>2. Standing(m)'
      BY <2>0, <2>1, <3>1 DEF Standing, Searching
    <3>3. ASSUME ret[m] = "tried"
          PROVE  Accepts(m) <=> m \in root /\ InReach(m)
      <4>1. /\ probe[m] \in Nat
            /\ got[m].tick \in MinTick .. MaxTick
            /\ got[m].freq \in -MaxFreq .. MaxFreq
        BY <2>0, <3>1, Settings DEF TypeOK
      <4>2. CASE search[m] \in {"max", "min"}
        <5>1. NewTick(m) = probe[m] /\ NewFreq(m) = got[m].freq
          BY <4>2, <3>1, <3>3, Settings
        <5>2. InRange(NewFreq(m))
          BY <4>1, <5>1, Constants DEF InRange
        <5>3. InReach(m) <=> MinTick <= NewTick(m) /\ NewTick(m) <= MaxTick
          BY <4>2, <5>1 DEF InReach
        <5> QED
          BY <5>2, <5>3 DEF Accepts
      <4>3. CASE search[m] \notin {"max", "min"}
        <5>1. NewTick(m) = got[m].tick /\ NewFreq(m) = probe[m]
          BY <4>3, <3>1, <3>3, Settings
        <5>2. MinTick <= NewTick(m) /\ NewTick(m) <= MaxTick
          BY <4>1, <5>1, Constants
        <5>3. InRange(NewFreq(m)) <=> probe[m] <= MaxFreq
          BY <4>1, <5>1, Constants DEF InRange
        <5>4. InReach(m) <=> clamps \/ probe[m] <= MaxFreq
          BY <4>3 DEF InReach
        <5> QED
          BY <5>2, <5>3, <5>4 DEF Accepts
      <4> QED
        BY <4>2, <4>3
    <3>4. InReach(m)' <=> InReach(m)
      BY <3>1 DEF InReach
    <3>5. Took(m)' => m \in root' /\ InReach(m)'
      BY <2>0, <2>1, <3>1, <3>3, <3>4 DEF Probing, Took, Holds
    <3>6. pc'[m] = "tried" /\ ~ok'[m] /\ m \in root' => ~InReach(m)'
      BY <3>1, <3>3, <3>4
    <3> QED
      BY <2>0, <2>1, <3>1, <3>2, <3>5, <3>6 DEF Probing
  <2>2. CASE n # m
    <3>1. Untouched(n) /\ UNCHANGED <<clamps, root>>
      BY <2>0, <2>2, Writes DEF TypeOK, Untouched
    <3> QED
      BY <2>0, <3>1, OthersStand
  <2> QED
    BY <2>1, <2>2
<1> QED
  BY <1>1, <1>2, <1>3 DEF IInv

LEMMA Updated ==
    ASSUME NEW S, NEW f \in [Masters -> S], NEW m \in Masters, NEW v \in S
    PROVE  /\ [f EXCEPT ![m] = v] \in [Masters -> S]
           /\ [f EXCEPT ![m] = v][m] = v
           /\ \A n \in Masters \ {m} : [f EXCEPT ![m] = v][n] = f[n]
OBVIOUS

LEMMA TimexSet ==
    ASSUME NEW t \in Timexes, NEW o \in Int
    PROVE  /\ [t EXCEPT !.offset = o] \in Timexes
           /\ [t EXCEPT !.status = {"PPSFREQ", "PPSTIME"}] \in Timexes
BY DEF Timexes

(* A step outside the searches and outside _adjtimex_tick_freq. *)
LEMMA OutsideSearch ==
    ASSUME IInv, NEW m \in Masters,
           UNCHANGED <<clamps, root, call, ret, got, search, probe, limits, back>>,
           \A n \in Masters \ {m} : pc'[n] = pc[n] /\ ok'[n] = ok[n],
           pc[m] \in {"set_offset", "offset", "status", "snapshot", "watch"},
           pc'[m] \in {"next", "snapshot", "watch"}
    PROVE  LimitsFound' /\ \A n \in Masters : Standing(n)' /\ Probing(n)'
<1>1. LimitsFound'
  BY DEF IInv, LimitsFound
<1>2. ASSUME NEW n \in Masters PROVE Standing(n)' /\ Probing(n)'
  <2>1. CASE n = m
    BY <2>1 DEF IInv, Standing, Probing, Searching, Took, Holds
  <2>2. CASE n # m
    BY <2>2, OthersStand DEF IInv, Untouched
  <2> QED
    BY <2>1, <2>2
<1> QED
  BY <1>1, <1>2

(* The bookkeeping of changes is a flag for each master. *)
LEMMA TouchTyped ==
    ASSUME NEW t, NEW u, Touch(t, u)
    PROVE  touched' \in [Masters -> BOOLEAN]
<1>1. ASSUME NEW n \in Masters
      PROVE  (touched[n] \/ Differences(t, u) # {}) \in BOOLEAN
  BY Zenon
<1> QED
  BY <1>1, Zenon DEF Touch

LEMMA InvSetOffset ==
    ASSUME IInv, NEW m \in Masters, SetOffset(m)
    PROVE  IInv'
<1> DEFINE ns == call[m].ns
           t == Normal(ns)
           taken == m \in root /\ 0 <= t.nsec /\ t.nsec < Second
<1>1. /\ pc[m] = "set_offset"
      /\ ok' = [ok EXCEPT ![m] = taken] /\ taken \in BOOLEAN
      /\ pc' = [pc EXCEPT ![m] = "next"]
      /\ UNCHANGED <<timex, clamps, root, todo, call, ret, got, search, probe, limits,
                     back, prev_tx, change, jobs, want, exact, alone, touched>>
  BY Zenon DEF SetOffset, probing, snapshots
<1>2. /\ moved' \in {moved, moved + t.sec * Second + t.nsec}
      /\ asked' \in {asked, asked + ns}
  BY DEF SetOffset
<1>3. TypeOK /\ ns \in Int /\ Second \in Nat /\ 0 < Second
  BY Constants DEF IInv, TypeOK, Calls
<1>4. t.sec \in Int /\ t.nsec \in Int
  BY <1>3 DEF Normal
<1>5. moved' \in Int /\ asked' \in Int
  <2> HIDE DEF t, ns
  <2> QED
    BY <1>2, <1>3, <1>4 DEF TypeOK
<1>6. ok' \in [Masters -> BOOLEAN]
  <2>1. ASSUME NEW b \in BOOLEAN PROVE [ok EXCEPT ![m] = b] \in [Masters -> BOOLEAN]
    BY <1>3 DEF TypeOK
  <2> QED
    BY <1>1, <2>1, Zenon
<1>7. pc' \in [Masters -> PCs] /\ pc'[m] = "next"
      /\ \A n \in Masters \ {m} : pc'[n] = pc[n] /\ ok'[n] = ok[n]
  <2> HIDE DEF taken
  <2> QED
    BY <1>1, <1>3 DEF TypeOK, PCs
<1>8. TypeOK'
  BY <1>1, <1>3, <1>5, <1>6, <1>7 DEF TypeOK, PCs
<1> QED
  BY <1>1, <1>7, <1>8, OutsideSearch DEF IInv

LEMMA InvSetTimex ==
    ASSUME IInv, NEW m \in Masters, SetTimex(m)
    PROVE  IInv'
<1>1. /\ pc[m] \in {"offset", "status"}
      /\ ok' = [ok EXCEPT ![m] = m \in root]
      /\ pc' = [pc EXCEPT ![m] = "next"]
      /\ Touch(timex, timex')
      /\ UNCHANGED <<moved, clamps, root, todo, call, ret, got, search, probe, limits,
                     back, prev_tx, change, jobs, want, exact, alone, asked>>
  BY DEF SetTimex, probing, snapshots
<1>2. TypeOK /\ call[m].ns \in Int /\ Second \in Nat
  BY Constants DEF IInv, TypeOK, Calls
<1>3. timex' \in Timexes
  <2> DEFINE half == Second \div 2
             ns == call[m].ns
             o == IF ns > half THEN half ELSE IF ns < -half THEN -half ELSE ns
  <2>1. o \in Int
    BY <1>2
  <2>2. \/ timex' = timex
        \/ timex' = [timex EXCEPT !.offset = o]
        \/ timex' = [timex EXCEPT !.status = {"PPSFREQ", "PPSTIME"}]
    BY DEF SetTimex
  <2> HIDE DEF o
  <2>3. timex \in Timexes
    BY <1>2 DEF TypeOK
  <2> QED
    BY <2>1, <2>2, <2>3, TimexSet
<1>4. ok' \in [Masters -> BOOLEAN]
  <2>1. ok \in [Masters -> BOOLEAN] /\ (m \in root) \in BOOLEAN
    BY <1>2 DEF TypeOK
  <2>2. ok' = [ok EXCEPT ![m] = m \in root]
    BY <1>1
  <2> QED
    BY <2>1, <2>2, Updated, Zenon
<1>5. pc' \in [Masters -> PCs] /\ pc'[m] = "next"
      /\ \A n \in Masters \ {m} : pc'[n] = pc[n] /\ ok'[n] = ok[n]
  BY <1>1, <1>2 DEF TypeOK, PCs
<1>6. touched' \in [Masters -> BOOLEAN]
  BY <1>1, TouchTyped
<1>7. TypeOK'
  BY <1>1, <1>2, <1>3, <1>4, <1>5, <1>6 DEF TypeOK, PCs
<1> QED
  BY <1>1, <1>5, <1>7, OutsideSearch DEF IInv

LEMMA InvSnapshots ==
    ASSUME IInv, NEW m \in Masters, FirstSnapshot(m) \/ Snapshot(m)
    PROVE  IInv'
<1>1. /\ pc[m] \in {"snapshot", "watch"}
      /\ touched' = [touched EXCEPT ![m] = FALSE]
      /\ pc' = pc \/ pc' = [pc EXCEPT ![m] = "next"]
      /\ prev_tx' = prev_tx \/ prev_tx' = [prev_tx EXCEPT ![m] = timex]
      /\ \/ change' = change
         \/ change' = [change EXCEPT ![m] = Differences(prev_tx[m], timex)]
      /\ UNCHANGED <<timex, moved, clamps, root, todo, call, ret, got, ok, search,
                     probe, limits, back, jobs, want, exact, alone, asked>>
  BY DEF FirstSnapshot, Snapshot, kernel, settings, probing
<1>2. TypeOK
  BY DEF IInv
<1>3. pc' \in [Masters -> PCs] /\ pc'[m] \in {"next", "snapshot", "watch"}
      /\ \A n \in Masters \ {m} : pc'[n] = pc[n] /\ ok'[n] = ok[n]
  <2>1. pc \in [Masters -> PCs] /\ "next" \in PCs
    BY <1>2 DEF TypeOK, PCs
  <2>2. CASE pc' = pc
    BY <1>1, <2>1, <2>2
  <2>3. CASE pc' = [pc EXCEPT ![m] = "next"]
    BY <1>1, <2>1, <2>3
  <2> QED
    BY <1>1, <2>2, <2>3
<1>4. /\ touched' \in [Masters -> BOOLEAN]
      /\ prev_tx' \in [Masters -> Timexes \cup {Unread}]
  <2>1. /\ touched \in [Masters -> BOOLEAN]
        /\ prev_tx \in [Masters -> Timexes \cup {Unread}]
        /\ timex \in Timexes \cup {Unread}
    BY <1>2 DEF TypeOK
  <2>2. touched' \in [Masters -> BOOLEAN]
    <3>1. touched' = [touched EXCEPT ![m] = FALSE]
      BY <1>1
    <3>2. touched \in [Masters -> BOOLEAN] /\ FALSE \in BOOLEAN
      BY <2>1
    <3> QED
      BY <3>1, <3>2
  <2>3. prev_tx' \in [Masters -> Timexes \cup {Unread}]
    <3>1. prev_tx' = prev_tx \/ prev_tx' = [prev_tx EXCEPT ![m] = timex]
      BY <1>1
    <3> QED
      BY <2>1, <3>1, Updated, Zenon
  <2> QED
    BY <2>2, <2>3
<1>5. change' \in [Masters -> SUBSET {"status", "freq", "offset", "tick"}]
  <2>1. Differences(prev_tx[m], timex) \subseteq {"status", "freq", "offset", "tick"}
    BY DEF Differences
  <2>2. change \in [Masters -> SUBSET {"status", "freq", "offset", "tick"}]
    BY <1>2 DEF TypeOK
  <2>3. Differences(prev_tx[m], timex) \in SUBSET {"status", "freq", "offset", "tick"}
    BY <2>1
  <2>4. \/ change' = change
        \/ change' = [change EXCEPT ![m] = Differences(prev_tx[m], timex)]
    BY <1>1
  <2> QED
    BY <2>2, <2>3, <2>4, Updated, Zenon
<1>6. TypeOK'
  BY <1>1, <1>2, <1>3, <1>4, <1>5 DEF TypeOK, PCs
<1> QED
  BY <1>1, <1>3, <1>6, OutsideSearch DEF IInv

(* The next search begins with a value beyond the kernel's limit. *)
LEMMA Enters ==
    ASSUME IInv, NEW m \in Masters, NEW s \in SUBSET Searches, NEW lim,
           NEW b \in Readings, b # Nothing, back'[m] = b,
           Enter(m, s, lim, b, 0), UNCHANGED <<clamps, root>>
    PROVE  /\ pc' \in [Masters -> PCs]
           /\ search' \in [Masters -> Searches \cup {"none", "fine"}]
           /\ probe' \in [Masters -> Nat]
           /\ \A n \in Masters \ {m} :
                 pc'[n] = pc[n] /\ search'[n] = search[n] /\ probe'[n] = probe[n]
           /\ Standing(m)' /\ Probing(m)'
<1>1. /\ pc \in [Masters -> PCs]
      /\ search \in [Masters -> Searches \cup {"none", "fine"}]
      /\ probe \in [Masters -> Nat]
  BY DEF IInv, TypeOK, PCs
<1>2. b.tick \in Nat /\ MinTick <= b.tick
  BY Constants DEF Readings
<1>3. TopPpm * Ppm \in Nat
  BY Constants
<1>4. PICK first \in {"max", "min", "freq", "none"} :
         /\ search' = [search EXCEPT ![m] = first]
         /\ probe' = [probe EXCEPT ![m] =
                        CASE first = "max"  -> 2 * b.tick
                          [] first = "min"  -> 1
                          [] first = "freq" -> TopPpm * Ppm
                          [] first = "none" -> 0]
         /\ pc' = [pc EXCEPT ![m] = IF first = "none" THEN "next" ELSE "probe"]
  BY Zenon DEF Enter
<1>5. PICK p \in Nat :
         /\ probe' = [probe EXCEPT ![m] = p]
         /\ first = "max" => p = 2 * b.tick
         /\ first = "min" => p = 1
         /\ first = "freq" => p = TopPpm * Ppm
  <2>1. CASE first = "max"
    <3>1. 2 * b.tick \in Nat
      BY <1>2
    <3>2. probe' = [probe EXCEPT ![m] = 2 * b.tick]
      BY <1>4, <2>1
    <3> QED
      BY <2>1, <3>1, <3>2
  <2>2. CASE first = "min"
    BY <1>4, <2>2
  <2>3. CASE first = "freq"
    BY <1>3, <1>4, <2>3
  <2>4. CASE first = "none"
    BY <1>4, <2>4
  <2> QED
    BY <1>4, <2>1, <2>2, <2>3, <2>4
<1>6. /\ pc' \in [Masters -> PCs]
      /\ pc'[m] = IF first = "none" THEN "next" ELSE "probe"
      /\ \A n \in Masters \ {m} : pc'[n] = pc[n]
  BY <1>1, <1>4 DEF PCs
<1>7. /\ search' \in [Masters -> Searches \cup {"none", "fine"}]
      /\ search'[m] = first
      /\ \A n \in Masters \ {m} : search'[n] = search[n]
  BY <1>1, <1>4 DEF Searches
<1>8. /\ probe' \in [Masters -> Nat] /\ probe'[m] = p
      /\ \A n \in Masters \ {m} : probe'[n] = probe[n]
  BY <1>1, <1>5
<1>9. Standing(m)'
  BY <1>6, <1>7 DEF Standing, Searching
<1>10. Probing(m)'
  <2>1. /\ p = 2 * b.tick => MaxTick <= p
        /\ 1 <= MinTick
        /\ MaxFreq - Ppm < TopPpm * Ppm
        /\ TopPpm \in 0 .. TopPpm
    BY <1>2, <1>3, Constants
  <2> QED
    BY <1>4, <1>5, <1>6, <1>7, <1>8, <2>1 DEF Probing, Took, Holds
<1> QED
  BY <1>6, <1>7, <1>8, <1>9, <1>10

LEMMA InvStartLimits ==
    ASSUME IInv, NEW m \in Masters, StartLimits(m)
    PROVE  IInv'
<1> DEFINE b == [tick |-> timex.tick, freq |-> timex.freq]
<1>1. /\ back' = [back EXCEPT ![m] = b]
      /\ Enter(m, Searches, limits[m], back'[m], 0)
      /\ UNCHANGED <<timex, moved, clamps, root, todo, call, ret, got, ok, limits,
                     prev_tx, change, jobs, want, exact, alone, asked, touched>>
  BY DEF StartLimits, kernel, settings, snapshots, ghosts
<1>2. TypeOK /\ b \in Readings /\ b # Nothing
  BY Reads DEF IInv
<1> HIDE DEF b
<1>3. /\ back' \in [Masters -> Readings] /\ back'[m] = b
      /\ \A n \in Masters \ {m} : back'[n] = back[n]
  BY <1>1, <1>2 DEF TypeOK
<1>4. /\ pc' \in [Masters -> PCs]
      /\ search' \in [Masters -> Searches \cup {"none", "fine"}]
      /\ probe' \in [Masters -> Nat]
      /\ \A n \in Masters \ {m} :
            pc'[n] = pc[n] /\ search'[n] = search[n] /\ probe'[n] = probe[n]
      /\ Standing(m)' /\ Probing(m)'
  BY <1>1, <1>2, <1>3, Enters
<1>5. TypeOK'
  BY <1>1, <1>2, <1>3, <1>4 DEF TypeOK, PCs
<1>6. LimitsFound'
  BY <1>1 DEF IInv, LimitsFound
<1>7. ASSUME NEW n \in Masters \ {m} PROVE Standing(n)' /\ Probing(n)'
  BY <1>1, <1>3, <1>4, OthersStand DEF IInv, Untouched
<1> QED
  BY <1>4, <1>5, <1>6, <1>7 DEF IInv

LEMMA InvGiveUp ==
    ASSUME IInv, NEW m \in Masters, GiveUp(m)
    PROVE  IInv'
<1> DEFINE s == IF search[m] = "max" THEN {"min", "freq"}
                ELSE IF search[m] = "min" THEN {"freq"} ELSE {}
<1>1. /\ pc[m] = "probe"
      /\ Enter(m, s, limits[m], back[m], 0)
      /\ UNCHANGED <<timex, moved, clamps, root, todo, call, ret, got, ok, limits, back,
                     prev_tx, change, jobs, want, exact, alone, asked, touched>>
  BY DEF GiveUp, kernel, settings, snapshots, ghosts
<1>2. TypeOK /\ back[m] \in Readings /\ back[m] # Nothing /\ s \in SUBSET Searches
  BY <1>1 DEF IInv, TypeOK, Standing, Searching, Searches
<1> HIDE DEF s
<1>3. /\ pc' \in [Masters -> PCs]
      /\ search' \in [Masters -> Searches \cup {"none", "fine"}]
      /\ probe' \in [Masters -> Nat]
      /\ \A n \in Masters \ {m} :
            pc'[n] = pc[n] /\ search'[n] = search[n] /\ probe'[n] = probe[n]
      /\ Standing(m)' /\ Probing(m)'
  BY <1>1, <1>2, Enters
<1>4. TypeOK'
  BY <1>1, <1>2, <1>3 DEF TypeOK, PCs
<1>5. LimitsFound'
  BY <1>1 DEF IInv, LimitsFound
<1>6. ASSUME NEW n \in Masters \ {m} PROVE Standing(n)' /\ Probing(n)'
  BY <1>1, <1>3, OthersStand DEF IInv, Untouched
<1> QED
  BY <1>3, <1>4, <1>5, <1>6 DEF IInv

LEMMA TrialsTyped ==
    ASSUME IInv, NEW m \in Masters, search[m] # "none"
    PROVE  Trial(m) \in Calls /\ Restoration(m) \in Calls
<1>1. probe[m] \in Int /\ back[m].tick \in Int /\ back[m].freq \in Int
  BY Constants DEF IInv, TypeOK, Standing, Readings
<1> QED
  BY <1>1, CallsTyped DEF Trial, Restoration

LEMMA InvTryAndRestore ==
    ASSUME IInv, NEW m \in Masters, Try(m) \/ Restore(m)
    PROVE  IInv'
<1>1. PICK to \in {"tried", "restored"} :
         /\ Request(m, IF to = "tried" THEN Trial(m) ELSE Restoration(m), to)
         /\ to = "tried" => pc[m] = "probe" /\ Goes(m)
         /\ to = "restored" => pc[m] = "tried" /\ ok[m]
         /\ UNCHANGED <<timex, moved, clamps, root, todo, search, probe, limits, back,
                        prev_tx, change, jobs, want, exact, alone, asked, touched>>
  <2>1. CASE Try(m)
    BY <2>1 DEF Try, kernel, probing, snapshots, ghosts
  <2>2. CASE Restore(m)
    BY <2>2 DEF Restore, kernel, probing, snapshots, ghosts
  <2> QED
    BY <2>1, <2>2
<1> DEFINE c == IF to = "tried" THEN Trial(m) ELSE Restoration(m)
           r == [tick |-> timex.tick, freq |-> timex.freq]
<1>2. TypeOK /\ Standing(m) /\ Probing(m) /\ search[m] # "none"
  BY <1>1 DEF IInv, Standing, Searching
<1>3. c \in Calls /\ r \in Readings /\ r # Nothing
  BY <1>2, TrialsTyped, Reads
<1>4. /\ call' = [call EXCEPT ![m] = c] /\ ret' = [ret EXCEPT ![m] = to]
      /\ got' = [got EXCEPT ![m] = r] /\ pc' = [pc EXCEPT ![m] = "write"]
      /\ ok' = ok
  BY <1>1 DEF Request
<1>5. /\ Trial(m)' = Trial(m) /\ Restoration(m)' = Restoration(m)
  BY <1>1 DEF Trial, Restoration
<1>6. c = IF to = "tried" THEN Trial(m) ELSE Restoration(m)
  OBVIOUS
<1> HIDE DEF c, r
<1>7. TypeOK'
  <2>1. /\ call' \in [Masters -> Calls] /\ got' \in [Masters -> Readings]
        /\ ret' \in [Masters -> {"next", "tried", "restored"}]
        /\ pc' \in [Masters -> PCs]
    BY <1>2, <1>3, <1>4 DEF TypeOK, PCs
  <2> QED
    BY <1>1, <1>2, <1>4, <2>1 DEF TypeOK, PCs
<1>8. LimitsFound'
  BY <1>1 DEF IInv, LimitsFound
<1>9. pc'[m] = "write" /\ ret'[m] = to /\ call'[m] = c /\ got'[m] = r
  BY <1>2, <1>4 DEF TypeOK
<1>10. Standing(m)'
  BY <1>1, <1>2, <1>3, <1>5, <1>6, <1>9 DEF Standing, Searching
<1>11. Probing(m)'
  <2>1. search[m] \in {"max", "freq", "fine"} => 0 < probe[m]
    BY <1>1, <1>2 DEF Probing, Goes, TypeOK
  <2>2. to = "restored" => Took(m)
    BY <1>1 DEF Took, Holds
  <2>3. InReach(m)' <=> InReach(m)
    BY <1>1 DEF InReach
  <2> QED
    BY <1>1, <1>2, <1>9, <2>1, <2>2, <2>3 DEF Probing, Took, Holds
<1>12. ASSUME NEW n \in Masters \ {m} PROVE Standing(n)' /\ Probing(n)'
  BY <1>1, <1>2, <1>4, OthersStand DEF IInv, TypeOK, Untouched
<1> QED
  BY <1>7, <1>8, <1>10, <1>11, <1>12 DEF IInv

(* k * p - p, as the solver does not see it. *)
LEMMA OneLess ==
    ASSUME NEW k \in Nat, NEW p \in Nat, 0 < k * p
    PROVE  k - 1 \in Nat /\ k * p - p = (k - 1) * p /\ (k - 1) * p \in Nat
<1>1. k # 0
  OBVIOUS
<1> QED
  BY <1>1

LEMMA InvTryNext ==
    ASSUME IInv, NEW m \in Masters, TryNext(m)
    PROVE  IInv'
<1> DEFINE p == probe[m] + Step(search[m])
<1>1. /\ pc[m] = "tried" /\ ~ok[m]
      /\ probe' = [probe EXCEPT ![m] = p]
      /\ pc' = [pc EXCEPT ![m] = "probe"]
      /\ UNCHANGED <<timex, moved, clamps, root, todo, call, ret, got, ok, search,
                     limits, back, prev_tx, change, jobs, want, exact, alone, asked,
                     touched>>
  BY DEF TryNext, kernel, settings, snapshots, ghosts
<1>2. TypeOK /\ Standing(m) /\ Probing(m)
  BY DEF IInv
<1>3. /\ probe[m] \in Nat /\ search[m] \in {"max", "min", "freq", "fine"}
      /\ search[m] # "min" => 0 < probe[m]
      /\ m \in root => ~InReach(m)
  BY <1>1, <1>2 DEF TypeOK, Searches, Standing, Searching, Probing
<1>4. p = CASE search[m] = "max"  -> probe[m] - 1
            [] search[m] = "min"  -> probe[m] + 1
            [] search[m] = "freq" -> probe[m] - Ppm
            [] search[m] = "fine" -> probe[m] - 1
  BY <1>3, Constants DEF Step
<1> HIDE DEF p
<1>5. /\ p \in Nat
      /\ search[m] = "freq" => \E k \in 0 .. TopPpm : p = k * Ppm
  <2>1. CASE search[m] = "freq"
    <3>1. PICK k \in 0 .. TopPpm : probe[m] = k * Ppm
      BY <1>2, <2>1 DEF Probing
    <3>2. p = k * Ppm - Ppm /\ 0 < k * Ppm
      BY <1>3, <1>4, <2>1, <3>1
    <3>3. p = (k - 1) * Ppm /\ p \in Nat /\ k - 1 \in 0 .. TopPpm
      BY <3>2, OneLess, Constants
    <3> QED
      BY <3>3
  <2>2. CASE search[m] # "freq"
    BY <1>3, <1>4, <2>2
  <2> QED
    BY <2>1, <2>2
<1>6. TypeOK'
  <2>1. probe' \in [Masters -> Nat] /\ pc' \in [Masters -> PCs]
    BY <1>1, <1>2, <1>5 DEF TypeOK, PCs
  <2> QED
    BY <1>1, <1>2, <2>1 DEF TypeOK, PCs
<1>7. LimitsFound'
  BY <1>1 DEF IInv, LimitsFound
<1>8. pc'[m] = "probe" /\ probe'[m] = p
  BY <1>1, <1>2 DEF TypeOK
<1>9. Standing(m)'
  BY <1>1, <1>2, <1>8 DEF Standing, Searching
<1>10. Probing(m)'
  <2>1. ASSUME m \in root
        PROVE  /\ search[m] = "max" => MaxTick <= p
               /\ search[m] = "min" => p <= MinTick
               /\ search[m] = "freq" => ~clamps /\ MaxFreq - Ppm < p
               /\ search[m] = "fine" => ~clamps /\ MaxFreq <= p
    <3>1. ~InReach(m)
      BY <1>3, <2>1
    <3>2. CASE search[m] = "max"
      <4>1. MaxTick <= probe[m] /\ ~(MinTick <= probe[m] /\ probe[m] <= MaxTick)
        BY <1>2, <2>1, <3>1, <3>2 DEF Probing, InReach
      <4> QED
        BY <1>3, <1>4, <3>2, <4>1, Constants
    <3>3. CASE search[m] = "min"
      <4>1. probe[m] <= MinTick /\ ~(MinTick <= probe[m] /\ probe[m] <= MaxTick)
        BY <1>2, <2>1, <3>1, <3>3 DEF Probing, InReach
      <4> QED
        BY <1>3, <1>4, <3>3, <4>1, Constants, SMTT(30)
    <3>4. CASE search[m] \in {"freq", "fine"}
      <4>1. ~clamps /\ ~(probe[m] <= MaxFreq)
        BY <3>1, <3>4 DEF InReach
      <4> QED
        BY <1>3, <1>4, <3>4, <4>1, Constants, SMTT(30)
    <3> QED
      BY <1>3, <3>2, <3>3, <3>4
  <2> QED
    BY <1>1, <1>5, <1>8, <2>1 DEF Probing, Took, Holds
<1>11. ASSUME NEW n \in Masters \ {m} PROVE Standing(n)' /\ Probing(n)'
  BY <1>1, <1>2, OthersStand DEF IInv, TypeOK, Untouched
<1> QED
  BY <1>6, <1>7, <1>9, <1>10, <1>11 DEF IInv

(* What a finished search has found. *)
LEMMA Finds ==
    ASSUME IInv, NEW m \in Masters, pc[m] = "restored"
    PROVE  /\ search[m] = "max" => probe[m] = MaxTick
           /\ search[m] = "min" => probe[m] = MinTick
           /\ search[m] = "freq" =>
                 IF clamps THEN probe[m] + Ppm = (TopPpm + 1) * Ppm
                 ELSE MaxFreq <= probe[m] + Ppm
           /\ search[m] = "fine" =>
                 probe[m] = IF clamps THEN (TopPpm + 1) * Ppm ELSE MaxFreq
<1>1. m \in root /\ InReach(m) /\ Probing(m) /\ probe[m] \in Nat
  BY DEF IInv, TypeOK, Probing, Took
<1>2. CASE search[m] = "max"
  BY <1>1, <1>2, Constants DEF Probing, InReach
<1>3. CASE search[m] = "min"
  BY <1>1, <1>3, Constants DEF Probing, InReach
<1>4. CASE search[m] = "freq"
  <2>1. TopPpm * Ppm + Ppm = (TopPpm + 1) * Ppm
    BY Constants
  <2>2. IF clamps THEN probe[m] = TopPpm * Ppm ELSE MaxFreq - Ppm < probe[m]
    BY <1>1, <1>4 DEF Probing
  <2>3. IF clamps THEN probe[m] + Ppm = (TopPpm + 1) * Ppm
        ELSE MaxFreq <= probe[m] + Ppm
    BY <1>1, <2>1, <2>2, Constants
  <2> QED
    BY <1>4, <2>3
<1>5. CASE search[m] = "fine"
  <2>1. IF clamps THEN probe[m] = (TopPpm + 1) * Ppm ELSE MaxFreq <= probe[m]
    BY <1>1, <1>5 DEF Probing
  <2>2. clamps \/ probe[m] <= MaxFreq
    BY <1>1, <1>5 DEF InReach
  <2> QED
    BY <1>1, <1>5, <2>1, <2>2, Constants
<1> QED
  BY <1>2, <1>3, <1>4, <1>5

LEMMA InvFound ==
    ASSUME IInv, NEW m \in Masters, Found(m)
    PROVE  IInv'
<1> DEFINE s == IF search[m] = "max" THEN {"min", "freq"}
                ELSE IF search[m] = "min" THEN {"freq"} ELSE {}
           f == IF search[m] = "fine" THEN "freq" ELSE search[m]
           v == IF search[m] = "fine" THEN ToPpb(probe[m]) ELSE probe[m]
<1>1. /\ pc[m] = "restored"
      /\ UNCHANGED <<timex, moved, clamps, root, todo, call, ret, got, ok, back,
                     prev_tx, change, jobs, want, exact, alone, asked, touched>>
  BY DEF Found, kernel, settings, snapshots, ghosts
<1>2. /\ TypeOK /\ LimitsFound /\ Standing(m) /\ Probing(m)
      /\ probe[m] \in Nat /\ back[m] \in Readings
  BY DEF IInv, TypeOK
<1>3. search[m] \in {"max", "min", "freq", "fine"} /\ back[m] # Nothing
  BY <1>1, <1>2 DEF TypeOK, Searches, Standing, Searching
<1>4. ASSUME NEW n \in Masters \ {m},
             pc'[n] = pc[n], search'[n] = search[n], probe'[n] = probe[n]
      PROVE  Standing(n)' /\ Probing(n)'
  BY <1>1, <1>4, OthersStand DEF IInv, Untouched
<1>5. CASE search[m] = "freq"
  <2>1. /\ search' = [search EXCEPT ![m] = "fine"]
        /\ probe' = [probe EXCEPT ![m] = @ + Ppm]
        /\ pc' = [pc EXCEPT ![m] = "probe"]
        /\ limits' = limits
    BY <1>5 DEF Found, Refined
  <2>2. /\ search' \in [Masters -> Searches \cup {"none", "fine"}]
        /\ probe' \in [Masters -> Nat]
        /\ pc' \in [Masters -> PCs]
    BY <1>2, <2>1, Constants DEF TypeOK, PCs
  <2>3. TypeOK'
    BY <1>1, <1>2, <2>1, <2>2 DEF TypeOK, PCs
  <2>4. LimitsFound'
    BY <1>1, <1>2, <2>1 DEF LimitsFound
  <2>5. search'[m] = "fine" /\ probe'[m] = probe[m] + Ppm /\ pc'[m] = "probe"
    BY <1>2, <2>1 DEF TypeOK
  <2>6. Standing(m)'
    BY <1>1, <1>3, <2>5 DEF Standing, Searching
  <2>7. Probing(m)'
    BY <1>1, <1>5, <2>5, Finds DEF Probing, Took, Holds
  <2>8. ASSUME NEW n \in Masters \ {m}
        PROVE  pc'[n] = pc[n] /\ search'[n] = search[n] /\ probe'[n] = probe[n]
    BY <1>2, <2>1 DEF TypeOK
  <2> QED
    BY <1>4, <2>3, <2>4, <2>6, <2>7, <2>8 DEF IInv
<1>6. CASE search[m] # "freq"
  <2>1. /\ limits' = [limits EXCEPT ![m][f] = v]
        /\ Enter(m, s, limits'[m], back[m], 0)
    BY <1>6 DEF Found
  <2>2. s \in SUBSET Searches /\ f \in Searches /\ v \in Int
    BY <1>2, <1>3, Converts DEF Searches
  <2>3. /\ f = "max" => v = MaxTick
        /\ f = "min" => v = MinTick
        /\ f = "freq" => v = ToPpb(IF clamps THEN (TopPpm + 1) * Ppm ELSE MaxFreq)
    BY <1>1, <1>3, <1>6, Finds
  <2> HIDE DEF s, f, v
  <2>4. /\ pc' \in [Masters -> PCs]
        /\ search' \in [Masters -> Searches \cup {"none", "fine"}]
        /\ probe' \in [Masters -> Nat]
        /\ \A n \in Masters \ {m} :
              pc'[n] = pc[n] /\ search'[n] = search[n] /\ probe'[n] = probe[n]
        /\ Standing(m)' /\ Probing(m)'
    BY <1>1, <1>2, <1>3, <2>1, <2>2, Enters
  <2>5. limits \in [Masters -> [Searches -> Int]]
    BY <1>2 DEF TypeOK
  <2>6. /\ limits' \in [Masters -> [Searches -> Int]]
        /\ \A n \in Masters \ {m} : limits'[n] = limits[n]
        /\ \A x \in Searches : limits'[m][x] = IF x = f THEN v ELSE limits[m][x]
    BY <2>1, <2>2, <2>5
  <2>7. TypeOK'
    BY <1>1, <1>2, <2>4, <2>6 DEF TypeOK, PCs
  <2>8. LimitsFound'
    <3>1. {"max", "min", "freq"} \subseteq Searches
      BY DEF Searches
    <3>2. ASSUME NEW n \in Masters \ {m}
          PROVE  /\ limits'[n]["max"] \in {0, MaxTick}
                 /\ limits'[n]["min"] \in {0, MinTick}
                 /\ limits'[n]["freq"] \in
                       {0, ToPpb(IF clamps THEN (TopPpm + 1) * Ppm ELSE MaxFreq)}
      BY <1>2, <2>6 DEF LimitsFound
    <3>3. /\ limits'[m]["max"] \in {0, MaxTick}
          /\ limits'[m]["min"] \in {0, MinTick}
          /\ limits'[m]["freq"] \in
                {0, ToPpb(IF clamps THEN (TopPpm + 1) * Ppm ELSE MaxFreq)}
      BY <1>2, <2>3, <2>6, <3>1 DEF LimitsFound
    <3> QED
      BY <1>1, <3>2, <3>3 DEF LimitsFound
  <2> QED
    BY <1>4, <2>4, <2>7, <2>8 DEF IInv
<1> QED
  BY <1>5, <1>6

LEMMA InvStep == IInv /\ [Next]_vars => IInv'
<1> SUFFICES ASSUME IInv, [Next]_vars PROVE IInv'
  OBVIOUS
<1>1. CASE UNCHANGED vars
  <2>1. UNCHANGED <<timex, moved, clamps, root, pc, todo, call, ret, got, ok, search,
                    probe, limits, back, prev_tx, change, jobs, want, exact, alone,
                    asked, touched>>
    BY <1>1 DEF vars, kernel, settings, probing, snapshots, ghosts
  <2>2. TypeOK'
    BY <2>1 DEF IInv, TypeOK
  <2>3. LimitsFound'
    BY <2>1 DEF IInv, LimitsFound
  <2>4. ASSUME NEW n \in Masters PROVE Standing(n)' /\ Probing(n)'
    BY <2>1, OthersStand DEF IInv, Untouched
  <2> QED
    BY <2>2, <2>3, <2>4 DEF IInv
<1>2. ASSUME NEW m \in Masters, Run(m) \/ Steps(m) PROVE IInv'
  BY <1>2, InvRun, InvDispatch, InvDone, InvWrite, InvSetOffset, InvSetTimex,
     InvSnapshots, InvStartLimits, InvTryAndRestore, InvTryNext, InvGiveUp, InvFound
     DEF Steps
<1> QED
  BY <1>1, <1>2 DEF Next

LEMMA Invariance == Spec => []IInv
<1> QED
  BY InvInit, InvStep, PTL DEF Spec

-----------------------------------------------------------------------------
(* Whatever jobs the processes are given: the kernel's tick and frequency stay
   in their ranges, and a search of TIMEX_LIMITS never tries a value below 0
   (adjtimex_helper.c:443-505). *)
THEOREM TypeCorrect == Spec => []TypeOK
<1>1. IInv => TypeOK
  BY DEF IInv
<1> QED
  BY Invariance, <1>1, PTL

(* TIMEX_LIMITS (adjtimex_helper.c:443-505) finds the kernel's limits, whatever
   other masters write between its system calls, and for every step of the
   search of a frequency: the fine search comes back to what the coarse one
   has passed. *)
THEOREM LimitsAreFound == Spec => []LimitsFound
<1>1. IInv => LimitsFound
  BY DEF IInv
<1> QED
  BY Invariance, <1>1, PTL

-----------------------------------------------------------------------------
LEMMA NormalIsExact ==
    ASSUME NEW ns \in Int
    PROVE  LET t == Normal(ns) IN
           /\ t.sec \in Int /\ t.nsec \in Int
           /\ t.sec * Second + t.nsec = ns
           /\ 0 <= t.nsec
           /\ t.nsec < Second <=> ns < Second
<1> DEFINE q == ns \div Second
<1>1. Second \in Nat /\ 0 < Second
  BY Constants
<1>2. q \in Int /\ q * Second <= ns /\ ns < q * Second + Second /\ q * Second \in Int
  BY <1>1
<1>3. CASE ns < 0
  <2>1. Normal(ns) = [sec |-> q, nsec |-> ns - q * Second]
    BY <1>3 DEF Normal
  <2> HIDE DEF q
  <2> QED
    BY <1>1, <1>2, <1>3, <2>1
<1>4. CASE ~(ns < 0)
  <2>1. Normal(ns) = [sec |-> 0, nsec |-> ns]
    BY <1>4 DEF Normal
  <2> QED
    BY <1>1, <1>4, <2>1
<1> QED
  BY <1>3, <1>4

LEMMA OffsetsStep == IInv /\ ClockMovedAsAsked /\ [Next]_vars => ClockMovedAsAsked'
<1> SUFFICES ASSUME IInv, ClockMovedAsAsked, [Next]_vars PROVE ClockMovedAsAsked'
  OBVIOUS
<1>1. CASE UNCHANGED <<moved, asked>>
  BY <1>1 DEF ClockMovedAsAsked
<1>2. ASSUME NEW m \in Masters, SetOffset(m) PROVE ClockMovedAsAsked'
  <2> DEFINE ns == call[m].ns
             t == Normal(ns)
  <2>1. TypeOK /\ ns \in Int /\ moved \in Int /\ asked \in Int /\ moved = asked
    BY DEF IInv, TypeOK, Calls, ClockMovedAsAsked
  <2>2. ok'[m] <=> m \in root /\ 0 <= t.nsec /\ t.nsec < Second
    <3>1. ok' = [ok EXCEPT ![m] = m \in root /\ 0 <= t.nsec /\ t.nsec < Second]
      BY <1>2 DEF SetOffset
    <3>2. ok \in [Masters -> BOOLEAN]
      BY <2>1 DEF TypeOK
    <3> QED
      BY <3>1, <3>2, Zenon
  <2>3. /\ moved' = IF ok'[m] THEN moved + t.sec * Second + t.nsec ELSE moved
        /\ asked' = IF m \in root /\ ns < Second THEN asked + ns ELSE asked
    BY <1>2 DEF SetOffset
  <2>4. /\ t.sec \in Int /\ t.nsec \in Int /\ t.sec * Second \in Int
        /\ t.sec * Second + t.nsec = ns
        /\ 0 <= t.nsec /\ (t.nsec < Second <=> ns < Second)
    BY <2>1, NormalIsExact, Constants
  <2>5. moved + t.sec * Second + t.nsec = moved + ns
    <3> HIDE DEF t, ns
    <3> QED
      BY <2>1, <2>4
  <2> HIDE DEF t, ns
  <2>6. CASE m \in root /\ ns < Second
    BY <2>1, <2>2, <2>3, <2>4, <2>5, <2>6 DEF ClockMovedAsAsked
  <2>7. CASE ~(m \in root /\ ns < Second)
    BY <2>1, <2>2, <2>3, <2>4, <2>7 DEF ClockMovedAsAsked
  <2> QED
    BY <2>6, <2>7
<1>3. ASSUME NEW m \in Masters, Run(m) \/ Steps(m), ~SetOffset(m)
      PROVE  UNCHANGED <<moved, asked>>
  <2>1. CASE Run(m)
    BY <2>1 DEF Run, kernel, ghosts
  <2>2. CASE Dispatch(m) \/ Done(m) \/ Write(m) \/ SetTimex(m)
    BY <2>2 DEF Dispatch, Done, Write, SetTimex, kernel, ghosts
  <2>3. CASE FirstSnapshot(m) \/ Snapshot(m) \/ StartLimits(m)
    BY <2>3 DEF FirstSnapshot, Snapshot, StartLimits, kernel, ghosts
  <2>4. CASE Try(m) \/ TryNext(m) \/ GiveUp(m) \/ Restore(m) \/ Found(m)
    BY <2>4 DEF Try, TryNext, GiveUp, Restore, Found, kernel, ghosts
  <2> QED
    BY <1>3, <2>1, <2>2, <2>3, <2>4 DEF Steps
<1> QED
  BY <1>1, <1>2, <1>3 DEF Next, vars, kernel, ghosts

(* adjtimex_set_offset (adjtimex_helper.c:407-418): the clock is set by the sum
   of the offsets that are taken, whatever their signs and sizes. *)
THEOREM OffsetsAddUp == Spec => []ClockMovedAsAsked
<1>1. Init => ClockMovedAsAsked
  BY DEF Init, ClockMovedAsAsked
<1> QED
  BY <1>1, Invariance, OffsetsStep, PTL DEF Spec

-----------------------------------------------------------------------------
LEMMA NoDifference ==
    ASSUME NEW t, NEW u
    PROVE  Differences(t, u) = {} <=>
              t.status = u.status /\ t.freq = u.freq /\ t.offset = u.offset
                 /\ t.tick = u.tick
<1>1. \A f \in {"status", "freq", "offset", "tick"} :
         f \in Differences(t, u) <=> t[f] # u[f]
  BY DEF Differences
<1>2. Differences(t, u) \subseteq {"status", "freq", "offset", "tick"}
  BY DEF Differences
<1> QED
  BY <1>1, <1>2

LEMMA SeenStep == IInv /\ Seen /\ [Next]_vars => Seen'
<1> SUFFICES ASSUME IInv, Seen, [Next]_vars, NEW n \in Masters,
                    prev_tx'[n] # Unread, ~touched'[n]
             PROVE  Differences(prev_tx'[n], timex') = {}
  BY DEF Seen
<1>0. TypeOK
  BY DEF IInv
<1>a. prev_tx \in [Masters -> Timexes \cup {Unread}] /\ timex \in Timexes \cup {Unread}
  BY <1>0 DEF TypeOK
<1>1. CASE UNCHANGED <<timex, prev_tx, touched>>
  BY <1>1 DEF Seen
<1>2. ASSUME prev_tx' = prev_tx, Touch(timex, timex')
      PROVE  Differences(prev_tx'[n], timex') = {}
  <2>1. ~touched[n] /\ Differences(timex, timex') = {}
    BY <1>2, Zenon DEF Touch
  <2>2. Differences(prev_tx[n], timex) = {}
    BY <1>2, <2>1 DEF Seen
  <2> QED
    BY <1>2, <2>1, <2>2, NoDifference
<1>3. ASSUME NEW m \in Masters, FirstSnapshot(m) \/ Snapshot(m)
      PROVE  Differences(prev_tx'[n], timex') = {}
  <2>1. /\ timex' = timex
        /\ touched' = [touched EXCEPT ![m] = FALSE]
    BY <1>3 DEF FirstSnapshot, Snapshot, kernel
  <2>2. \/ prev_tx' = [prev_tx EXCEPT ![m] = timex]
        \/ prev_tx' = prev_tx /\ Differences(prev_tx[m], timex) = {}
    <3>1. CASE FirstSnapshot(m)
      BY <3>1 DEF FirstSnapshot
    <3>2. CASE Snapshot(m)
      <4>1. change'[m] = Differences(prev_tx[m], timex)
        BY <1>0, <3>2 DEF Snapshot, TypeOK
      <4> QED
        BY <3>2, <4>1 DEF Snapshot
    <3> QED
      BY <1>3, <3>1, <3>2
  <2>3. CASE n = m
    <3>1. CASE prev_tx' = [prev_tx EXCEPT ![m] = timex]
      <4>1. prev_tx'[n] = timex
        BY <1>a, <2>3, <3>1, Updated, Zenon
      <4> QED
        BY <2>1, <4>1, NoDifference
    <3>2. CASE prev_tx' = prev_tx /\ Differences(prev_tx[m], timex) = {}
      BY <2>1, <2>3, <3>2
    <3> QED
      BY <2>2, <3>1, <3>2
  <2>4. CASE n # m
    <3>1. prev_tx'[n] = prev_tx[n]
      BY <1>a, <2>2, <2>4, Updated, Zenon
    <3>2. ~touched[n]
      BY <1>0, <2>1, <2>4 DEF TypeOK
    <3> QED
      BY <2>1, <3>1, <3>2 DEF Seen
  <2> QED
    BY <2>3, <2>4
<1>4. ASSUME NEW m \in Masters, Run(m) \/ Steps(m),
             ~FirstSnapshot(m), ~Snapshot(m)
      PROVE  \/ UNCHANGED <<timex, prev_tx, touched>>
             \/ prev_tx' = prev_tx /\ Touch(timex, timex')
  <2>1. CASE Run(m)
    BY <2>1 DEF Run, kernel, snapshots, ghosts
  <2>2. CASE Dispatch(m) \/ Done(m) \/ SetOffset(m)
    BY <2>2 DEF Dispatch, Done, SetOffset, kernel, snapshots, ghosts
  <2>3. CASE Write(m)
    <3>1. prev_tx' = prev_tx
      BY <2>3 DEF Write, snapshots
    <3>2. CASE Accepts(m)
      BY <2>3, <3>1, <3>2, Zenon DEF Write
    <3>3. CASE ~Accepts(m)
      BY <2>3, <3>1, <3>3 DEF Write
    <3> QED
      BY <3>2, <3>3
  <2>4. CASE SetTimex(m)
    BY <2>4, Zenon DEF SetTimex, snapshots
  <2>5. CASE StartLimits(m) \/ Try(m) \/ TryNext(m) \/ GiveUp(m) \/ Restore(m) \/ Found(m)
    BY <2>5 DEF StartLimits, Try, TryNext, GiveUp, Restore, Found, kernel, snapshots,
                ghosts
  <2> QED
    BY <1>4, <2>1, <2>2, <2>3, <2>4, <2>5 DEF Steps
<1> QED
  BY <1>1, <1>2, <1>3, <1>4 DEF Next, vars, kernel, snapshots, ghosts

LEMMA AlarmStep ==
    IInv /\ Seen /\ [Next]_vars
       => \A m \in Masters :
             pc[m] \in {"snapshot", "watch"} /\ pc'[m] = "next" /\ change'[m] # {}
                => touched[m]
<1> SUFFICES ASSUME IInv, Seen, [Next]_vars, NEW m \in Masters,
                    pc[m] \in {"snapshot", "watch"}, pc'[m] = "next", change'[m] # {}
             PROVE  touched[m]
  OBVIOUS
<1>0. TypeOK /\ pc \in [Masters -> PCs]
  BY DEF IInv, TypeOK, PCs
<1>1. ASSUME NEW n \in Masters, Run(n) \/ Steps(n), n # m
      PROVE  pc'[m] = pc[m]
  <2>1. CASE Run(n) \/ Done(n) \/ Write(n) \/ SetOffset(n) \/ SetTimex(n)
    BY <1>0, <1>1, <2>1 DEF Run, Done, Write, SetOffset, SetTimex
  <2>2. CASE Dispatch(n) \/ Try(n) \/ Restore(n)
    BY <1>0, <1>1, <2>2 DEF Dispatch, Try, Restore, Request
  <2>3. CASE FirstSnapshot(n) \/ Snapshot(n) \/ TryNext(n)
    BY <1>0, <1>1, <2>3 DEF FirstSnapshot, Snapshot, TryNext
  <2>4. CASE StartLimits(n) \/ GiveUp(n)
    BY <1>0, <1>1, <2>4 DEF StartLimits, GiveUp, Enter
  <2>5. CASE Found(n)
    BY <1>0, <1>1, <2>5 DEF Found, Enter
  <2> QED
    BY <1>1, <2>1, <2>2, <2>3, <2>4, <2>5 DEF Steps
<1>2. ASSUME Run(m) \/ Steps(m)
      PROVE  Snapshot(m)
  <2>1. ~FirstSnapshot(m)
    BY DEF FirstSnapshot
  <2> QED
    BY <1>2, <2>1 DEF Steps, Run, Dispatch, Done, Write, SetOffset, SetTimex,
                      StartLimits, Try, TryNext, GiveUp, Restore, Found
<1>3. pc'[m] # pc[m]
  OBVIOUS
<1>4. Snapshot(m)
  BY <1>1, <1>2, <1>3 DEF Next, vars
<1>5. change'[m] = Differences(prev_tx[m], timex) /\ prev_tx[m] # Unread
  BY <1>0, <1>4 DEF Snapshot, TypeOK
<1> QED
  BY <1>5 DEF Seen

(* adjtimex_snapshot (adjtimex_helper.c:267-286) reports no change that has not
   happened since the caller's last snapshot, whatever the processes do between
   its calls. *)
THEOREM SnapshotsTrue == Spec => NoFalseAlarm
<1>1. Init => Seen
  BY DEF Init, Seen
<1>2. Spec => []Seen
  BY <1>1, Invariance, SeenStep, PTL DEF Spec
<1>3. IInv /\ Seen /\ [Next]_vars
         => [\A m \in Masters :
                pc[m] \in {"snapshot", "watch"} /\ pc'[m] = "next" /\ change'[m] # {}
                   => touched[m]]_vars
  BY AlarmStep
<1> QED
  BY <1>2, <1>3, Invariance, PTL DEF Spec, NoFalseAlarm

-----------------------------------------------------------------------------
(* What a step that writes no tick and no frequency does to master m: m is not
   in a search after it, or goes on with the one it was in, or begins one. *)
Calm(m) ==
    /\ timex'.tick = timex.tick /\ timex'.freq = timex.freq
    /\ want' = want /\ exact' = exact
    /\ \A n \in Masters \ {m} : Untouched(n) /\ alone'[n] = alone[n]
    /\ \/ search[m] = "none" /\ search'[m] = "none"
       \/ search[m] # "none" /\ search'[m] = "none" /\ ~Holds(m)
       \/ /\ search[m] # "none" /\ back'[m] = back[m] /\ alone'[m] = alone[m]
          /\ \/ search'[m] = search[m] /\ (Holds(m)' <=> Holds(m))
             \/ ~Holds(m) /\ ~Holds(m)'
       \/ /\ search[m] = "none" /\ ~Holds(m)'
          /\ back'[m] = [tick |-> timex.tick, freq |-> timex.freq]
    /\ pc'[m] = "write" /\ alone'[m]
          => got'[m] = [tick |-> timex.tick, freq |-> timex.freq]

LEMMA EnterStops ==
    ASSUME TypeOK, NEW m \in Masters, NEW s, NEW lim, NEW b, NEW v, Enter(m, s, lim, b, v)
    PROVE  /\ pc'[m] \in {"next", "probe"}
           /\ \A n \in Masters \ {m} :
                 pc'[n] = pc[n] /\ search'[n] = search[n] /\ probe'[n] = probe[n]
BY DEF TypeOK, Enter

LEMMA CalmSteps ==
    ASSUME IInv, NEW m \in Masters, Run(m) \/ Steps(m), ~Write(m)
    PROVE  Calm(m)
<1>0. TypeOK /\ Standing(m)
  BY DEF IInv
<1>1. CASE Run(m) \/ Done(m)
  BY <1>0, <1>1 DEF Run, Done, Calm, TypeOK, Standing, Searching, Untouched, kernel,
                    settings, probing, snapshots, ghosts
<1>2. CASE Dispatch(m)
  <2>1. /\ search[m] = "none" /\ UNCHANGED <<timex, search, probe, back, ok, want, exact>>
        /\ call' = [call EXCEPT ![m] = Head(todo[m])]
        /\ alone' = [alone EXCEPT ![m] = TRUE]
    BY <1>0, <1>2 DEF Dispatch, Request, Standing, Searching, kernel, probing
  <2>2. CASE Head(todo[m]).op = "tick_freq"
    <3>1. /\ ret' = [ret EXCEPT ![m] = "next"] /\ pc' = [pc EXCEPT ![m] = "write"]
          /\ got' = [got EXCEPT ![m] = [tick |-> timex.tick, freq |-> timex.freq]]
      BY <1>2, <2>2 DEF Dispatch, Request
    <3> QED
      BY <1>0, <2>1, <3>1 DEF Calm, TypeOK, Untouched
  <2>3. CASE Head(todo[m]).op # "tick_freq"
    <3>1. /\ ret' = ret /\ got' = got
          /\ pc' = [pc EXCEPT ![m] = Head(todo[m]).op]
      BY <1>2, <2>3 DEF Dispatch
    <3>2. Head(todo[m]).op # "write"
      <4>1. Head(todo[m]) \in HelperCalls
        BY <1>0, <1>2, HeadAndTail DEF TypeOK, Dispatch
      <4>2. Head(todo[m]) \in Calls
        BY <4>1 DEF HelperCalls
      <4> QED
        BY <4>2 DEF Calls
    <3> QED
      BY <1>0, <2>1, <3>1, <3>2 DEF Calm, TypeOK, Untouched
  <2> QED
    BY <2>2, <2>3
<1>3. CASE SetOffset(m) \/ SetTimex(m)
  <2>1. /\ pc[m] \in {"set_offset", "offset", "status"}
        /\ pc' = [pc EXCEPT ![m] = "next"]
        /\ UNCHANGED <<call, ret, got, search, probe, back, want, exact, alone>>
    BY <1>3 DEF SetOffset, SetTimex, probing
  <2>2. \A n \in Masters \ {m} : ok'[n] = ok[n]
    BY <1>0, <1>3 DEF SetOffset, SetTimex, TypeOK
  <2>3. timex'.tick = timex.tick /\ timex'.freq = timex.freq
    <3>1. CASE SetOffset(m)
      BY <3>1 DEF SetOffset
    <3>2. CASE SetTimex(m)
      <4>1. timex \in Timexes
        BY <1>0 DEF TypeOK
      <4>2. PICK o : \/ timex' = timex
                     \/ timex' = [timex EXCEPT !.offset = o]
                     \/ timex' = [timex EXCEPT !.status = o]
        BY <3>2 DEF SetTimex
      <4>3. CASE timex' = timex
        BY <4>3
      <4>4. CASE timex' = [timex EXCEPT !.offset = o]
        BY <4>1, <4>4 DEF Timexes
      <4>5. CASE timex' = [timex EXCEPT !.status = o]
        BY <4>1, <4>5 DEF Timexes
      <4> QED
        BY <4>2, <4>3, <4>4, <4>5
    <3> QED
      BY <1>3, <3>1, <3>2
  <2>4. search[m] = "none" /\ search'[m] = "none" /\ pc'[m] # "write"
    BY <1>0, <2>1 DEF Standing, Searching, TypeOK
  <2> QED
    BY <1>0, <2>1, <2>2, <2>3, <2>4 DEF Calm, TypeOK, Untouched
<1>4. CASE FirstSnapshot(m) \/ Snapshot(m)
  BY <1>0, <1>4 DEF FirstSnapshot, Snapshot, Calm, TypeOK, Standing, Searching, Untouched,
                    kernel, settings, probing
<1>5. CASE StartLimits(m)
  <2>1. search[m] = "none"
    BY <1>0, <1>5 DEF StartLimits, Standing, Searching
  <2>2. /\ pc'[m] \in {"next", "probe"}
        /\ \A n \in Masters \ {m} :
              pc'[n] = pc[n] /\ search'[n] = search[n] /\ probe'[n] = probe[n]
    BY <1>0, <1>5, EnterStops DEF StartLimits
  <2>3. /\ back' = [back EXCEPT ![m] = [tick |-> timex.tick, freq |-> timex.freq]]
        /\ UNCHANGED <<timex, call, ret, got, ok, want, exact, alone>>
    BY <1>5 DEF StartLimits, kernel, settings, ghosts
  <2> QED
    BY <1>0, <2>1, <2>2, <2>3 DEF Calm, TypeOK, Untouched, Holds
<1>6. CASE Try(m) \/ Restore(m)
  <2>1. /\ UNCHANGED <<timex, search, probe, back, ok, want, exact, alone>>
        /\ got' = [got EXCEPT ![m] = [tick |-> timex.tick, freq |-> timex.freq]]
        /\ pc' = [pc EXCEPT ![m] = "write"]
    BY <1>6 DEF Try, Restore, Request, kernel, probing, ghosts
  <2>2. /\ \A n \in Masters \ {m} : call'[n] = call[n] /\ ret'[n] = ret[n]
        /\ ret'[m] = "restored" <=> Restore(m)
        /\ pc[m] = IF Restore(m) THEN "tried" ELSE "probe"
        /\ Restore(m) => ok[m]
    BY <1>0, <1>6 DEF Try, Restore, Request, TypeOK
  <2>3. search[m] # "none"
    BY <1>0, <2>2 DEF Standing, Searching
  <2>4. Holds(m)' <=> Holds(m)
    BY <1>0, <2>1, <2>2 DEF Holds, TypeOK
  <2> QED
    BY <1>0, <2>1, <2>2, <2>3, <2>4 DEF Calm, TypeOK, Untouched
<1>7. CASE TryNext(m)
  <2>1. search[m] # "none" /\ ~Holds(m) /\ ~Holds(m)'
    BY <1>0, <1>7 DEF TryNext, Standing, Searching, Holds, TypeOK
  <2> QED
    BY <1>0, <1>7, <2>1 DEF TryNext, Calm, TypeOK, Untouched, kernel, settings, ghosts
<1>8. CASE GiveUp(m) \/ Found(m)
  <2>1. search[m] # "none" /\ ~Holds(m)
    BY <1>0, <1>8 DEF GiveUp, Found, Standing, Searching, Holds
  <2>2. /\ pc'[m] \in {"next", "probe"}
        /\ \A n \in Masters \ {m} :
              pc'[n] = pc[n] /\ search'[n] = search[n] /\ probe'[n] = probe[n]
    <3>1. CASE Found(m) /\ search[m] = "freq"
      BY <1>0, <3>1 DEF Found, TypeOK
    <3>2. CASE GiveUp(m) \/ search[m] # "freq"
      BY <1>0, <1>8, <3>2, EnterStops DEF Found, GiveUp
    <3> QED
      BY <1>8, <3>1, <3>2
  <2>3. UNCHANGED <<timex, call, ret, got, ok, back, want, exact, alone>>
    BY <1>8 DEF GiveUp, Found, kernel, settings, ghosts
  <2> QED
    BY <1>0, <2>1, <2>2, <2>3 DEF Calm, TypeOK, Untouched, Holds
<1> QED
  BY <1>1, <1>2, <1>3, <1>4, <1>5, <1>6, <1>7, <1>8 DEF Steps

LEMMA CalmKept ==
    ASSUME TypeOK, Fresh, TickKept, FreqKept, NEW m \in Masters, Calm(m)
    PROVE  Fresh' /\ TickKept' /\ FreqKept'
<1>1. ASSUME NEW n \in Masters \ {m}
      PROVE  /\ (HoldsTick(n)' <=> HoldsTick(n)) /\ (HoldsFreq(n)' <=> HoldsFreq(n))
             /\ search'[n] = search[n] /\ back'[n] = back[n] /\ alone'[n] = alone[n]
             /\ pc'[n] = pc[n] /\ got'[n] = got[n]
  BY DEF Calm, Untouched, HoldsTick, HoldsFreq, Holds
<1>2. (HoldsTick(m) => HoldsTick(m)') /\ (HoldsFreq(m) => HoldsFreq(m)')
  BY DEF Calm, HoldsTick, HoldsFreq
<1>3. \/ search'[m] = "none"
      \/ search[m] # "none" /\ back'[m] = back[m] /\ alone'[m] = alone[m]
      \/ /\ search[m] = "none"
         /\ back'[m] = [tick |-> timex.tick, freq |-> timex.freq]
  BY DEF Calm
<1>4. /\ timex'.tick = timex.tick /\ timex'.freq = timex.freq
      /\ want' = want /\ exact' = exact
      /\ pc'[m] = "write" /\ alone'[m]
            => got'[m] = [tick |-> timex.tick, freq |-> timex.freq]
  BY DEF Calm
<1>5. Fresh'
  BY <1>1, <1>4 DEF Fresh
<1>6. TickKept'
  <2> SUFFICES ASSUME exact.tick
               PROVE  /\ (\A n \in Masters : ~HoldsTick(n)') => timex.tick = want.tick
                      /\ \A n \in Masters :
                            /\ search'[n] # "none" /\ alone'[n]
                            /\ \A k \in Masters \ {n} : ~HoldsTick(k)'
                            => back'[n].tick = want.tick
    BY <1>4 DEF TickKept
  <2>1. (\A n \in Masters : ~HoldsTick(n)') => timex.tick = want.tick
    BY <1>1, <1>2 DEF TickKept
  <2>2. ASSUME NEW n \in Masters, search'[n] # "none", alone'[n],
               \A k \in Masters \ {n} : ~HoldsTick(k)'
        PROVE  back'[n].tick = want.tick
    <3>1. \A k \in Masters \ {n} : ~HoldsTick(k)
      BY <1>1, <1>2, <2>2
    <3>2. CASE n = m
      <4>1. CASE search[m] # "none" /\ back'[m] = back[m] /\ alone'[m] = alone[m]
        BY <2>2, <3>1, <3>2, <4>1 DEF TickKept
      <4>2. CASE search[m] = "none"
                 /\ back'[m] = [tick |-> timex.tick, freq |-> timex.freq]
        BY <3>1, <3>2, <4>2 DEF TickKept, HoldsTick
      <4> QED
        BY <1>3, <2>2, <3>2, <4>1, <4>2
    <3>3. CASE n # m
      BY <1>1, <2>2, <3>1, <3>3 DEF TickKept
    <3> QED
      BY <3>2, <3>3
  <2> QED
    BY <2>1, <2>2
<1>7. FreqKept'
  <2> SUFFICES ASSUME exact.freq
               PROVE  /\ (\A n \in Masters : ~HoldsFreq(n)') => Close(timex.freq)
                      /\ \A n \in Masters :
                            /\ search'[n] # "none" /\ alone'[n]
                            /\ \A k \in Masters \ {n} : ~HoldsFreq(k)'
                            => Close(back'[n].freq)
    BY <1>4 DEF FreqKept, Close
  <2>1. (\A n \in Masters : ~HoldsFreq(n)') => Close(timex.freq)
    BY <1>1, <1>2 DEF FreqKept
  <2>2. ASSUME NEW n \in Masters, search'[n] # "none", alone'[n],
               \A k \in Masters \ {n} : ~HoldsFreq(k)'
        PROVE  Close(back'[n].freq)
    <3>1. \A k \in Masters \ {n} : ~HoldsFreq(k)
      BY <1>1, <1>2, <2>2
    <3>2. CASE n = m
      <4>1. CASE search[m] # "none" /\ back'[m] = back[m] /\ alone'[m] = alone[m]
        BY <2>2, <3>1, <3>2, <4>1 DEF FreqKept
      <4>2. CASE search[m] = "none"
                 /\ back'[m] = [tick |-> timex.tick, freq |-> timex.freq]
        BY <3>1, <3>2, <4>2 DEF FreqKept, HoldsFreq
      <4> QED
        BY <1>3, <2>2, <3>2, <4>1, <4>2
    <3>3. CASE n # m
      BY <1>1, <2>2, <3>1, <3>3 DEF FreqKept
    <3> QED
      BY <3>2, <3>3
  <2> QED
    BY <2>1, <2>2
<1> QED
  BY <1>5, <1>6, <1>7

(* A refused write: not of a restoration, so that nothing was or is held. *)
LEMMA RefusedKept ==
    ASSUME IInv, Fresh, TickKept, FreqKept, NEW m \in Masters, Write(m), ~Accepts(m)
    PROVE  Fresh' /\ TickKept' /\ FreqKept'
<1>1. UNCHANGED <<timex, want, exact, alone, call, ret, got, search, probe, back>>
  BY DEF Write, probing
<1>2. /\ pc[m] = "write" /\ pc'[m] = ret[m] /\ ~ok'[m]
      /\ \A n \in Masters \ {m} : pc'[n] = pc[n] /\ ok'[n] = ok[n]
  <2>1. pc \in [Masters -> PCs] /\ ok \in [Masters -> BOOLEAN]
    BY DEF IInv, TypeOK, PCs
  <2>2. /\ pc[m] = "write" /\ pc' = [pc EXCEPT ![m] = ret[m]]
        /\ ok' = [ok EXCEPT ![m] = FALSE]
    <3>1. Accepts(m) = FALSE
      BY Zenon DEF Accepts, InRange
    <3> QED
      BY <3>1 DEF Write
  <2> QED
    BY <2>1, <2>2
<1>3. ret[m] \in {"next", "tried"}
  BY <1>2, RestorationAccepted DEF IInv, TypeOK
<1>4. search[m] = "none" <=> ret[m] = "next"
  BY <1>2 DEF IInv, Standing, Searching
<1>5. ~Holds(m) /\ ~Holds(m)'
  BY <1>1, <1>2, <1>3 DEF Holds
<1>6. Calm(m)
  BY <1>1, <1>2, <1>3, <1>4, <1>5 DEF Calm, Untouched
<1> QED
  BY <1>6, CalmKept DEF IInv

(* The effects of a write that is accepted. *)
LEMMA AcceptedWrite ==
    ASSUME IInv, Fresh, NEW m \in Masters, Write(m), Accepts(m)
    PROVE  /\ timex'.tick = NewTick(m) /\ timex'.freq = Clamped(NewFreq(m))
           /\ UNCHANGED <<call, ret, got, search, probe, back>>
           /\ pc[m] = "write" /\ pc'[m] = ret[m] /\ ok'[m]
           /\ \A n \in Masters \ {m} :
                 /\ pc'[n] = pc[n] /\ ok'[n] = ok[n]
                 /\ alone'[n] => search[n] = "none"
           /\ alone'[m] <=> alone[m]
           /\ alone[m] => got[m].tick = timex.tick /\ got[m].freq = timex.freq
<1>1. TypeOK
  BY DEF IInv
<1>2. timex' = [timex EXCEPT !.tick = NewTick(m), !.freq = Clamped(NewFreq(m))]
  BY DEF Write
<1>3. timex'.tick = NewTick(m) /\ timex'.freq = Clamped(NewFreq(m))
  <2>1. timex \in Timexes
    BY <1>1 DEF TypeOK
  <2> QED
    BY <1>2, <2>1 DEF Timexes
<1>4. UNCHANGED <<call, ret, got, search, probe, back>>
  BY DEF Write, probing
<1>5. /\ pc[m] = "write" /\ pc'[m] = ret[m] /\ ok'[m]
      /\ \A n \in Masters \ {m} : pc'[n] = pc[n] /\ ok'[n] = ok[n]
  <2>1. pc \in [Masters -> PCs] /\ ok \in [Masters -> BOOLEAN]
    BY <1>1 DEF TypeOK, PCs
  <2>2. /\ pc[m] = "write" /\ pc' = [pc EXCEPT ![m] = ret[m]]
        /\ ok' = [ok EXCEPT ![m] = TRUE]
    <3>1. Accepts(m) = TRUE
      BY Zenon DEF Accepts, InRange
    <3> QED
      BY <3>1 DEF Write
  <2> QED
    BY <2>1, <2>2
<1>6. \A n \in Masters : alone'[n] <=> (n = m /\ alone[n]) \/ pc[n] = "idle"
  <2>1. alone' = [n \in Masters |-> (n = m /\ alone[n]) \/ pc[n] = "idle"]
    BY Zenon DEF Write, Account
  <2> QED
    BY <2>1
<1>7. ASSUME NEW n \in Masters \ {m}, alone'[n] PROVE search[n] = "none"
  BY <1>6, <1>7 DEF IInv, Standing, Searching
<1>8. alone[m] => got[m].tick = timex.tick /\ got[m].freq = timex.freq
  BY <1>5 DEF Fresh
<1> QED
  BY <1>3, <1>4, <1>5, <1>6, <1>7, <1>8

LEMMA AcceptedFresh ==
    ASSUME IInv, Fresh, NEW m \in Masters, Write(m), Accepts(m)
    PROVE  Fresh'
<1>1. ASSUME NEW n \in Masters, pc'[n] = "write", alone'[n] PROVE FALSE
  <2>1. CASE n = m
    BY <1>1, <2>1, AcceptedWrite DEF IInv, TypeOK
  <2>2. CASE n # m
    <3>1. pc[n] = "write" /\ alone'[n] /\ pc[n] # "idle"
      BY <1>1, <2>2, AcceptedWrite
    <3>2. alone' = [k \in Masters |-> (k = m /\ alone[k]) \/ pc[k] = "idle"]
      BY Zenon DEF Write, Account
    <3> QED
      BY <2>2, <3>1, <3>2
  <2> QED
    BY <2>1, <2>2
<1> QED
  BY <1>1 DEF Fresh

(* How a write changes who holds what: only a try does, and a restoration. *)
LEMMA AcceptedHolds ==
    ASSUME IInv, Fresh, NEW m \in Masters, Write(m), Accepts(m)
    PROVE  /\ \A n \in Masters \ {m} :
                 (HoldsTick(n)' <=> HoldsTick(n)) /\ (HoldsFreq(n)' <=> HoldsFreq(n))
           /\ ret[m] \in {"next", "tried", "restored"}
           /\ search[m] = "none" <=> ret[m] = "next"
           /\ Holds(m) <=> ret[m] = "restored"
           /\ Holds(m)' <=> ret[m] = "tried"
<1>1. pc[m] = "write" /\ ret[m] \in {"next", "tried", "restored"} /\ Standing(m)
  BY AcceptedWrite DEF IInv, TypeOK
<1>2. ASSUME NEW n \in Masters \ {m}
      PROVE  (HoldsTick(n)' <=> HoldsTick(n)) /\ (HoldsFreq(n)' <=> HoldsFreq(n))
  BY AcceptedWrite DEF HoldsTick, HoldsFreq, Holds
<1>3. search[m] = "none" <=> ret[m] = "next"
  BY <1>1 DEF Standing, Searching
<1>4. (Holds(m) <=> ret[m] = "restored") /\ (Holds(m)' <=> ret[m] = "tried")
  BY <1>1, AcceptedWrite DEF Holds
<1> QED
  BY <1>1, <1>2, <1>3, <1>4

LEMMA Accounts ==
    ASSUME NEW m \in Masters, Write(m), Accepts(m)
    PROVE  LET c == call[m] IN
           /\ ret[m] # "next" =>
                 /\ want' = want
                 /\ exact'.tick => exact.tick /\ alone[m]
                 /\ exact'.freq => exact.freq /\ alone[m]
           /\ ret[m] = "next" =>
                 /\ want'.tick = c.us + IF c.adj_tick THEN want.tick ELSE 0
                 /\ want'.ppb = c.ppb + IF c.adj_freq THEN want.ppb ELSE 0
                 /\ want'.rounded = (IF c.adj_freq THEN want.rounded ELSE 0)
                                       + IF c.ppb = 0 THEN 0 ELSE 1
                 /\ exact'.tick /\ c.adj_tick => exact.tick /\ alone[m]
                 /\ exact'.freq => InRange(NewFreq(m))
                 /\ exact'.freq /\ c.adj_freq => exact.freq /\ alone[m]
<1> DEFINE c == call[m]
           user == ret[m] = "next"
           tick == IF user /\ ~c.adj_tick THEN TRUE ELSE exact.tick /\ alone[m]
           freq == IF user /\ ~c.adj_freq THEN InRange(NewFreq(m))
                   ELSE exact.freq /\ alone[m] /\ (user => InRange(NewFreq(m)))
           t == c.us + IF c.adj_tick THEN want.tick ELSE 0
           p == c.ppb + IF c.adj_freq THEN want.ppb ELSE 0
           r == (IF c.adj_freq THEN want.rounded ELSE 0) + IF c.ppb = 0 THEN 0 ELSE 1
<1>1. exact' = [tick |-> tick, freq |-> freq]
  BY Zenon DEF Write, Account
<1>2. want' = IF ~user THEN want ELSE [tick |-> t, ppb |-> p, rounded |-> r]
  BY Zenon DEF Write, Account
<1>3. (exact'.tick <=> tick) /\ (exact'.freq <=> freq)
  <2> HIDE DEF tick, freq
  <2> QED
    BY <1>1
<1>4. user => want'.tick = t /\ want'.ppb = p /\ want'.rounded = r
  <2> HIDE DEF t, p, r
  <2> QED
    BY <1>2
<1>5. ASSUME ret[m] # "next"
      PROVE  /\ want' = want
             /\ exact'.tick => exact.tick /\ alone[m]
             /\ exact'.freq => exact.freq /\ alone[m]
  BY <1>2, <1>3, <1>5, Zenon
<1>6. ASSUME ret[m] = "next"
      PROVE  /\ exact'.tick /\ c.adj_tick => exact.tick /\ alone[m]
             /\ exact'.freq => InRange(NewFreq(m))
             /\ exact'.freq /\ c.adj_freq => exact.freq /\ alone[m]
  BY <1>3, <1>6, Zenon
<1> QED
  BY <1>4, <1>5, <1>6

LEMMA AcceptedTick ==
    ASSUME IInv, Fresh, TickKept, NEW m \in Masters, Write(m), Accepts(m)
    PROVE  TickKept'
<1> SUFFICES ASSUME exact'.tick
             PROVE  /\ (\A n \in Masters : ~HoldsTick(n)') => timex'.tick = want'.tick
                    /\ \A n \in Masters :
                          /\ search'[n] # "none" /\ alone'[n]
                          /\ \A k \in Masters \ {n} : ~HoldsTick(k)'
                          => back'[n].tick = want'.tick
  BY DEF TickKept
<1>1. /\ timex'.tick = NewTick(m) /\ UNCHANGED <<search, back>> /\ pc[m] = "write"
      /\ \A n \in Masters \ {m} : alone'[n] => search[n] = "none"
      /\ alone[m] => got[m].tick = timex.tick
  BY AcceptedWrite
<1>2. /\ \A n \in Masters \ {m} : HoldsTick(n)' <=> HoldsTick(n)
      /\ ret[m] \in {"next", "tried", "restored"}
      /\ search[m] = "none" <=> ret[m] = "next"
      /\ Holds(m) <=> ret[m] = "restored"
      /\ Holds(m)' <=> ret[m] = "tried"
  BY AcceptedHolds
<1>3. CASE ret[m] = "next"
  <2>1. ASSUME \A n \in Masters : ~HoldsTick(n)'
        PROVE  timex'.tick = want'.tick
    <3>1. \A n \in Masters : ~HoldsTick(n)
      BY <1>2, <1>3, <2>1 DEF HoldsTick
    <3>2. /\ want'.tick = call[m].us + IF call[m].adj_tick THEN want.tick ELSE 0
          /\ call[m].adj_tick => exact.tick /\ alone[m]
      BY <1>3, Accounts
    <3>3. NewTick(m) = call[m].us + IF call[m].adj_tick THEN got[m].tick ELSE 0
      BY DEF NewTick
    <3>4. exact.tick => timex.tick = want.tick
      BY <3>1 DEF TickKept
    <3> QED
      BY <1>1, <3>2, <3>3, <3>4
  <2> QED
    BY <1>1, <1>2, <1>3, <2>1
<1>4. CASE ret[m] # "next"
  <2>1. want' = want /\ exact.tick /\ alone[m] /\ search[m] # "none"
    BY <1>2, <1>4, Accounts
  <2>2. ASSUME \A k \in Masters \ {m} : ~HoldsTick(k)'
        PROVE  back[m].tick = want.tick
    BY <1>2, <2>1, <2>2 DEF TickKept
  <2>3. ASSUME \A n \in Masters : ~HoldsTick(n)'
        PROVE  timex'.tick = want.tick
    <3>1. CASE search[m] \in {"max", "min"}
      <4>1. ret[m] = "restored"
        BY <1>2, <1>4, <1>1, <2>3, <3>1 DEF HoldsTick
      <4>2. NewTick(m) = back[m].tick
        BY <1>1, <3>1, <4>1, Settings
      <4> QED
        BY <1>1, <2>2, <2>3, <4>2
    <3>2. CASE search[m] \notin {"max", "min"}
      <4>1. NewTick(m) = got[m].tick
        BY <1>1, <1>4, <3>2, Settings
      <4>2. \A n \in Masters : ~HoldsTick(n)
        BY <1>2, <2>3, <3>2 DEF HoldsTick
      <4> QED
        BY <1>1, <2>1, <4>1, <4>2 DEF TickKept
    <3> QED
      BY <3>1, <3>2
  <2> QED
    BY <1>1, <2>1, <2>2, <2>3
<1> QED
  BY <1>3, <1>4

(* An adjustment in ppb strays by half a unit of the kernel's at most. *)
LEMMA Converted ==
    ASSUME NEW ppb \in Int
    PROVE  /\ ToQ16(ppb) \in Int
           /\ 2 * (PpbPerPpm * ToQ16(ppb) - Ppm * ppb) <= PpbPerPpm
           /\ -PpbPerPpm <= 2 * (PpbPerPpm * ToQ16(ppb) - Ppm * ppb)
           /\ ppb = 0 => ToQ16(ppb) = 0
<1>1. PpbPerPpm \in Nat /\ 0 < PpbPerPpm /\ Ppm * ppb \in Int
  BY Constants
<1>2. /\ ToQ16(ppb) \in Int
      /\ 2 * (PpbPerPpm * ToQ16(ppb) - Ppm * ppb) <= PpbPerPpm
      /\ -PpbPerPpm <= 2 * (PpbPerPpm * ToQ16(ppb) - Ppm * ppb)
  BY <1>1, Rounds DEF ToQ16
<1>3. ASSUME ppb = 0 PROVE ToQ16(ppb) = 0
  <2>1. Ppm * ppb = 0
    BY <1>3, Constants
  <2>2. ToQ16(ppb) = PpbPerPpm \div (2 * PpbPerPpm)
    BY <1>1, <2>1 DEF ToQ16, Round
  <2>3. \A d \in Nat : 0 < d => d \div (2 * d) = 0
    OBVIOUS
  <2> QED
    BY <1>1, <2>2, <2>3
<1> QED
  BY <1>2, <1>3

LEMMA ErrorsAdd ==
    ASSUME NEW d \in Nat, NEW u \in Int, NEW q \in Int, NEW p \in Int,
           NEW f \in Int, NEW w \in Int, NEW r \in Nat,
           2 * (d * q - u * p) <= d, -d <= 2 * (d * q - u * p),
           -(r * d) <= 2 * (d * f - u * w), 2 * (d * f - u * w) <= r * d
    PROVE  /\ -((r + 1) * d) <= 2 * (d * (q + f) - u * (p + w))
           /\ 2 * (d * (q + f) - u * (p + w)) <= (r + 1) * d
<1>1. /\ d * (q + f) = d * q + d * f /\ u * (p + w) = u * p + u * w
      /\ (r + 1) * d = r * d + d
  OBVIOUS
<1>2. /\ d * q \in Int /\ d * f \in Int /\ u * p \in Int /\ u * w \in Int /\ r * d \in Int
  OBVIOUS
<1> QED
  BY <1>1, <1>2

LEMMA UserFreq ==
    ASSUME IInv, Fresh, FreqKept, NEW m \in Masters, Write(m), Accepts(m),
           ret[m] = "next", exact'.freq, \A n \in Masters : ~HoldsFreq(n)
    PROVE  Close(timex.freq)'
<1> DEFINE c == call[m]
<1>1. /\ timex'.freq = Clamped(NewFreq(m)) /\ pc[m] = "write"
      /\ alone[m] => got[m].freq = timex.freq
  BY AcceptedWrite
<1>2. TypeOK /\ c \in HelperCalls /\ c.op = "tick_freq"
  BY <1>1 DEF IInv, Standing
<1>3. c.q16 = ToQ16(c.ppb) /\ c.ppb \in Int /\ c.adj_freq \in BOOLEAN
  BY <1>2 DEF HelperCalls, Calls
<1>4. /\ want'.ppb = c.ppb + IF c.adj_freq THEN want.ppb ELSE 0
      /\ want'.rounded = (IF c.adj_freq THEN want.rounded ELSE 0)
                            + IF c.ppb = 0 THEN 0 ELSE 1
      /\ InRange(NewFreq(m))
      /\ c.adj_freq => exact.freq /\ alone[m]
  BY Accounts
<1>5. timex'.freq = NewFreq(m)
  <2>1. NewFreq(m) \in Int
    BY <1>1, Settings
  <2> QED
    BY <1>1, <1>4, <2>1, Constants DEF InRange, Clamped
<1>6. NewFreq(m) = c.q16 + IF c.adj_freq THEN got[m].freq ELSE 0
  BY DEF NewFreq
<1> DEFINE d == PpbPerPpm
           q == c.q16
           p == c.ppb
           f == IF c.adj_freq THEN timex.freq ELSE 0
           w == IF c.adj_freq THEN want.ppb ELSE 0
           r == IF c.adj_freq THEN want.rounded ELSE 0
<1>7. /\ d \in Nat /\ Ppm \in Int /\ q \in Int /\ p \in Int
      /\ 2 * (d * q - Ppm * p) <= d /\ -d <= 2 * (d * q - Ppm * p)
      /\ p = 0 => q = 0
  <2> HIDE DEF c
  <2>1. /\ q \in Int
        /\ 2 * (PpbPerPpm * q - Ppm * p) <= PpbPerPpm
        /\ -PpbPerPpm <= 2 * (PpbPerPpm * q - Ppm * p)
        /\ p = 0 => q = 0
    BY <1>3, Converted
  <2> QED
    BY <1>3, <2>1, Constants
<1>8. f \in Int /\ w \in Int /\ r \in Nat
  BY <1>2, Constants DEF TypeOK, Timexes
<1>9. -(r * d) <= 2 * (d * f - Ppm * w) /\ 2 * (d * f - Ppm * w) <= r * d
  <2>1. CASE c.adj_freq
    <3>1. Close(timex.freq)
      BY <1>4, <2>1 DEF FreqKept
    <3> QED
      BY <2>1, <3>1 DEF Close
  <2>2. CASE ~c.adj_freq
    BY <1>7, <2>2
  <2> QED
    BY <2>1, <2>2
<1>10. /\ timex'.freq = q + f /\ want'.ppb = p + w
       /\ want'.rounded = r + IF p = 0 THEN 0 ELSE 1
  BY <1>1, <1>4, <1>5, <1>6, <1>7
<1> HIDE DEF c, d, q, p, f, w, r
<1>11. CASE p = 0
  <2>1. timex'.freq = f /\ want'.ppb = w /\ want'.rounded = r
    BY <1>7, <1>8, <1>10, <1>11
  <2> QED
    BY <1>9, <2>1 DEF Close, d
<1>12. CASE p # 0
  <2>1. want'.rounded = r + 1
    BY <1>10, <1>12
  <2>2. /\ -((r + 1) * d) <= 2 * (d * (q + f) - Ppm * (p + w))
        /\ 2 * (d * (q + f) - Ppm * (p + w)) <= (r + 1) * d
    BY <1>7, <1>8, <1>9, ErrorsAdd
  <2> QED
    BY <1>10, <2>1, <2>2 DEF Close, d
<1> QED
  BY <1>11, <1>12

LEMMA AcceptedFreq ==
    ASSUME IInv, Fresh, FreqKept, NEW m \in Masters, Write(m), Accepts(m)
    PROVE  FreqKept'
<1> SUFFICES ASSUME exact'.freq
             PROVE  /\ (\A n \in Masters : ~HoldsFreq(n)') => Close(timex.freq)'
                    /\ \A n \in Masters :
                          /\ search'[n] # "none" /\ alone'[n]
                          /\ \A k \in Masters \ {n} : ~HoldsFreq(k)'
                          => Close(back[n].freq)'
  BY DEF FreqKept
<1>1. /\ timex'.freq = Clamped(NewFreq(m)) /\ UNCHANGED <<search, back>>
      /\ pc[m] = "write"
      /\ \A n \in Masters \ {m} : alone'[n] => search[n] = "none"
      /\ alone[m] => got[m].freq = timex.freq
  BY AcceptedWrite
<1>2. /\ \A n \in Masters \ {m} : HoldsFreq(n)' <=> HoldsFreq(n)
      /\ ret[m] \in {"next", "tried", "restored"}
      /\ search[m] = "none" <=> ret[m] = "next"
      /\ Holds(m) <=> ret[m] = "restored"
      /\ Holds(m)' <=> ret[m] = "tried"
  BY AcceptedHolds
<1>3. CASE ret[m] = "next"
  <2>1. ASSUME \A n \in Masters : ~HoldsFreq(n)'
        PROVE  Close(timex.freq)'
    <3>1. \A n \in Masters : ~HoldsFreq(n)
      BY <1>2, <1>3, <2>1 DEF HoldsFreq
    <3> QED
      BY <1>3, <3>1, UserFreq
  <2> QED
    BY <1>1, <1>2, <1>3, <2>1
<1>4. CASE ret[m] # "next"
  <2>1. want' = want /\ exact.freq /\ alone[m] /\ search[m] # "none"
    BY <1>2, <1>4, Accounts
  <2>2. ASSUME \A k \in Masters \ {m} : ~HoldsFreq(k)'
        PROVE  Close(back[m].freq)
    BY <1>2, <2>1, <2>2 DEF FreqKept
  <2>3. ASSUME \A n \in Masters : ~HoldsFreq(n)'
        PROVE  Close(timex'.freq)
    <3>1. search[m] \in {"max", "min", "freq", "fine"}
      BY <2>1 DEF IInv, TypeOK, Searches
    <3>2. CASE search[m] \in {"freq", "fine"}
      <4>1. ret[m] = "restored"
        BY <1>1, <1>2, <1>4, <2>3, <3>2 DEF HoldsFreq
      <4>2. NewFreq(m) = back[m].freq /\ Clamped(NewFreq(m)) = NewFreq(m)
        BY <1>1, <3>2, <4>1, Settings, RestorationAccepted
      <4> QED
        BY <1>1, <2>2, <2>3, <4>2
    <3>3. CASE search[m] \in {"max", "min"}
      <4>1. NewFreq(m) = got[m].freq /\ got[m].freq \in -MaxFreq .. MaxFreq
        BY <1>1, <1>4, <3>3, Settings
      <4>2. Clamped(NewFreq(m)) = timex.freq
        BY <1>1, <2>1, <4>1, Constants DEF Clamped
      <4>3. \A n \in Masters : ~HoldsFreq(n)
        BY <1>2, <2>3, <3>3 DEF HoldsFreq
      <4> QED
        BY <1>1, <2>1, <4>2, <4>3 DEF FreqKept
    <3> QED
      BY <3>1, <3>2, <3>3
  <2> QED
    BY <1>1, <2>1, <2>2, <2>3 DEF Close
<1> QED
  BY <1>3, <1>4

LEMMA KeptStep ==
    IInv /\ Fresh /\ TickKept /\ FreqKept /\ [Next]_vars
       => Fresh' /\ TickKept' /\ FreqKept'
<1> SUFFICES ASSUME IInv, Fresh, TickKept, FreqKept, [Next]_vars
             PROVE  Fresh' /\ TickKept' /\ FreqKept'
  OBVIOUS
<1>1. CASE UNCHANGED vars
  <2>1. UNCHANGED <<timex, pc, got, ok, ret, search, back, want, exact, alone>>
    BY <1>1 DEF vars, kernel, settings, probing, ghosts
  <2>2. Fresh'
    BY <2>1 DEF Fresh
  <2>3. TickKept' /\ FreqKept'
    BY <2>1 DEF TickKept, FreqKept, Close, HoldsTick, HoldsFreq, Holds
  <2> QED
    BY <2>2, <2>3
<1>2. ASSUME NEW m \in Masters, Write(m) PROVE Fresh' /\ TickKept' /\ FreqKept'
  BY <1>2, RefusedKept, AcceptedFresh, AcceptedTick, AcceptedFreq
<1>3. ASSUME NEW m \in Masters, Run(m) \/ Steps(m), ~Write(m)
      PROVE  Fresh' /\ TickKept' /\ FreqKept'
  BY <1>3, CalmSteps, CalmKept DEF IInv
<1> QED
  BY <1>1, <1>2, <1>3 DEF Next

LEMMA KeptInit == Init => Fresh /\ TickKept /\ FreqKept
<1> SUFFICES ASSUME Init PROVE Fresh /\ TickKept /\ FreqKept
  OBVIOUS
<1>1. Fresh
  BY DEF Init, Fresh
<1>2. TickKept
  BY DEF Init, TickKept
<1>3. FreqKept
  <2>1. timex.freq = 0 /\ want.ppb = 0 /\ want.rounded = 0
    BY DEF Init
  <2>2. Close(timex.freq)
    BY <2>1, Constants DEF Close
  <2> QED
    BY <2>2 DEF Init, FreqKept
<1> QED
  BY <1>1, <1>2, <1>3

LEMMA Kept == Spec => [](Fresh /\ TickKept /\ FreqKept)
BY KeptInit, KeptStep, Invariance, PTL DEF Spec

-----------------------------------------------------------------------------
(* A whole number that a division comes close enough to is its rounding. *)
LEMMA Nearest ==
    ASSUME NEW n \in Int, NEW d \in Nat, NEW w \in Int,
           -d < 2 * (n - d * w), 2 * (n - d * w) < d
    PROVE  Round(n, d) = w
<1>1. 0 < d /\ d * w \in Int
  OBVIOUS
<1> DEFINE k == Round(n, d)
           x == k - w
<1>2. k \in Int /\ 2 * (d * k - n) <= d /\ -d <= 2 * (d * k - n)
  BY <1>1, Rounds
<1> HIDE DEF k
<1>3. x \in Int /\ d * k \in Int
  BY <1>2
<1>4. d * x = d * k - d * w
  BY <1>2
<1>5. d * x < d /\ -d < d * x
  <2> HIDE DEF x
  <2> QED
    BY <1>1, <1>2, <1>3, <1>4
<1>6. x = 0
  <2> HIDE DEF x
  <2>1. ASSUME NEW y \in Nat, NEW z \in Nat PROVE z * (1 + y) >= z
    OBVIOUS
  <2>2. CASE x >= 1
    <3>1. x - 1 \in Nat /\ d * (1 + (x - 1)) >= d
      BY <1>3, <2>1, <2>2
    <3> QED
      BY <1>3, <1>5, <3>1
  <2>3. CASE x <= -1
    <3>1. -x - 1 \in Nat /\ d * (1 + (-x - 1)) >= d
      BY <1>3, <2>1, <2>3
    <3>2. d * (1 + (-x - 1)) = -(d * x) /\ d * x \in Int
      BY <1>3
    <3> QED
      BY <1>5, <3>1, <3>2
  <2> QED
    BY <1>3, <2>2, <2>3
<1> QED
  BY <1>2, <1>6 DEF k

(* Reading tick and frequency and writing them back (adjtimex_helper.c:326-351)
   loses no adjustment of the tick, for any jobs of any masters, as long as
   no call falls between another's two. *)
THEOREM TicksAddUp == Spec => []TickAddsUp
<1>1. TickKept => TickAddsUp
  BY DEF TickKept, TickAddsUp, Quiet, HoldsTick
<1> QED
  BY Kept, <1>1, PTL

(* The same of the frequency: it strays from the sum of what was asked for by
   half a unit of the kernel's a call, so that adjtimex_get_freq
   (adjtimex_helper.c:315-319) gives that very sum for as many calls as the units
   allow. *)
THEOREM FrequenciesAddUp == Spec => []FrequencyAddsUp
<1>1. IInv /\ FreqKept => FrequencyAddsUp
  <2> SUFFICES ASSUME IInv, FreqKept, Quiet, exact.freq
               PROVE  LET error == PpbPerPpm * timex.freq - Ppm * want.ppb
                          bound == want.rounded * PpbPerPpm
                      IN  /\ -bound <= 2 * error /\ 2 * error <= bound
                          /\ bound < Ppm => GetFreq = want.ppb
    BY DEF FrequencyAddsUp
  <2>1. Close(timex.freq)
    BY DEF FreqKept, Quiet, HoldsFreq
  <2>2. timex.freq \in Int /\ want.ppb \in Int /\ want.rounded \in Nat
    BY Constants DEF IInv, TypeOK, Timexes
  <2>3. ASSUME want.rounded * PpbPerPpm < Ppm
        PROVE  ToPpb(timex.freq) = want.ppb
    <3> DEFINE n == PpbPerPpm * timex.freq
    <3>1. n \in Int /\ Ppm \in Nat /\ Ppm * want.ppb \in Int
          /\ want.rounded * PpbPerPpm \in Int
      BY <2>2, Constants
    <3>2. -Ppm < 2 * (n - Ppm * want.ppb) /\ 2 * (n - Ppm * want.ppb) < Ppm
      <4>1. /\ -(want.rounded * PpbPerPpm) <= 2 * (n - Ppm * want.ppb)
            /\ 2 * (n - Ppm * want.ppb) <= want.rounded * PpbPerPpm
        BY <2>1 DEF Close
      <4> HIDE DEF n
      <4> QED
        BY <2>3, <3>1, <4>1
    <3> HIDE DEF n
    <3>3. Round(n, Ppm) = want.ppb
      BY <2>2, <3>1, <3>2, Nearest
    <3> QED
      BY <3>3 DEF ToPpb, n
  <2> QED
    BY <2>1, <2>3 DEF Close, GetFreq
<1> QED
  BY Kept, Invariance, <1>1, PTL
=============================================================================
