--------------------------- MODULE PpsStatsProofs ---------------------------
(***************************************************************************)
(* Proofs about PpsStats, and about the statistics it has replaced, beside *)
(* it in BothStats, for every length of the buffer and set of offsets.     *)
(***************************************************************************)
EXTENDS BothStats, SumsProofs, SequenceTheorems, FiniteSetTheorems, TLAPS

LEMMA TypeInit == Init => TypeOK
<1> SUFFICES ASSUME Init PROVE TypeOK
  OBVIOUS
<1>1. 0 \in Slots /\ 0 \in Links /\ NIL \in Links
  BY LengthAssumption DEF Slots, Links, NIL
<1>2. /\ ns \in [Slots -> Int]
      /\ prev \in [Slots -> Links]
      /\ next \in [Slots -> Links]
  BY <1>1 DEF Init
<1> QED
  BY <1>1, <1>2 DEF Init, TypeOK

LEMMA TypeStep == TypeOK /\ [Next]_vars => TypeOK'
<1> SUFFICES ASSUME TypeOK, [Next]_vars PROVE TypeOK'
  OBVIOUS
<1> USE LengthAssumption, OffsetsAssumption DEF TypeOK, Slots, Links, NIL
<1>1. CASE Reset
  <2>1. 0 \in Slots /\ 0 \in Links /\ NIL \in Links
    OBVIOUS
  <2>2. /\ ns' \in [Slots -> Int]
        /\ prev' \in [Slots -> Links]
        /\ next' \in [Slots -> Links]
    BY <1>1, <2>1 DEF Reset
  <2> HIDE DEF Slots, Links, NIL
  <2> QED
    BY <1>1, <2>1, <2>2 DEF Reset, walk
<1>2. ASSUME NEW v \in Offsets, Update(v) PROVE TypeOK'
  BY <1>2 DEF Update, ring, list, cums, walk
<1>3. CASE Evict
  <2>1. cum' \in Int /\ cum2' \in Int
    <3>1. ns[oldest] \in Int
      OBVIOUS
    <3>2. ns[oldest] * ns[oldest] \in Int
      BY <3>1
    <3>3. cum' = cum - ns[oldest] /\ cum2' = cum2 - ns[oldest] * ns[oldest]
      BY <1>3, Zenon DEF Evict, Remove
    <3>4. cum \in Int /\ cum2 \in Int
      OBVIOUS
    <3> HIDE DEF TypeOK
    <3> QED
      BY <3>1, <3>2, <3>3, <3>4
  <2>2. lowest' \in Links /\ next' \in [Slots -> Links]
    BY <1>3 DEF Evict, Remove
  <2>3. highest' \in Links /\ prev' \in [Slots -> Links]
    BY <1>3 DEF Evict, Remove
  <2> QED
    BY <1>3, <2>1, <2>2, <2>3 DEF Evict, ring, walk
<1>4. CASE PlaceFirst
  BY <1>4 DEF PlaceFirst, Store, Advance
<1>5. CASE Place
  BY <1>5 DEF Place, Store, list
<1>6. CASE Walk
  BY <1>6 DEF Walk, Beyond, ring, list, cums
<1>7. CASE LinkLowest
  BY <1>7, SMTT(30) DEF LinkLowest, Advance, cums
<1>8. CASE LinkHighest
  BY <1>8, SMTT(30) DEF LinkHighest, Advance, cums
<1>9. CASE LinkBetween
  BY <1>9, SMTT(30) DEF LinkBetween, Advance, cums
<1>10. CASE UNCHANGED vars
  BY <1>10 DEF vars, ring, list, cums, walk
<1> QED
  BY <1>1, <1>2, <1>3, <1>4, <1>5, <1>6, <1>7, <1>8, <1>9, <1>10
     DEF Next, Steps, Link

(* The indexes stay in range and the links stay links in every buffer, the
   buffer of one cell included: pps_stats_remove and pps_stats_insert never
   store an index above length. *)
THEOREM TypeCorrect == Spec => []TypeOK
BY TypeInit, TypeStep, PTL DEF Spec

-----------------------------------------------------------------------------
(* The sorted list, away from the variables: L is a set of cells, B a set of
   pairs <<i, j>> where i comes before j, a strict total order on S. *)

Orders(B, S) ==
    /\ \A i \in S : <<i, i>> \notin B
    /\ \A i, j \in S : i # j => <<i, j>> \in B \/ <<j, i>> \in B
    /\ \A i, j, k \in S : <<i, j>> \in B /\ <<j, k>> \in B => <<i, k>> \in B

(* Unlinking one cell, as pps_stats_remove does, leaves the chain of the
   others. *)
LEMMA ChainRemove ==
    ASSUME NEW L \in SUBSET Slots, NEW B, Orders(B, L),
           NEW pv \in [Slots -> Links], NEW nx \in [Slots -> Links],
           NEW lo, NEW hi, Chain(L, B, pv, nx, lo, hi),
           NEW k \in L,
           NEW pv2, NEW nx2, NEW lo2, NEW hi2,
           IF lo = k THEN lo2 = nx[k] /\ nx2 = nx
                     ELSE lo2 = lo /\ nx2 = [nx EXCEPT ![pv[k]] = nx[k]],
           IF hi = k THEN hi2 = pv[k] /\ pv2 = pv
                     ELSE hi2 = hi /\ pv2 = [pv EXCEPT ![nx[k]] = pv[k]]
    PROVE  Chain(L \ {k}, B, pv2, nx2, lo2, hi2)
<1> NIL \notin Slots
  BY LengthAssumption DEF NIL, Slots
<1>1. /\ lo2 = IF lo = k THEN nx[k] ELSE lo
      /\ hi2 = IF hi = k THEN pv[k] ELSE hi
  OBVIOUS
<1>2. ASSUME NEW i \in L \ {k}
      PROVE  /\ nx2[i] = IF i = pv[k] THEN nx[k] ELSE nx[i]
             /\ pv2[i] = IF i = nx[k] THEN pv[k] ELSE pv[i]
  BY DEF Chain, MutualLinks, SortedEnds
<1>a. nx[k] # NIL => /\ nx[k] \in L \ {k}
                     /\ <<k, nx[k]>> \in B
                     /\ \A j \in L : ~(<<k, j>> \in B /\ <<j, nx[k]>> \in B)
  BY DEF Chain, MutualLinks, ImmediateSuccessor, Orders
<1>b. pv[k] # NIL => /\ pv[k] \in L \ {k}
                     /\ nx[pv[k]] = k
                     /\ <<pv[k], k>> \in B
                     /\ \A j \in L : ~(<<pv[k], j>> \in B /\ <<j, k>> \in B)
  <2>1. pv[k] # NIL => pv[k] \in L /\ nx[pv[k]] = k /\ k # NIL
    BY DEF Chain, MutualLinks
  <2> QED
    BY <2>1 DEF Chain, ImmediateSuccessor, Orders
<1>3. SortedEnds(L \ {k}, B, lo2, hi2)
  <2>1. lo2 \in (L \ {k}) \cup {NIL} /\ hi2 \in (L \ {k}) \cup {NIL}
    BY <1>1, <1>a, <1>b DEF Chain, SortedEnds
  <2>2. lo = k /\ hi = k => L = {k}
    <3> SUFFICES ASSUME lo = k, hi = k, NEW i \in L, i # k PROVE FALSE
      OBVIOUS
    <3>1. <<k, i>> \in B /\ <<i, k>> \in B
      BY DEF Chain, SortedEnds
    <3> QED
      BY <3>1 DEF Orders
  <2>3. (nx[k] = NIL <=> hi = k) /\ (pv[k] = NIL <=> lo = k)
    BY DEF Chain, MutualLinks
  <2>4. (lo2 = NIL <=> L \ {k} = {}) /\ (hi2 = NIL <=> L \ {k} = {})
    <3>1. lo2 = NIL => L \ {k} = {}
      BY <1>1, <2>2, <2>3 DEF Chain, SortedEnds
    <3>2. hi2 = NIL => L \ {k} = {}
      BY <1>1, <2>2, <2>3 DEF Chain, SortedEnds
    <3> QED
      BY <2>1, <3>1, <3>2
  <2>5. ASSUME NEW i \in L \ {k}, i # lo2 PROVE <<lo2, i>> \in B
    <3>1. CASE lo # k
      BY <1>1, <2>5, <3>1 DEF Chain, SortedEnds
    <3>2. CASE lo = k
      <4>1. <<k, i>> \in B
        BY <3>2 DEF Chain, SortedEnds
      <4>2. nx[k] # NIL
        BY <2>2, <2>3, <3>2
      <4> QED
        BY <1>1, <1>a, <2>5, <3>2, <4>1, <4>2 DEF Orders
    <3> QED
      BY <3>1, <3>2
  <2>6. ASSUME NEW i \in L \ {k}, i # hi2 PROVE <<i, hi2>> \in B
    <3>1. CASE hi # k
      BY <1>1, <2>6, <3>1 DEF Chain, SortedEnds
    <3>2. CASE hi = k
      <4>1. <<i, k>> \in B
        BY <3>2 DEF Chain, SortedEnds
      <4>2. pv[k] # NIL
        BY <2>2, <2>3, <3>2
      <4> QED
        BY <1>1, <1>b, <2>6, <3>2, <4>1, <4>2 DEF Orders
    <3> QED
      BY <3>1, <3>2
  <2> QED
    BY <2>1, <2>4, <2>5, <2>6 DEF SortedEnds
<1>4. MutualLinks(L \ {k}, pv2, nx2, lo2, hi2)
  <2> SUFFICES ASSUME NEW i \in L \ {k}
               PROVE  /\ pv2[i] \in (L \ {k}) \cup {NIL}
                      /\ nx2[i] \in (L \ {k}) \cup {NIL}
                      /\ pv2[i] = NIL <=> i = lo2
                      /\ nx2[i] = NIL <=> i = hi2
                      /\ pv2[i] # NIL => nx2[pv2[i]] = i
                      /\ nx2[i] # NIL => pv2[nx2[i]] = i
    BY DEF MutualLinks
  <2>1. /\ nx[k] # i => pv2[i] = pv[i] /\ pv[i] # k
        /\ pv[k] # i => nx2[i] = nx[i] /\ nx[i] # k
    BY <1>2 DEF Chain, MutualLinks
  <2>2. nx[k] # k /\ pv[k] # k /\ (nx[k] # NIL => nx[k] # pv[k])
    <3>1. nx[k] # k /\ pv[k] # k
      BY <1>a, <1>b
    <3>2. nx[k] # NIL /\ nx[k] = pv[k] => FALSE
      <4> SUFFICES ASSUME nx[k] # NIL, nx[k] = pv[k] PROVE FALSE
        OBVIOUS
      <4>1. nx[k] \in L /\ <<k, nx[k]>> \in B /\ <<nx[k], k>> \in B
        BY <1>a, <1>b
      <4> QED
        BY <4>1 DEF Orders
    <3> QED
      BY <3>1, <3>2
  <2>3. pv2[i] \in (L \ {k}) \cup {NIL} /\ nx2[i] \in (L \ {k}) \cup {NIL}
    BY <1>2, <2>1, <2>2 DEF Chain, MutualLinks
  <2>4. pv2[i] = NIL <=> i = lo2
    BY <1>1, <1>2, <2>1, <2>2 DEF Chain, MutualLinks
  <2>5. nx2[i] = NIL <=> i = hi2
    BY <1>1, <1>2, <2>1, <2>2 DEF Chain, MutualLinks
  <2>6. pv2[i] # NIL => nx2[pv2[i]] = i
    BY <1>2, <2>1, <2>2, <2>3 DEF Chain, MutualLinks
  <2>7. nx2[i] # NIL => pv2[nx2[i]] = i
    BY <1>2, <2>1, <2>2, <2>3 DEF Chain, MutualLinks
  <2> QED
    BY <2>3, <2>4, <2>5, <2>6, <2>7
<1>5. ImmediateSuccessor(L \ {k}, B, nx2)
  <2> SUFFICES ASSUME NEW i \in L \ {k}, nx2[i] # NIL
               PROVE  /\ <<i, nx2[i]>> \in B
                      /\ \A j \in L \ {k} :
                            ~(<<i, j>> \in B /\ <<j, nx2[i]>> \in B)
    BY DEF ImmediateSuccessor
  <2>1. CASE i # pv[k]
    BY <1>2, <2>1 DEF Chain, ImmediateSuccessor
  <2>2. CASE i = pv[k]
    <3>1. nx2[i] = nx[k] /\ nx[i] = k /\ nx[k] \in L /\ k # nx[k]
      BY <1>2, <2>2 DEF Chain, MutualLinks, ImmediateSuccessor, Orders
    <3>2. <<i, k>> \in B /\ <<k, nx[k]>> \in B
      BY <3>1 DEF Chain, ImmediateSuccessor, MutualLinks
    <3>3. ASSUME NEW j \in L \ {k}, <<i, j>> \in B, <<j, nx[k]>> \in B
          PROVE  FALSE
      <4>1. ~(<<j, k>> \in B) /\ ~(<<k, j>> \in B)
        BY <1>a, <1>b, <2>2, <3>1, <3>3
      <4> QED
        BY <4>1 DEF Orders
    <3> QED
      BY <3>1, <3>2, <3>3 DEF Orders
  <2> QED
    BY <2>1, <2>2
<1> QED
  BY <1>3, <1>4, <1>5 DEF Chain

(* Linking a new cell between two neighbours, as the three branches of
   pps_stats_insert do, gives the chain of all. *)
LEMMA ChainInsert ==
    ASSUME NEW L \in SUBSET Slots, L # {}, NEW k \in Slots \ L,
           NEW B, Orders(B, L \cup {k}),
           NEW pv \in [Slots -> Links], NEW nx \in [Slots -> Links],
           NEW lo, NEW hi, Chain(L, B, pv, nx, lo, hi),
           NEW p \in L \cup {NIL}, NEW q,
           q = IF p = NIL THEN lo ELSE nx[p],
           p # NIL => <<p, k>> \in B,
           q # NIL => <<k, q>> \in B
    PROVE  Chain(L \cup {k}, B,
                 [pv EXCEPT ![k] = p, ![q] = k],
                 [nx EXCEPT ![k] = q, ![p] = k],
                 IF p = NIL THEN k ELSE lo,
                 IF q = NIL THEN k ELSE hi)
<1> DEFINE pv2 == [pv EXCEPT ![k] = p, ![q] = k]
           nx2 == [nx EXCEPT ![k] = q, ![p] = k]
           lo2 == IF p = NIL THEN k ELSE lo
           hi2 == IF q = NIL THEN k ELSE hi
<1> NIL \notin Slots
  BY LengthAssumption DEF NIL, Slots
<1>1. ASSUME NEW i \in L
      PROVE  \/ p \in L /\ (i = p \/ <<i, p>> \in B) /\ <<i, k>> \in B
             \/ q \in L /\ (i = q \/ <<q, i>> \in B) /\ <<k, i>> \in B
  <2>1. CASE p = NIL
    <3>1. q \in L /\ <<k, q>> \in B /\ (i = q \/ <<q, i>> \in B)
      BY <2>1 DEF Chain, SortedEnds
    <3> QED
      BY <3>1 DEF Orders
  <2>2. CASE p # NIL /\ (i = p \/ <<i, p>> \in B)
    BY <2>2 DEF Orders
  <2>3. CASE p # NIL /\ i # p /\ <<p, i>> \in B
    <3>1. q \in L
      <4>1. q = NIL => i = p \/ <<i, p>> \in B
        BY <2>3 DEF Chain, SortedEnds, MutualLinks
      <4> QED
        BY <2>3, <4>1 DEF Chain, MutualLinks, Orders
    <3>2. ~(<<i, q>> \in B)
      BY <2>3, <3>1 DEF Chain, ImmediateSuccessor
    <3>3. <<k, q>> \in B /\ (i = q \/ <<q, i>> \in B)
      BY <3>1, <3>2 DEF Orders
    <3> QED
      BY <3>1, <3>3 DEF Orders
  <2> QED
    BY <2>1, <2>2, <2>3 DEF Orders
<1>2. /\ pv2 \in [Slots -> Links] /\ nx2 \in [Slots -> Links]
      /\ pv2[k] = p /\ nx2[k] = q
      /\ \A i \in L : /\ pv2[i] = IF i = q THEN k ELSE pv[i]
                      /\ nx2[i] = IF i = p THEN k ELSE nx[i]
  BY ZenonT(30) DEF Links, Chain, SortedEnds, MutualLinks
<1>3. q \in L \cup {NIL} /\ (p = NIL => q = lo) /\ (q = NIL => p = hi)
  BY DEF Chain, SortedEnds, MutualLinks
<1>4. /\ q # NIL => pv[q] = p
      /\ \A i \in L : (pv[i] = p <=> i = q) /\ (nx[i] = q <=> i = p)
  BY <1>3 DEF Chain, SortedEnds, MutualLinks
<1> HIDE DEF pv2, nx2
<1>5. SortedEnds(L \cup {k}, B, lo2, hi2)
  <2>1. lo2 \in L \cup {k} /\ hi2 \in L \cup {k}
    BY DEF Chain, SortedEnds
  <2>2. ASSUME NEW i \in L \cup {k}
        PROVE  (i # lo2 => <<lo2, i>> \in B) /\ (i # hi2 => <<i, hi2>> \in B)
    BY <1>1, <1>3, <2>1 DEF Chain, SortedEnds, Orders, MutualLinks
  <2> QED
    BY <2>1, <2>2 DEF SortedEnds
<1>6. MutualLinks(L \cup {k}, pv2, nx2, lo2, hi2)
  <2> SUFFICES ASSUME NEW i \in L \cup {k}
               PROVE  /\ pv2[i] \in (L \cup {k}) \cup {NIL}
                      /\ nx2[i] \in (L \cup {k}) \cup {NIL}
                      /\ pv2[i] = NIL <=> i = lo2
                      /\ nx2[i] = NIL <=> i = hi2
                      /\ pv2[i] # NIL => nx2[pv2[i]] = i
                      /\ nx2[i] # NIL => pv2[nx2[i]] = i
    BY DEF MutualLinks
  <2>1. CASE i = k
    BY <1>2, <1>3, <2>1 DEF Chain, MutualLinks, SortedEnds
  <2>2. CASE i # k
    BY <1>2, <1>3, <1>4, <2>2 DEF Chain, MutualLinks, SortedEnds
  <2> QED
    BY <2>1, <2>2
<1>7. ImmediateSuccessor(L \cup {k}, B, nx2)
  <2> SUFFICES ASSUME NEW i \in L \cup {k}, nx2[i] # NIL
               PROVE  /\ <<i, nx2[i]>> \in B
                      /\ \A j \in L \cup {k} :
                            ~(<<i, j>> \in B /\ <<j, nx2[i]>> \in B)
    BY DEF ImmediateSuccessor
  <2>1. CASE i = k
    BY <1>1, <1>2, <1>3, <2>1 DEF Orders, Chain, MutualLinks
  <2>2. CASE i = p
    <3>1. p \in L /\ nx2[i] = k /\ <<i, k>> \in B
      BY <1>2, <2>2
    <3>2. ASSUME NEW j \in L \cup {k}, <<i, j>> \in B, <<j, k>> \in B
          PROVE  FALSE
      <4>1. CASE j = k
        BY <3>2, <4>1 DEF Orders
      <4>2. CASE j \in L
        BY <1>1, <2>2, <3>1, <3>2, <4>2 DEF Orders
      <4> QED
        BY <4>1, <4>2
    <3> QED
      BY <3>1, <3>2
  <2>3. CASE i # k /\ i # p
    <3>1. i \in L /\ nx2[i] = nx[i] /\ nx[i] \in L /\ nx[i] # q
      BY <1>2, <1>4, <2>3 DEF Chain, MutualLinks
    <3>2. /\ <<i, nx[i]>> \in B
          /\ \A j \in L : ~(<<i, j>> \in B /\ <<j, nx[i]>> \in B)
      BY <3>1 DEF Chain, ImmediateSuccessor
    <3>3. ~(<<i, k>> \in B /\ <<k, nx[i]>> \in B)
      <4> SUFFICES ASSUME <<i, k>> \in B, <<k, nx[i]>> \in B PROVE FALSE
        OBVIOUS
      <4>1. p \in L /\ <<i, p>> \in B
        BY <1>1, <2>3, <3>1 DEF Orders
      <4>2. <<p, k>> \in B
        BY <4>1
      <4>3. <<p, nx[i]>> \in B
        BY <3>1, <4>1, <4>2 DEF Orders
      <4> QED
        BY <3>2, <4>1, <4>3
    <3> QED
      BY <3>1, <3>2, <3>3
  <2> QED
    BY <2>1, <2>2, <2>3
<1> QED
  BY <1>5, <1>6, <1>7 DEF Chain, pv2, nx2

(* A chain stays one when its order changes only outside its cells. *)
LEMMA ChainAgree ==
    ASSUME NEW L, NEW B, NEW B2, NEW pv, NEW nx, NEW lo, NEW hi,
           \A i, j \in L : <<i, j>> \in B <=> <<i, j>> \in B2,
           Chain(L, B, pv, nx, lo, hi)
    PROVE  Chain(L, B2, pv, nx, lo, hi)
<1>1. SortedEnds(L, B2, lo, hi)
  BY DEF Chain, SortedEnds
<1>2. ImmediateSuccessor(L, B2, nx)
  BY DEF Chain, ImmediateSuccessor, MutualLinks
<1> QED
  BY <1>1, <1>2 DEF Chain

(* What it is for a pair to be in the order. *)
LEMMA OrderPair ==
    ASSUME NEW f \in [Slots -> Int], NEW o \in Slots,
           NEW i \in Slots, NEW j \in Slots
    PROVE  <<i, j>> \in Order(f, o) <=>
             f[i] < f[j] \/ (f[i] = f[j] /\ WrittenBefore(i, j, o))
<1>1. <<i, j>> \in Slots \X Slots
  OBVIOUS
<1>2. <<i, j>>[1] = i /\ <<i, j>>[2] = j
  OBVIOUS
<1> QED
  BY <1>1, <1>2, Zenon DEF Order

(* The order of the list is strict and total, wherever the oldest cell is. *)
LEMMA OrderIsTotal ==
    ASSUME NEW f \in [Slots -> Int], NEW o \in Slots
    PROVE  Orders(Order(f, o), Slots)
<1>1. \A i, j \in Slots :
        <<i, j>> \in Order(f, o) <=>
            f[i] < f[j] \/ (f[i] = f[j] /\ WrittenBefore(i, j, o))
  BY OrderPair
<1>2. \A i \in Slots : ~WrittenBefore(i, i, o)
  BY LengthAssumption DEF WrittenBefore, Slots
<1>3. \A i, j \in Slots :
        i # j => WrittenBefore(i, j, o) \/ WrittenBefore(j, i, o)
  BY LengthAssumption DEF WrittenBefore, Slots
<1>4. \A i, j, k \in Slots :
        WrittenBefore(i, j, o) /\ WrittenBefore(j, k, o) =>
            WrittenBefore(i, k, o)
  BY LengthAssumption DEF WrittenBefore, Slots
<1>5. \A i \in Slots : f[i] \in Int
  OBVIOUS
<1>6. \A i, j \in Slots : i # j => <<i, j>> \in Order(f, o) \/ <<j, i>> \in Order(f, o)
  BY <1>1, <1>3, <1>5
<1>7. ASSUME NEW i \in Slots, NEW j \in Slots, NEW k \in Slots,
             <<i, j>> \in Order(f, o), <<j, k>> \in Order(f, o)
      PROVE  <<i, k>> \in Order(f, o)
  BY <1>1, <1>4, <1>5, <1>7
<1> QED
  BY <1>1, <1>2, <1>5, <1>6, <1>7 DEF Orders

(* The cell that follows cell o in the buffer. *)
Following(o) == IF o + 1 = Length THEN 0 ELSE o + 1

(* When pps_stats_update moves on from cell o, the order of the other cells
   is unchanged and cell o becomes the newest: last among equal offsets. *)
LEMMA OrderFollowing ==
    ASSUME NEW f \in [Slots -> Int], NEW o \in Slots
    PROVE  /\ \A i, j \in Slots \ {o} :
                <<i, j>> \in Order(f, Following(o)) <=> <<i, j>> \in Order(f, o)
           /\ \A i \in Slots \ {o} :
                /\ <<i, o>> \in Order(f, Following(o)) <=> f[i] <= f[o]
                /\ <<o, i>> \in Order(f, Following(o)) <=> f[o] < f[i]
<1> DEFINE p == Following(o)
<1>1. p \in Slots
  BY LengthAssumption DEF Following, Slots
<1>2. \A i, j \in Slots : \A q \in {o, p} :
        <<i, j>> \in Order(f, q) <=>
            f[i] < f[j] \/ (f[i] = f[j] /\ WrittenBefore(i, j, q))
  BY <1>1, OrderPair
<1>3. \A i, j \in Slots \ {o} : WrittenBefore(i, j, p) <=> WrittenBefore(i, j, o)
  BY LengthAssumption DEF WrittenBefore, Slots, Following
<1>4. \A i \in Slots \ {o} : WrittenBefore(i, o, p) /\ ~WrittenBefore(o, i, p)
  BY LengthAssumption DEF WrittenBefore, Slots, Following
<1>5. \A i \in Slots : f[i] \in Int
  OBVIOUS
<1> HIDE DEF p
<1>6. \A i, j \in Slots \ {o} :
        <<i, j>> \in Order(f, p) <=> <<i, j>> \in Order(f, o)
  BY <1>2, <1>3
<1>7. \A i \in Slots \ {o} : /\ <<i, o>> \in Order(f, p) <=> f[i] <= f[o]
                             /\ <<o, i>> \in Order(f, p) <=> f[o] < f[i]
  BY <1>2, <1>4, <1>5
<1> QED
  BY <1>6, <1>7 DEF p

-----------------------------------------------------------------------------
(* The inductive invariant: the list is sorted at every step of an update, and
   the loop of pps_stats_insert stands between two neighbours. *)
IInv == TypeOK /\ SortedList /\ LoopInvariant

(* Where the loop of pps_stats_insert stops is where the new cell belongs. *)
LEMMA LoopExit ==
    ASSUME IInv, pc = "walk", ~Beyond
    PROVE  /\ nxt = lowest <=> at = NIL
           /\ nxt = NIL => at = highest
           /\ lowest # NIL /\ highest # NIL
           /\ oldest \notin Listed
           /\ Chain(Listed \cup {oldest}, Order(ns, Following(oldest)),
                    [prev EXCEPT ![oldest] = at, ![nxt] = oldest],
                    [next EXCEPT ![oldest] = nxt, ![at] = oldest],
                    IF at = NIL THEN oldest ELSE lowest,
                    IF nxt = NIL THEN oldest ELSE highest)
<1> DEFINE B == Order(ns, oldest)
           B2 == Order(ns, Following(oldest))
<1> NIL \notin Slots /\ Listed \subseteq Slots
  BY LengthAssumption DEF NIL, Slots, Listed, Live, IInv, TypeOK
<1>1. /\ TypeOK
      /\ Chain(Listed, B, prev, next, lowest, highest)
      /\ ns[oldest] = x
      /\ Listed # {}
      /\ at \in Listed \cup {NIL}
      /\ nxt = IF at = NIL THEN lowest ELSE next[at]
      /\ at # NIL => ns[at] <= x
  BY DEF IInv, SortedList, LoopInvariant
<1>2. oldest \in Slots \ Listed /\ Following(oldest) \in Slots
  BY <1>1, LengthAssumption DEF TypeOK, Listed, Following, Slots
<1> HIDE DEF B, B2
<1>3. lowest # NIL /\ highest # NIL
  BY <1>1 DEF Chain, SortedEnds
<1>4. nxt = lowest <=> at = NIL
  BY <1>1, <1>3 DEF Chain, SortedEnds, MutualLinks
<1>5. nxt = NIL => at = highest
  BY <1>1, <1>3 DEF Chain, MutualLinks
<1>6. nxt \in Listed \cup {NIL}
  BY <1>1 DEF Chain, MutualLinks, SortedEnds
<1>7. Chain(Listed, B2, prev, next, lowest, highest)
  <2>1. \A i, j \in Listed : <<i, j>> \in B <=> <<i, j>> \in B2
    BY <1>1, <1>2, OrderFollowing DEF B, B2, TypeOK
  <2> QED
    BY <1>1, <2>1, ChainAgree
<1>8. at # NIL => <<at, oldest>> \in B2
  BY <1>1, <1>2, OrderFollowing DEF B2, TypeOK
<1>9. nxt # NIL => <<oldest, nxt>> \in B2
  <2> SUFFICES ASSUME nxt # NIL PROVE <<oldest, nxt>> \in B2
    OBVIOUS
  <2>1. nxt \in Slots \ {oldest}
    BY <1>2, <1>6
  <2>2. ns[oldest] < ns[nxt]
    BY <1>1, <1>2, <2>1 DEF Beyond, TypeOK
  <2> QED
    BY <1>1, <1>2, <2>1, <2>2, OrderFollowing DEF B2, TypeOK
<1>10. Orders(B2, Listed \cup {oldest})
  <2>1. Orders(B2, Slots)
    BY <1>1, <1>2, OrderIsTotal DEF B2, TypeOK
  <2> QED
    BY <1>2, <2>1 DEF Orders
<1>11. prev \in [Slots -> Links] /\ next \in [Slots -> Links]
  BY <1>1 DEF TypeOK
<1>12. Chain(Listed \cup {oldest}, B2,
             [prev EXCEPT ![oldest] = at, ![nxt] = oldest],
             [next EXCEPT ![oldest] = nxt, ![at] = oldest],
             IF at = NIL THEN oldest ELSE lowest,
             IF nxt = NIL THEN oldest ELSE highest)
  BY <1>1, <1>2, <1>7, <1>8, <1>9, <1>10, <1>11, ChainInsert
<1> QED
  BY <1>2, <1>3, <1>4, <1>5, <1>12 DEF B2

LEMMA IInvInit == Init => IInv
<1> SUFFICES ASSUME Init PROVE IInv
  OBVIOUS
<1>1. TypeOK
  BY TypeInit
<1>2. Listed = {}
  BY DEF Init, Listed, Live
<1>3. SortedList
  BY <1>2 DEF Init, SortedList, Chain, SortedEnds, MutualLinks, ImmediateSuccessor
<1>4. LoopInvariant
  BY DEF Init, LoopInvariant
<1> QED
  BY <1>1, <1>3, <1>4 DEF IInv

(* The case of the buffer of one cell is left out: there the list is lost, as
   the run pps_stats_one_cell shows. *)
LEMMA IInvStep ==
    ASSUME Length # 1, IInv, [Next]_vars PROVE IInv'
<1>1. TypeOK /\ TypeOK'
  BY TypeStep DEF IInv
<1> DEFINE L == Listed
           B == Order(ns, oldest)
<1>2. /\ Chain(Listed, Order(ns, oldest), prev, next, lowest, highest)
      /\ LoopInvariant
  BY DEF IInv, SortedList
<1>3. NIL \notin Slots /\ Listed \subseteq Slots
  BY <1>1, LengthAssumption DEF NIL, Slots, Listed, Live, TypeOK
<1> USE <1>1
<1>4. CASE Reset
  <2>1. Listed' = {}
    BY <1>4 DEF Reset, Listed, Live
  <2>2. SortedList'
    BY <1>4, <2>1 DEF Reset, SortedList, Chain, SortedEnds, MutualLinks, ImmediateSuccessor
  <2>3. LoopInvariant'
    BY <1>4 DEF Reset, LoopInvariant
  <2> QED
    BY <2>2, <2>3 DEF IInv
<1>5. ASSUME NEW v \in Offsets, Update(v) PROVE IInv'
  <2>1. Listed' = Listed
    <3>1. oldest \notin 0 .. oldest - 1
      BY DEF TypeOK, Slots
    <3>2. Live' = Live /\ pc = "idle" /\ pc' = IF full THEN "evict" ELSE "place"
      BY <1>5 DEF Update, Live, ring
    <3>3. oldest' = oldest
      BY <1>5 DEF Update, ring
    <3> QED
      BY <3>1, <3>2, <3>3 DEF Listed, Live
  <2>2. SortedList'
    BY <1>2, <1>5, <2>1 DEF Update, SortedList, ring, list
  <2>3. LoopInvariant'
    BY <1>5 DEF Update, LoopInvariant
  <2> QED
    BY <2>2, <2>3 DEF IInv
<1>6. CASE Evict
  <2>1. Listed = Slots /\ Listed' = Listed \ {oldest} /\ oldest \in Listed
    BY <1>6 DEF Evict, Listed, Live, ring, TypeOK
  <2>2. Orders(Order(ns, oldest), Listed)
    BY <2>1, OrderIsTotal DEF TypeOK
  <2>3. Chain(Listed \ {oldest}, Order(ns, oldest), prev', next', lowest', highest')
    <3>1. /\ Listed \in SUBSET Slots
          /\ prev \in [Slots -> Links] /\ next \in [Slots -> Links]
      BY <2>1 DEF TypeOK
    <3>2. /\ IF lowest = oldest
             THEN lowest' = next[oldest] /\ next' = next
             ELSE lowest' = lowest /\ next' = [next EXCEPT ![prev[oldest]] = next[oldest]]
          /\ IF highest = oldest
             THEN highest' = prev[oldest] /\ prev' = prev
             ELSE highest' = highest /\ prev' = [prev EXCEPT ![next[oldest]] = prev[oldest]]
      BY <1>6 DEF Evict, Remove
    <3> QED
      BY <1>2, <2>1, <2>2, <3>1, <3>2, ChainRemove
  <2>4. SortedList'
    BY <1>6, <2>1, <2>3 DEF Evict, SortedList, ring
  <2>5. LoopInvariant'
    BY <1>6 DEF Evict, LoopInvariant
  <2> QED
    BY <2>4, <2>5 DEF IInv
<1>7. CASE PlaceFirst
  <2>1. oldest = 0 /\ full = FALSE /\ Length > 1
    BY <1>7, LengthAssumption DEF PlaceFirst, HeldLength, TypeOK
  <2>2. oldest' = 1 /\ full' = FALSE /\ pc' = "idle"
    <3>1. oldest + 1 = 1 /\ ~(oldest + 1 = Length)
      BY <2>1
    <3>2. Advance
      BY <1>7 DEF PlaceFirst
    <3> QED
      BY <2>1, <3>1, <3>2, Zenon DEF Advance
  <2>3. Listed' = {0}
    BY <2>2 DEF Listed, Live
  <2>4. /\ lowest' = 0 /\ highest' = 0
        /\ prev'[0] = NIL /\ next'[0] = NIL
    BY <1>7, <2>1 DEF PlaceFirst, TypeOK
  <2>5. SortedList'
    BY <1>3, <2>1, <2>3, <2>4
       DEF SortedList, Chain, SortedEnds, MutualLinks, ImmediateSuccessor, Slots, NIL
  <2>6. LoopInvariant'
    BY <2>2 DEF LoopInvariant
  <2> QED
    BY <2>5, <2>6 DEF IInv
<1>8. CASE Place
  <2>1. Listed' = Listed /\ oldest \notin Listed
    BY <1>8, <1>3 DEF Place, Listed, Live
  <2>2. Listed # {}
    <3>1. CASE full
      <4>1. Length > 1
        BY LengthAssumption
      <4>2. 0 \in Slots /\ 1 \in Slots
        BY <4>1, LengthAssumption DEF Slots
      <4> QED
        BY <1>8, <3>1, <4>2 DEF Place, Listed, Live
    <3>2. CASE ~full
      <4>1. 0 \in 0 .. oldest - 1 /\ oldest # 0
        BY <1>8, <3>2, LengthAssumption DEF Place, HeldLength, TypeOK, Slots
      <4> QED
        BY <1>8, <3>2, <4>1 DEF Place, Listed, Live
    <3> QED
      BY <3>1, <3>2
  <2>3. \A i, j \in Listed :
          <<i, j>> \in Order(ns, oldest) <=> <<i, j>> \in Order(ns', oldest)
    <3>1. \A i \in Listed : ns'[i] = ns[i]
      BY <1>8, <1>3, <2>1 DEF Place, Store, TypeOK
    <3>2. ns' \in [Slots -> Int] /\ ns \in [Slots -> Int] /\ oldest \in Slots
      BY DEF TypeOK
    <3> SUFFICES ASSUME NEW i \in Listed, NEW j \in Listed
                 PROVE  <<i, j>> \in Order(ns, oldest) <=> <<i, j>> \in Order(ns', oldest)
      OBVIOUS
    <3>3. i \in Slots /\ j \in Slots
      BY <1>3
    <3>4. <<i, j>> \in Order(ns, oldest) <=>
            ns[i] < ns[j] \/ (ns[i] = ns[j] /\ WrittenBefore(i, j, oldest))
      BY <3>2, <3>3, OrderPair
    <3>5. <<i, j>> \in Order(ns', oldest) <=>
            ns'[i] < ns'[j] \/ (ns'[i] = ns'[j] /\ WrittenBefore(i, j, oldest))
      BY <3>2, <3>3, OrderPair
    <3> QED
      BY <3>1, <3>4, <3>5
  <2>4. Chain(Listed, Order(ns', oldest), prev, next, lowest, highest)
    BY <1>2, <2>3, ChainAgree
  <2>5. SortedList'
    BY <1>8, <2>1, <2>4 DEF Place, SortedList, list
  <2>6. LoopInvariant'
    BY <1>8, <2>1, <2>2 DEF Place, Store, LoopInvariant, TypeOK, list
  <2> QED
    BY <2>5, <2>6 DEF IInv
<1>9. CASE Walk
  <2>1. Listed' = Listed
    BY <1>9 DEF Walk, Listed, Live, ring
  <2>2. SortedList'
    BY <1>2, <1>9, <2>1 DEF Walk, SortedList, ring, list
  <2>3. nxt \in Listed /\ nxt # NIL /\ ns[nxt] <= x
    <3>1. nxt \in Listed \cup {NIL}
      BY <1>2, <1>9 DEF Walk, LoopInvariant, Chain, SortedEnds, MutualLinks
    <3> QED
      BY <1>3, <1>9, <3>1 DEF Walk, Beyond, TypeOK
  <2>4. LoopInvariant'
    BY <1>2, <1>9, <2>1, <2>3 DEF Walk, LoopInvariant, ring, list
  <2> QED
    BY <2>2, <2>4 DEF IInv
<1>10. CASE Link
  <2>1. pc = "walk" /\ ~Beyond /\ Advance
    BY <1>10 DEF Link, LinkLowest, LinkHighest, LinkBetween
  <2>2. oldest' = Following(oldest) /\ ns' = ns /\ pc' = "idle"
    BY <1>10 DEF Link, LinkLowest, LinkHighest, LinkBetween, Advance, Following, cums
  <2>3. Listed' = Listed \cup {oldest}
    <3>1. Live' = IF full' THEN Slots ELSE 0 .. oldest' - 1
      BY DEF Live
    <3>2. Listed' = Live' /\ Listed = Live \ {oldest}
      BY <2>1, <2>2 DEF Listed
    <3>3. CASE full
      BY <2>1, <3>1, <3>2, <3>3 DEF Advance, Live, TypeOK
    <3>4. CASE ~full
      <4>1. Listed = 0 .. oldest - 1
        BY <3>2, <3>4 DEF Live, TypeOK, Slots
      <4>2. CASE oldest + 1 = Length
        <5>1. full' /\ Live' = Slots
          BY <2>1, <3>1, <4>2 DEF Advance
        <5> QED
          BY <3>2, <4>1, <4>2, <5>1, LengthAssumption, SMTT(30) DEF Slots, TypeOK
      <4>3. CASE oldest + 1 # Length
        <5>1. ~full' /\ oldest' = oldest + 1
          BY <2>1, <3>4, <4>3 DEF Advance
        <5> QED
          BY <3>1, <3>2, <4>1, <5>1 DEF Slots, TypeOK
      <4> QED
        BY <4>2, <4>3
    <3> QED
      BY <3>3, <3>4
  <2>4. /\ prev' = [prev EXCEPT ![oldest] = at, ![nxt] = oldest]
        /\ next' = [next EXCEPT ![oldest] = nxt, ![at] = oldest]
        /\ lowest' = IF at = NIL THEN oldest ELSE lowest
        /\ highest' = IF nxt = NIL THEN oldest ELSE highest
    <3>1. oldest # NIL /\ oldest # lowest /\ oldest # highest /\ oldest # at
      BY <1>2, <1>3, <2>1, LoopExit DEF TypeOK, Chain, SortedEnds, LoopInvariant
    <3>2. CASE LinkLowest
      <4>1. at = NIL /\ nxt = lowest /\ lowest # NIL
        BY <2>1, <3>2, LoopExit DEF LinkLowest
      <4>2. /\ prev' = [prev EXCEPT ![lowest] = oldest, ![oldest] = NIL]
            /\ next' = [next EXCEPT ![oldest] = lowest]
            /\ lowest' = oldest /\ highest' = highest
        BY <3>2 DEF LinkLowest
      <4>3. prev' = [prev EXCEPT ![oldest] = NIL, ![lowest] = oldest]
        BY <3>1, <4>2 DEF TypeOK
      <4>4. next' = [next EXCEPT ![oldest] = lowest, ![NIL] = oldest]
        BY <1>3, <4>2 DEF TypeOK
      <4> QED
        BY <4>1, <4>2, <4>3, <4>4
    <3>3. CASE LinkHighest
      BY <1>3, <2>1, <3>1, <3>3, LoopExit, ZenonT(30) DEF LinkHighest, TypeOK
    <3>4. CASE LinkBetween
      BY <1>3, <2>1, <3>1, <3>4, LoopExit DEF LinkBetween, TypeOK
    <3> QED
      BY <1>10, <3>2, <3>3, <3>4 DEF Link
  <2>5. SortedList'
    BY <2>1, <2>2, <2>3, <2>4, LoopExit DEF SortedList
  <2>6. LoopInvariant'
    BY <2>2 DEF LoopInvariant
  <2> QED
    BY <2>5, <2>6 DEF IInv
<1>11. CASE UNCHANGED vars
  BY <1>11 DEF vars, ring, list, cums, walk, IInv, SortedList, LoopInvariant,
               Listed, Live
<1> QED
  BY <1>4, <1>5, <1>6, <1>7, <1>8, <1>9, <1>10, <1>11 DEF Next, Steps

(* The list of a buffer of two cells or more is sorted, complete and doubly
   linked after any sequence of updates and resets, and at every step of
   pps_stats_remove and pps_stats_insert. *)
THEOREM ListAlwaysSorted ==
    ASSUME Length # 1 PROVE Spec => [](SortedList /\ LoopInvariant)
<1>1. Init => IInv
  BY IInvInit
<1>2. IInv /\ [Next]_vars => IInv'
  BY IInvStep
<1>3. IInv => SortedList /\ LoopInvariant
  BY DEF IInv
<1> QED
  BY <1>1, <1>2, <1>3, PTL DEF Spec

(* In a buffer of two cells or more, no assertion of pps_stats_remove or
   pps_stats_insert fails, and no link leads them to write offset[length]. *)
THEOREM UpdatesAreSafe ==
    ASSUME Length # 1 PROVE Spec => []UpdateSafe
<1>1. Init => IInv
  BY IInvInit
<1>2. IInv /\ [Next]_vars => IInv'
  BY IInvStep
<1>3. IInv => UpdateSafe
  <2> SUFFICES ASSUME IInv PROVE UpdateSafe
    OBVIOUS
  <2>1. /\ TypeOK
        /\ Chain(Listed, Order(ns, oldest), prev, next, lowest, highest)
    BY DEF IInv, SortedList
  <2>2. NIL \notin Slots /\ Listed \subseteq Slots
    BY <2>1, LengthAssumption DEF NIL, Slots, Listed, Live, TypeOK
  <2>3. pc = "evict" => Listed = Slots /\ oldest \in Listed
    BY <2>1 DEF TypeOK, Listed, Live
  <2>4. pc = "evict" => /\ lowest = oldest <=> prev[oldest] = NIL
                        /\ highest = oldest <=> next[oldest] = NIL
                        /\ prev[oldest] \in Listed \cup {NIL}
                        /\ next[oldest] \in Listed \cup {NIL}
    BY <2>1, <2>3 DEF Chain, MutualLinks
  <2>5. pc = "place" /\ HeldLength = 0 => Listed = {}
    BY <2>1, LengthAssumption DEF HeldLength, Listed, Live, TypeOK
  <2>a. pc = "walk" /\ ~Beyond => /\ nxt = lowest <=> at = NIL
                                  /\ nxt = NIL => at = highest
                                  /\ lowest # NIL /\ highest # NIL
    BY LoopExit
  <2>b. Listed = {} => lowest = NIL /\ highest = NIL
    BY <2>1 DEF Chain, SortedEnds
  <2>6. Assertions
    <3>1. pc = "evict" => /\ lowest = oldest => prev[oldest] = NIL
                          /\ highest = oldest => next[oldest] = NIL
      BY <2>4
    <3>2. pc = "place" /\ HeldLength = 0 => lowest = NIL /\ highest = NIL
      BY <2>5, <2>b
    <3>3. pc = "walk" /\ ~Beyond => /\ nxt = lowest => at = NIL
                                    /\ nxt # lowest /\ nxt = NIL => at = highest
      BY <2>a
    <3> QED
      BY <3>1, <3>2, <3>3 DEF Assertions
  <2>7. pc = "walk" => at \in Listed \cup {NIL}
    BY DEF IInv, LoopInvariant
  <2>8. lowest \in Listed \cup {NIL} /\ highest \in Listed \cup {NIL}
    BY <2>1 DEF Chain, SortedEnds
  <2>9. WritesInBounds
    <3>1. pc = "evict" => /\ lowest # oldest => prev[oldest] \in Slots
                          /\ highest # oldest => next[oldest] \in Slots
      BY <2>2, <2>4
    <3>2. pc = "walk" /\ ~Beyond =>
            IF nxt = lowest THEN lowest \in Slots
            ELSE IF nxt = NIL THEN highest \in Slots ELSE at \in Slots
      BY <2>2, <2>7, <2>8, <2>a
    <3> QED
      BY <3>1, <3>2 DEF WritesInBounds
  <2> QED
    BY <2>6, <2>9 DEF UpdateSafe
<1> QED
  BY <1>1, <1>2, <1>3, PTL DEF Spec

-----------------------------------------------------------------------------
(* The buffer implements the sliding window. *)

(* Reading cells of the buffer, round its end. *)
LEMMA HeldFromIsSeq ==
    ASSUME NEW f \in [Slots -> Int],
           NEW start \in Slots, NEW count \in 0 .. Length
    PROVE  /\ HeldFrom(f, start, count) \in Seq(Int)
           /\ Len(HeldFrom(f, start, count)) = count
           /\ \A n \in 1 .. count :
                HeldFrom(f, start, count)[n] =
                    f[IF start + n - 1 < Length THEN start + n - 1
                      ELSE start + n - 1 - Length]
<1>1. count \in Nat
  BY LengthAssumption
<1>2. \A n \in 1 .. count :
        f[IF start + n - 1 < Length THEN start + n - 1
          ELSE start + n - 1 - Length] \in Int
  BY LengthAssumption DEF Slots
<1> QED
  BY <1>1, <1>2 DEF HeldFrom

(* Overwriting the oldest cell of a full buffer drops the oldest offset. *)
LEMMA OverwriteSlides ==
    ASSUME NEW f \in [Slots -> Int], NEW o \in Slots, NEW v \in Int
    PROVE  HeldFrom([f EXCEPT ![o] = v], Following(o), Length) =
               Append(Tail(HeldFrom(f, o, Length)), v)
<1> DEFINE g == [f EXCEPT ![o] = v]
           p == Following(o)
           w == HeldFrom(f, o, Length)
           w2 == HeldFrom(g, p, Length)
<1>1. /\ p \in Slots /\ Length \in Nat \ {0} /\ Length \in 0 .. Length
      /\ g \in [Slots -> Int]
  BY LengthAssumption DEF Following, Slots
<1>2. /\ w \in Seq(Int) /\ Len(w) = Length
      /\ \A n \in 1 .. Length :
           w[n] = f[IF o + n - 1 < Length THEN o + n - 1 ELSE o + n - 1 - Length]
  BY <1>1, HeldFromIsSeq
<1>3. /\ w2 \in Seq(Int) /\ Len(w2) = Length
      /\ \A n \in 1 .. Length :
           w2[n] = g[IF p + n - 1 < Length THEN p + n - 1 ELSE p + n - 1 - Length]
  BY <1>1, HeldFromIsSeq
<1> HIDE DEF w, w2
<1>4. ASSUME NEW n \in 1 .. Length - 1 PROVE w2[n] = w[n + 1]
  <2> DEFINE i == IF p + n - 1 < Length THEN p + n - 1 ELSE p + n - 1 - Length
             j == IF o + n < Length THEN o + n ELSE o + n - Length
  <2>1. i = j /\ i \in Slots \ {o}
    BY LengthAssumption DEF Following, Slots
  <2>2. w2[n] = g[i] /\ w[n + 1] = f[j]
    <3>1. n \in 1 .. Length /\ n + 1 \in 1 .. Length /\ o + (n + 1) - 1 = o + n
      BY <1>1 DEF Slots
    <3> QED
      BY <1>2, <1>3, <3>1, SMTT(30)
  <2> QED
    BY <2>1, <2>2
<1>5. w2[Length] = v
  <2>1. (IF p + Length - 1 < Length THEN p + Length - 1 ELSE p + Length - 1 - Length) = o
    BY LengthAssumption DEF Following, Slots
  <2> QED
    BY <1>1, <1>3, <2>1
<1>6. /\ Append(Tail(w), v) \in Seq(Int)
      /\ Len(Append(Tail(w), v)) = Length
      /\ \A n \in 1 .. Length :
            Append(Tail(w), v)[n] = IF n = Length THEN v ELSE w[n + 1]
  <2>1. w # << >>
    BY <1>1, <1>2
  <2>2. /\ Tail(w) \in Seq(Int)
        /\ Len(Tail(w)) = Length - 1
        /\ \A n \in 1 .. Length - 1 : Tail(w)[n] = w[n + 1]
    BY <1>1, <1>2, <2>1
  <2> QED
    BY <1>1, <2>2
<1>7. \A n \in 1 .. Length : w2[n] = Append(Tail(w), v)[n]
  BY <1>1, <1>4, <1>5, <1>6
<1>8. w2 = Append(Tail(w), v)
  BY <1>3, <1>6, <1>7, SeqEqual
<1> QED
  BY <1>8 DEF w, w2

(* Writing the next cell of a buffer that is not full adds an offset. *)
LEMMA WriteAppends ==
    ASSUME NEW f \in [Slots -> Int], NEW o \in Slots, NEW v \in Int
    PROVE  HeldFrom([f EXCEPT ![o] = v], 0, o + 1) =
               Append(HeldFrom(f, 0, o), v)
<1> DEFINE g == [f EXCEPT ![o] = v]
           w == HeldFrom(f, 0, o)
           w2 == HeldFrom(g, 0, o + 1)
<1>1. /\ 0 \in Slots /\ o \in 0 .. Length /\ o + 1 \in 0 .. Length /\ o \in Nat
      /\ g \in [Slots -> Int]
  BY LengthAssumption DEF Slots
<1>2. /\ w \in Seq(Int) /\ Len(w) = o
      /\ \A n \in 1 .. o :
           w[n] = f[IF 0 + n - 1 < Length THEN 0 + n - 1 ELSE 0 + n - 1 - Length]
  BY <1>1, HeldFromIsSeq
<1>3. /\ w2 \in Seq(Int) /\ Len(w2) = o + 1
      /\ \A n \in 1 .. o + 1 :
           w2[n] = g[IF 0 + n - 1 < Length THEN 0 + n - 1 ELSE 0 + n - 1 - Length]
  BY <1>1, HeldFromIsSeq
<1> HIDE DEF w, w2
<1>4. ASSUME NEW n \in 1 .. o PROVE w2[n] = w[n]
  <2>1. 0 + n - 1 < Length /\ 0 + n - 1 \in Slots \ {o}
    BY LengthAssumption DEF Slots
  <2>2. n \in 1 .. o + 1
    BY <1>1
  <2> QED
    BY <1>2, <1>3, <2>1, <2>2
<1>5. w2[o + 1] = v
  <2>1. 0 + (o + 1) - 1 = o /\ o < Length /\ o + 1 \in 1 .. o + 1
    BY <1>1, LengthAssumption DEF Slots
  <2> QED
    BY <1>3, <2>1
<1>6. /\ Append(w, v) \in Seq(Int)
      /\ Len(Append(w, v)) = o + 1
      /\ \A n \in 1 .. o + 1 : Append(w, v)[n] = IF n = o + 1 THEN v ELSE w[n]
  <2>1. w \in Seq(Int) /\ Len(w) = o
    BY <1>2
  <2>2. /\ Append(w, v) \in Seq(Int)
        /\ Len(Append(w, v)) = Len(w) + 1
        /\ \A n \in 1 .. Len(w) : Append(w, v)[n] = w[n]
        /\ Append(w, v)[Len(w) + 1] = v
    BY <2>1, AppendProperties
  <2>3. ASSUME NEW n \in 1 .. o + 1
        PROVE  Append(w, v)[n] = IF n = o + 1 THEN v ELSE w[n]
    BY <1>1, <2>1, <2>2
  <2> QED
    BY <2>1, <2>2, <2>3
<1>7. \A n \in 1 .. o + 1 : w2[n] = Append(w, v)[n]
  BY <1>1, <1>4, <1>5, <1>6
<1>8. w2 = Append(w, v)
  <2>1. \A n \in 1 .. Len(w2) : w2[n] = Append(w, v)[n]
    BY <1>3, <1>7
  <2>2. Len(w2) = Len(Append(w, v))
    BY <1>3, <1>6
  <2> QED
    BY <1>3, <1>6, <2>1, <2>2, SeqEqual
<1> QED
  BY <1>8 DEF w, w2

(* An offset that is placed is pushed in the window. *)
LEMMA PlacedIsPushed ==
    ASSUME TypeOK, PlaceFirst \/ Place
    PROVE  /\ Sliding!Push(x)
           /\ x \in Offsets
           /\ Window \in Seq(Int)
           /\ Len(Window) = Length <=> full
<1>1. /\ ns \in [Slots -> Int] /\ oldest \in Slots /\ x \in Int
      /\ oldest \in 0 .. Length /\ 0 \in Slots /\ Length \in 0 .. Length
  BY LengthAssumption DEF TypeOK, Slots
<1>2. CASE PlaceFirst
  <2>1. /\ ns' = [ns EXCEPT ![oldest] = x] /\ pc' = "idle" /\ x \in Offsets
        /\ ~full /\ oldest = 0 /\ Window = HeldFrom(ns, 0, 0)
    BY <1>2, LengthAssumption
       DEF PlaceFirst, Store, Advance, HeldLength, Window, TypeOK
  <2>2. Window' = HeldFrom(ns', 0, 1)
    <3>1. CASE oldest + 1 = Length
      <4>1. full' /\ oldest' = 0
        BY <1>2, <3>1, Zenon DEF PlaceFirst, Advance
      <4>2. Length = 1
        BY <2>1, <3>1
      <4> QED
        BY <2>1, <4>1, <4>2 DEF Window
    <3>2. CASE oldest + 1 # Length
      <4>1. ~full' /\ oldest' = oldest + 1
        BY <1>2, <2>1, <3>2, Zenon DEF PlaceFirst, Advance
      <4>2. oldest + 1 = 1
        BY <2>1
      <4> QED
        BY <2>1, <4>1, <4>2 DEF Window
    <3> QED
      BY <3>1, <3>2
  <2>3. Window' = Append(Window, x)
    <3>1. HeldFrom([ns EXCEPT ![oldest] = x], 0, oldest + 1) =
              Append(HeldFrom(ns, 0, oldest), x)
      BY <1>1, WriteAppends
    <3>2. oldest + 1 = 1
      BY <2>1
    <3> QED
      BY <2>1, <2>2, <3>1, <3>2, Zenon
  <2>4. Len(Window) # Length /\ Window \in Seq(Int)
    <3>1. Len(HeldFrom(ns, 0, oldest)) = oldest /\ HeldFrom(ns, 0, oldest) \in Seq(Int)
      BY <1>1, HeldFromIsSeq
    <3> QED
      BY <2>1, <3>1, LengthAssumption
  <2> QED
    BY <2>1, <2>3, <2>4 DEF Sliding!Push
<1>3. CASE Place
  <2>1. /\ ns' = [ns EXCEPT ![oldest] = x] /\ x \in Offsets
        /\ pc = "place" /\ pc' = "walk"
        /\ oldest' = oldest /\ full' = full
    BY <1>3 DEF Place, Store, TypeOK
  <2>2. CASE full
    <3>1. Window = HeldFrom(ns, oldest, Length)
      BY <2>1, <2>2 DEF Window
    <3>2. Window' = HeldFrom(ns', Following(oldest), Length)
      BY <2>1, <2>2 DEF Window, Following
    <3>3. Window' = Append(Tail(Window), x)
      BY <1>1, <2>1, <3>1, <3>2, OverwriteSlides
    <3>4. Len(Window) = Length /\ Window \in Seq(Int)
      BY <1>1, <3>1, HeldFromIsSeq
    <3> QED
      BY <2>1, <2>2, <3>3, <3>4 DEF Sliding!Push
  <2>3. CASE ~full
    <3>1. Window = HeldFrom(ns, 0, oldest)
      BY <2>1, <2>3 DEF Window
    <3>2. Window' = HeldFrom(ns', 0, oldest + 1)
      BY <2>1, <2>3 DEF Window
    <3>3. Window' = Append(Window, x)
      BY <1>1, <2>1, <3>1, <3>2, WriteAppends
    <3>4. Len(Window) # Length /\ Window \in Seq(Int)
      <4>1. Len(Window) = oldest /\ Window \in Seq(Int)
        BY <1>1, <3>1, HeldFromIsSeq
      <4> QED
        BY <1>1, <4>1 DEF Slots
    <3> QED
      BY <2>1, <2>3, <3>3, <3>4 DEF Sliding!Push
  <2> QED
    BY <2>2, <2>3
<1> QED
  BY <1>2, <1>3

(* Nothing else but a reset changes it. *)
LEMMA WindowKept ==
    ASSUME TypeOK,
           (\E v \in Offsets : Update(v)) \/ Evict \/ Walk \/ Link \/ UNCHANGED vars
    PROVE  UNCHANGED Window
<1>1. ASSUME NEW v \in Offsets, Update(v) PROVE UNCHANGED Window
  BY <1>1 DEF Update, Window, ring
<1>2. CASE Evict
  BY <1>2 DEF Evict, Window, ring
<1>3. CASE Walk
  BY <1>3 DEF Walk, Window, ring
<1>4. CASE Link
  <2>1. pc = "walk" /\ pc' = "idle" /\ ns' = ns /\ Advance
    BY <1>4 DEF Link, LinkLowest, LinkHighest, LinkBetween, Advance, cums
  <2>2. CASE full \/ oldest + 1 = Length
    <3>1. full'
      BY <2>1, <2>2 DEF Advance
    <3>2. Window = HeldFrom(ns, Following(oldest), Length)
      BY <2>1, <2>2 DEF Window, Following
    <3>3. Window' = HeldFrom(ns', oldest', Length)
      BY <2>1, <3>1 DEF Window
    <3> QED
      BY <2>1, <3>2, <3>3 DEF Advance, Following
  <2>3. CASE ~(full \/ oldest + 1 = Length)
    <3>1. ~full' /\ oldest' = oldest + 1
      BY <2>1, <2>3 DEF Advance
    <3> QED
      BY <2>1, <2>3, <3>1 DEF Window
  <2> QED
    BY <2>2, <2>3
<1>5. CASE UNCHANGED vars
  BY <1>5 DEF vars, ring, Window
<1> QED
  BY <1>1, <1>2, <1>3, <1>4, <1>5

LEMMA ResetEmpties == Reset => Window' = << >>
<1> SUFFICES ASSUME Reset PROVE Window' = << >>
  OBVIOUS
<1>1. Window' = HeldFrom(ns', 0, 0)
  BY DEF Reset, Window
<1>2. HeldFrom(ns', 0, 0) = << >>
  BY DEF HeldFrom
<1> QED
  BY <1>1, <1>2

(* Every step of the buffer is a step of the window or leaves it alone. *)
LEMMA StepSlides ==
    ASSUME TypeOK, [Next]_vars PROVE [Sliding!Next]_Window
<1>1. CASE Reset
  BY <1>1, ResetEmpties DEF Sliding!Next, Sliding!Clear
<1>2. CASE PlaceFirst \/ Place
  BY <1>2, PlacedIsPushed DEF Sliding!Next
<1>3. CASE ~Reset /\ ~(PlaceFirst \/ Place)
  BY <1>3, WindowKept DEF Next, Steps
<1> QED
  BY <1>1, <1>2, <1>3

(* The circular buffer implements the sliding window, whatever its length: an
   update drops the oldest offset, and only when the buffer is full. *)
THEOREM SlidingCorrect == Spec => ImplementsSlidingWindow
<1>1. Init => Sliding!Init
  BY DEF Init, Sliding!Init, Window, HeldFrom
<1>2. TypeOK /\ [Next]_vars => [Sliding!Next]_Window
  BY StepSlides
<1>3. Spec => []TypeOK
  BY TypeCorrect
<1> QED
  BY <1>1, <1>2, <1>3, PTL DEF Spec, ImplementsSlidingWindow, Sliding!Spec

-----------------------------------------------------------------------------
(* The running sums are those of the window, but for the offset that
   pps_stats_remove has just taken out. *)

LEMMA SameSum == \A f : \A k : M!SumTo(f, k) = SumTo(f, k)
BY DEF M!SumTo, SumTo

Square(w) == [i \in DOMAIN w |-> w[i] * w[i]]

LEMMA TotalIs ==
    \A w : M!Total(w) = SumTo(w, Len(w)) /\ M!Squares(w) = SumTo(Square(w), Len(w))
BY SameSum DEF M!Total, M!Squares, Square

LEMMA SquareOf ==
    ASSUME NEW w \in Seq(Int)
    PROVE  /\ DOMAIN w = 1 .. Len(w) /\ Len(w) \in Nat
           /\ \A i \in 1 .. Len(w) : /\ w[i] \in Int
                                     /\ Square(w)[i] = w[i] * w[i]
                                     /\ Square(w)[i] \in Int
<1>1. DOMAIN w = 1 .. Len(w) /\ Len(w) \in Nat
  BY LenProperties
<1>2. \A i \in 1 .. Len(w) : w[i] \in Int
  BY <1>1, ElementOfSeq
<1>3. \A i \in 1 .. Len(w) : Square(w)[i] = w[i] * w[i]
  BY <1>1 DEF Square
<1> QED
  BY <1>1, <1>2, <1>3

LEMMA TotalType ==
    ASSUME NEW w \in Seq(Int)
    PROVE  M!Total(w) \in Int /\ M!Squares(w) \in Int
<1>1. Len(w) \in Nat /\ Len(w) \in 0 .. Len(w)
  BY LenProperties
<1> QED
  BY <1>1, SquareOf, SumType, TotalIs

LEMMA TotalAppend ==
    ASSUME NEW w \in Seq(Int), NEW v \in Int
    PROVE  /\ M!Total(Append(w, v)) = M!Total(w) + v
           /\ M!Squares(Append(w, v)) = M!Squares(w) + v * v
<1> DEFINE u == Append(w, v)
           k == Len(w)
<1>1. /\ k \in Nat /\ u \in Seq(Int) /\ Len(u) = k + 1 /\ u[k + 1] = v
      /\ \A i \in 1 .. k : u[i] = w[i]
  BY LenProperties, AppendProperties
<1> HIDE DEF u
<1>2. Square(u)[k + 1] = v * v /\ \A i \in 1 .. k : Square(u)[i] = Square(w)[i]
  <2>1. Square(u)[k + 1] = u[k + 1] * u[k + 1]
    BY <1>1, SquareOf
  <2>2. ASSUME NEW i \in 1 .. k PROVE Square(u)[i] = Square(w)[i]
    <3>1. i \in 1 .. k + 1
      BY <1>1
    <3>2. Square(u)[i] = u[i] * u[i] /\ Square(w)[i] = w[i] * w[i]
      BY <1>1, <3>1, SquareOf
    <3> QED
      BY <1>1, <3>2
  <2> QED
    BY <1>1, <2>1, <2>2
<1> HIDE DEF k
<1>3. SumTo(u, k) = SumTo(w, k) /\ SumTo(Square(u), k) = SumTo(Square(w), k)
  BY <1>1, <1>2, SumSame
<1>4. /\ SumTo(u, k + 1) = SumTo(u, k) + u[k + 1]
      /\ SumTo(Square(u), k + 1) = SumTo(Square(u), k) + Square(u)[k + 1]
  BY <1>1, SumStep
<1>5. /\ M!Total(w) = SumTo(w, k) /\ M!Squares(w) = SumTo(Square(w), k)
      /\ M!Total(u) = SumTo(u, k + 1) /\ M!Squares(u) = SumTo(Square(u), k + 1)
  BY <1>1, TotalIs DEF k
<1> QED
  BY <1>1, <1>2, <1>3, <1>4, <1>5 DEF u

LEMMA TotalTail ==
    ASSUME NEW w \in Seq(Int), w # << >>
    PROVE  /\ Tail(w) \in Seq(Int)
           /\ M!Total(Tail(w)) = M!Total(w) - w[1]
           /\ M!Squares(Tail(w)) = M!Squares(w) - w[1] * w[1]
<1> DEFINE u == Tail(w)
           k == Len(w) - 1
<1>1. /\ k \in Nat /\ Len(w) = k + 1 /\ u \in Seq(Int) /\ Len(u) = k
      /\ \A i \in 1 .. k : u[i] = w[i + 1]
  BY LenProperties, HeadTailProperties, EmptySeq
<1> HIDE DEF u, k
<1>2. \A i \in 1 .. k + 1 : w[i] \in Int /\ Square(w)[i] \in Int
                            /\ Square(w)[i] = w[i] * w[i]
  BY <1>1, SquareOf
<1>3. ASSUME NEW i \in 1 .. k PROVE Square(u)[i] = Square(w)[i + 1]
  <2>1. i + 1 \in 1 .. k + 1
    BY <1>1
  <2>2. Square(u)[i] = u[i] * u[i] /\ Square(w)[i + 1] = w[i + 1] * w[i + 1]
    BY <1>1, <1>2, <2>1, SquareOf
  <2> QED
    BY <1>1, <2>2
<1>4. /\ SumTo(w, k + 1) = w[1] + SumTo(u, k)
      /\ SumTo(Square(w), k + 1) = Square(w)[1] + SumTo(Square(u), k)
  BY <1>1, <1>2, <1>3, SumFirst
<1>5. /\ M!Total(u) = SumTo(u, k) /\ M!Squares(u) = SumTo(Square(u), k)
      /\ M!Total(w) = SumTo(w, k + 1) /\ M!Squares(w) = SumTo(Square(w), k + 1)
  BY <1>1, TotalIs
<1>6. M!Total(u) \in Int /\ M!Squares(u) \in Int /\ 1 \in 1 .. k + 1
  BY <1>1, TotalType
<1>7. /\ M!Total(u) = M!Total(w) - w[1]
      /\ M!Squares(u) = M!Squares(w) - Square(w)[1]
  BY <1>2, <1>4, <1>5, <1>6
<1>8. Square(w)[1] = w[1] * w[1]
  BY <1>2, <1>6
<1> QED
  BY <1>1, <1>7, <1>8 DEF u

LEMMA TotalEmpty == M!Total(<< >>) = 0 /\ M!Squares(<< >>) = 0
<1>1. Len(<< >>) = 0
  OBVIOUS
<1> QED
  BY <1>1, SumStep, TotalIs

Kept == IF full /\ pc = "place" THEN Tail(Window) ELSE Window

RunningSums == cum = M!Total(Kept) /\ cum2 = M!Squares(Kept)

LEMMA RunningSumsStep ==
    ASSUME TypeOK, RunningSums, [Next]_vars PROVE RunningSums'
<1>1. /\ ns \in [Slots -> Int] /\ oldest \in Slots /\ x \in Int
      /\ oldest \in 0 .. Length /\ 0 \in Slots /\ Length \in 0 .. Length
      /\ Length \in Nat /\ 0 < Length
  BY LengthAssumption DEF TypeOK, Slots
<1>2. CASE Reset
  BY <1>2, ResetEmpties, TotalEmpty DEF Reset, RunningSums, Kept
<1>3. ASSUME NEW v \in Offsets, Update(v) PROVE RunningSums'
  <2>1. Window' = Window
    BY <1>3, WindowKept
  <2>2. Kept = Window /\ Kept' = Window
    <3>1. pc = "idle" /\ full' = full /\ pc' = IF full THEN "evict" ELSE "place"
      BY <1>3 DEF Update, ring
    <3> QED
      BY <2>1, <3>1 DEF Kept
  <2> QED
    BY <1>3, <2>2 DEF Update, RunningSums, cums
<1>4. CASE Evict
  <2>1. /\ pc = "evict" /\ full /\ full' = full /\ pc' = "place"
        /\ Window' = Window
    BY <1>4, WindowKept DEF Evict, TypeOK, ring
  <2>2. Window = HeldFrom(ns, oldest, Length)
    BY <2>1 DEF Window
  <2>3. /\ Window \in Seq(Int) /\ Window # << >> /\ Window[1] = ns[oldest]
    <3> DEFINE w == HeldFrom(ns, oldest, Length)
    <3>1. /\ w \in Seq(Int) /\ Len(w) = Length
          /\ \A n \in 1 .. Length :
               w[n] = ns[IF oldest + n - 1 < Length THEN oldest + n - 1
                         ELSE oldest + n - 1 - Length]
      BY <1>1, HeldFromIsSeq
    <3>2. 1 \in 1 .. Length /\ oldest + 1 - 1 = oldest /\ oldest < Length
      BY <1>1 DEF Slots
    <3> HIDE DEF w
    <3>3. w[1] = ns[oldest]
      BY <3>1, <3>2
    <3>4. w # << >>
      BY <1>1, <3>1
    <3> QED
      BY <2>2, <3>1, <3>3, <3>4 DEF w
  <2>4. Kept = Window /\ Kept' = Tail(Window)
    BY <2>1 DEF Kept
  <2>5. cum' = cum - ns[oldest] /\ cum2' = cum2 - ns[oldest] * ns[oldest]
    BY <1>4 DEF Evict, Remove
  <2> QED
    BY <2>3, <2>4, <2>5, TotalTail DEF RunningSums
<1>5. CASE PlaceFirst \/ Place
  <2>1. /\ Sliding!Push(x) /\ Window \in Seq(Int) /\ (Len(Window) = Length <=> full)
    BY <1>5, PlacedIsPushed
  <2>2. pc = "place" /\ pc' # "place" /\ cum' = cum + x /\ cum2' = cum2 + x * x
    BY <1>5 DEF PlaceFirst, Place, Store, Advance
  <2>3. Kept' = Window' /\ Window' = Append(Kept, x)
    BY <2>1, <2>2 DEF Kept, Sliding!Push
  <2>4. Kept \in Seq(Int)
    <3>1. CASE full
      <4>1. Window # << >>
        BY <1>1, <2>1, <3>1
      <4> QED
        BY <2>1, <2>2, <3>1, <4>1, TotalTail DEF Kept
    <3>2. CASE ~full
      BY <2>1, <3>2 DEF Kept
    <3> QED
      BY <3>1, <3>2
  <2>5. M!Total(Kept)' = M!Total(Kept') /\ M!Squares(Kept)' = M!Squares(Kept')
    OBVIOUS
  <2> QED
    BY <1>1, <2>2, <2>3, <2>4, <2>5, TotalAppend DEF RunningSums
<1>6. CASE Walk \/ Link \/ UNCHANGED vars
  <2>1. Window' = Window
    BY <1>6, WindowKept
  <2>2. Kept' = Kept
    <3>1. CASE Walk \/ Link
      <4>1. pc = "walk" /\ pc' # "place"
        BY <3>1 DEF Walk, Link, LinkLowest, LinkHighest, LinkBetween, Advance
      <4> QED
        BY <2>1, <4>1 DEF Kept
    <3>2. CASE UNCHANGED vars
      BY <2>1, <3>2 DEF Kept, vars, ring
    <3> QED
      BY <1>6, <3>1, <3>2
  <2>3. cums' = cums
    BY <1>6 DEF Walk, Link, LinkLowest, LinkHighest, LinkBetween, vars
  <2> QED
    BY <2>2, <2>3 DEF RunningSums, cums
<1> QED
  BY <1>2, <1>3, <1>4, <1>5, <1>6 DEF Next, Steps

LEMMA RunningSumsInit == Init => RunningSums
<1> SUFFICES ASSUME Init PROVE RunningSums
  OBVIOUS
<1>1. Kept = << >>
  <2>1. Window = HeldFrom(ns, 0, 0)
    BY DEF Init, Window
  <2> QED
    BY <2>1 DEF Init, Kept, HeldFrom
<1> QED
  BY <1>1, TotalEmpty DEF Init, RunningSums

-----------------------------------------------------------------------------
(* The loops from the newest offset to older ones read the window backwards. *)

(* The cell n places before the newest, round the start of the buffer. *)
Rank(n) ==
    IF Newest - (n - 1) >= 0 THEN Newest - (n - 1)
    ELSE Newest - (n - 1) + HeldLength

LEMMA Held ==
    ASSUME TypeOK
    PROVE  /\ Length \in Nat /\ Length > 0 /\ HeldLength \in 0 .. Length
           /\ oldest \in 0 .. Length - 1
           /\ HeldLength > 0 => Newest \in 0 .. HeldLength - 1
           /\ full => Newest = IF oldest = 0 THEN Length - 1 ELSE oldest - 1
           /\ ~full /\ oldest > 0 => Newest = oldest - 1
           /\ HeldLength = IF full THEN Length ELSE oldest
BY LengthAssumption DEF TypeOK, HeldLength, Newest, Slots

LEMMA BackIs ==
    ASSUME TypeOK, NEW k \in 1 .. HeldLength
    PROVE  \A n \in 1 .. k : Back(k)[n] = Rank(n)
<1> DEFINE Solves(g) ==
        g = [n \in 1 .. k |-> IF n = 1 THEN Newest ELSE Older(g[n - 1])]
           cell == CHOOSE g : Solves(g)
           c == [n \in 1 .. k |-> Rank(n)]
           body == [n \in 1 .. k |-> IF n = 1 THEN Newest ELSE Older(c[n - 1])]
<1>1. /\ HeldLength \in Nat /\ k \in Nat /\ k >= 1 /\ k <= HeldLength
      /\ Newest \in 0 .. HeldLength - 1
  BY Held
<1>2. Rank(1) = Newest
  BY <1>1 DEF Rank
<1>3. ASSUME NEW n \in 2 .. k PROVE Rank(n) = Older(Rank(n - 1))
  BY <1>1 DEF Rank, Older
<1>4. \A n \in 1 .. k : c[n] = body[n]
  BY <1>1, <1>2, <1>3
<1>5. Solves(c)
  <2>1. c = body
    <3>1. c = [n \in 1 .. k |-> c[n]] /\ body = [n \in 1 .. k |-> body[n]]
      OBVIOUS
    <3> HIDE DEF c, body
    <3> QED
      BY <1>4, <3>1
  <2> QED
    BY <2>1
<1>6. Solves(cell)
  BY <1>5
<1>7. Back(k) = cell
  BY DEF Back
<1> HIDE DEF cell
<1> DEFINE S == {n \in Nat : n + 1 \in 1 .. k => cell[n + 1] = Rank(n + 1)}
<1>8. 0 \in S
  BY <1>1, <1>2, <1>6
<1>9. ASSUME NEW n \in 0 .. k - 1, n \in S PROVE n + 1 \in S
  <2> SUFFICES ASSUME (n + 1) + 1 \in 1 .. k
               PROVE  cell[(n + 1) + 1] = Rank((n + 1) + 1)
    BY <1>1
  <2>1. n + 1 \in 1 .. k /\ (n + 1) + 1 \in 2 .. k /\ ((n + 1) + 1) - 1 = n + 1
    BY <1>1
  <2>2. cell[n + 1] = Rank(n + 1)
    BY <1>9, <2>1
  <2>3. cell[(n + 1) + 1] = Older(cell[n + 1])
    BY <1>6, <2>1
  <2>4. Rank((n + 1) + 1) = Older(Rank(n + 1))
    BY <1>3, <2>1
  <2> QED
    BY <2>2, <2>3, <2>4
<1>10. 0 .. k \subseteq S
  <2> HIDE DEF S
  <2> QED
    BY <1>1, <1>8, <1>9, BoundedInduction
<1> SUFFICES ASSUME NEW n \in 1 .. k PROVE cell[n] = Rank(n)
  BY <1>7
<1>11. n - 1 \in 0 .. k /\ (n - 1) + 1 = n
  BY <1>1
<1> QED
  BY <1>10, <1>11

(* Between two calls, the window is as long as what is held, and the cell n
   places before the newest holds its n-th offset from the end. *)
LEMMA WindowIs ==
    ASSUME TypeOK, pc = "idle"
    PROVE  /\ Window \in Seq(Int) /\ Len(Window) = HeldLength
           /\ \A n \in 1 .. HeldLength :
                 /\ Rank(n) \in 0 .. HeldLength - 1
                 /\ ns[Rank(n)] = Window[HeldLength + 1 - n]
<1>1. /\ Length \in Nat /\ Length > 0 /\ HeldLength \in 0 .. Length
      /\ oldest \in 0 .. Length - 1
      /\ HeldLength > 0 => Newest \in 0 .. HeldLength - 1
      /\ full => Newest = IF oldest = 0 THEN Length - 1 ELSE oldest - 1
      /\ ~full /\ oldest > 0 => Newest = oldest - 1
      /\ HeldLength = IF full THEN Length ELSE oldest
  BY Held
<1> DEFINE start == IF full THEN oldest ELSE 0
           w == HeldFrom(ns, start, HeldLength)
<1>2. Window = w
  BY <1>1 DEF Window
<1>3. /\ w \in Seq(Int) /\ Len(w) = HeldLength
      /\ \A n \in 1 .. HeldLength :
            w[n] = ns[IF start + n - 1 < Length THEN start + n - 1
                      ELSE start + n - 1 - Length]
  <2>1. start \in Slots /\ ns \in [Slots -> Int]
    BY <1>1 DEF TypeOK, Slots
  <2> QED
    BY <1>1, <2>1, HeldFromIsSeq
<1> HIDE DEF w
<1>4. ASSUME NEW n \in 1 .. HeldLength
      PROVE  Rank(n) \in 0 .. HeldLength - 1 /\ ns[Rank(n)] = w[HeldLength + 1 - n]
  <2> DEFINE m == HeldLength + 1 - n
  <2>1. m \in 1 .. HeldLength
    BY <1>1
  <2>2. Rank(n) = IF start + m - 1 < Length THEN start + m - 1
                  ELSE start + m - 1 - Length
    BY <1>1 DEF Rank
  <2>3. Rank(n) \in 0 .. HeldLength - 1
    BY <1>1 DEF Rank
  <2> HIDE DEF m, start
  <2>4. ns[Rank(n)] = w[m]
    BY <1>3, <2>1, <2>2
  <2> QED
    BY <2>3, <2>4 DEF m
<1> QED
  BY <1>2, <1>3, <1>4

(* What is asked over k offsets is made of the last of the window, and the
   loops meet them from the newest. *)
LEMMA LastIs ==
    ASSUME TypeOK, pc = "idle", NEW k \in 0 .. Length + 1
    PROVE  /\ Windowed(k) \in 0 .. HeldLength
           /\ Windowed(k) = IF k \in 1 .. Len(Window) THEN k ELSE Len(Window)
           /\ Windowed(Windowed(k)) = Windowed(k)
           /\ Last(k) \in Seq(Int) /\ Len(Last(k)) = Windowed(k)
           /\ Windowed(k) = HeldLength => Last(k) = Window
           /\ \A n \in 1 .. Windowed(k) :
                 ns[Back(Windowed(k))[n]] = Last(k)[Windowed(k) + 1 - n]
<1> DEFINE m == Windowed(k)
           h == HeldLength
           w == Window
           u == SubSeq(w, h - m + 1, h)
<1>1. /\ h \in 0 .. Length /\ Length \in Nat /\ w \in Seq(Int) /\ Len(w) = h
      /\ \A n \in 1 .. h : ns[Rank(n)] = w[h + 1 - n]
  BY Held, WindowIs
<1>2. m = (IF k \in 1 .. h THEN k ELSE h) /\ m \in 0 .. h
  BY <1>1 DEF Windowed
<1>3. Windowed(m) = m
  BY <1>1, <1>2 DEF Windowed
<1>4. Last(k) = u
  BY <1>1 DEF Last
<1> HIDE DEF m, h, w
<1>5. /\ u \in Seq(Int) /\ Len(u) = m
      /\ \A i \in 1 .. m : u[i] = w[(h - m) + i]
  <2>1. h - m + 1 \in Int /\ h \in Int /\ \A i \in h - m + 1 .. h : w[i] \in Int
    <3>1. \A i \in h - m + 1 .. h : i \in 1 .. Len(w)
      BY <1>1, <1>2
    <3> QED
      BY <1>1, <1>2, <3>1, SquareOf
  <2>2. /\ u \in Seq(Int)
        /\ Len(u) = IF h - m + 1 <= h THEN h - (h - m + 1) + 1 ELSE 0
        /\ \A i \in 1 .. h - (h - m + 1) + 1 : u[i] = w[(h - m + 1) + i - 1]
    BY <2>1, SubSeqProperties
  <2>3. /\ h - (h - m + 1) + 1 = m
        /\ (IF h - m + 1 <= h THEN m ELSE 0) = m
    BY <1>1, <1>2
  <2>4. \A i \in 1 .. m : (h - m + 1) + i - 1 = (h - m) + i
    BY <1>1, <1>2
  <2> QED
    BY <2>2, <2>3, <2>4
<1> HIDE DEF u
<1>6. m = h => u = w
  <2> SUFFICES ASSUME m = h PROVE u = w
    OBVIOUS
  <2>1. \A i \in 1 .. Len(u) : u[i] = w[i]
    BY <1>1, <1>2, <1>5
  <2> QED
    BY <1>1, <1>5, <2>1, SeqEqual
<1>7. ASSUME NEW n \in 1 .. m PROVE ns[Back(m)[n]] = u[m + 1 - n]
  <2>1. m \in 1 .. h /\ n \in 1 .. h /\ m + 1 - n \in 1 .. m
        /\ (h - m) + (m + 1 - n) = h + 1 - n
    BY <1>1, <1>2
  <2>2. Back(m)[n] = Rank(n)
    BY <2>1, BackIs DEF h
  <2> QED
    BY <1>1, <1>5, <2>1, <2>2
<1> QED
  BY <1>1, <1>2, <1>3, <1>4, <1>5, <1>6, <1>7 DEF m, h, w

(* The sums that the code makes while it goes back are those of the window. *)
LEMMA CumsAre ==
    ASSUME TypeOK, RunningSums, pc = "idle", NEW k \in 0 .. Length + 1
    PROVE  Cums(k) = << M!Total(Last(k)), M!Squares(Last(k)) >>
<1> DEFINE m == Windowed(k)
           u == Last(k)
<1>1. HeldLength \in 0 .. Length /\ Length \in Nat
  BY Held
<1>2. /\ m \in 0 .. HeldLength /\ u \in Seq(Int) /\ Len(u) = m
      /\ m = HeldLength => u = Window
      /\ \A n \in 1 .. m : ns[Back(m)[n]] = u[m + 1 - n]
  BY LastIs
<1>3. CASE k = 0 \/ k > HeldLength
  <2>1. Cums(k) = cums
    BY <1>3 DEF Cums
  <2>2. u = Window
    BY <1>1, <1>2, <1>3 DEF Windowed
  <2>3. Kept = Window
    BY DEF Kept
  <2> QED
    BY <2>1, <2>2, <2>3 DEF RunningSums, cums
<1>4. CASE ~(k = 0 \/ k > HeldLength)
  <2>1. m = k
    BY <1>1, <1>4 DEF Windowed
  <2> DEFINE a == [n \in 1 .. m |-> ns[Back(m)[n]]]
             b == [n \in 1 .. m |-> ns[Back(m)[n]] * ns[Back(m)[n]]]
  <2>2. Cums(k) = << SumTo(a, m), SumTo(b, m) >>
    BY <1>4, <2>1 DEF Cums
  <2> HIDE DEF m, u
  <2>3. \A i \in 1 .. m : u[i] \in Int /\ Square(u)[i] \in Int
                          /\ Square(u)[i] = u[i] * u[i]
    BY <1>2, SquareOf
  <2>m. m \in Nat
    BY <1>1, <1>2
  <2>4. SumTo(a, m) = SumTo(u, m)
    <3>1. a = [n \in 1 .. m |-> u[m + 1 - n]]
      BY <1>2
    <3>2. SumTo([n \in 1 .. m |-> u[m + 1 - n]], m) = SumTo(u, m)
      BY <2>3, <2>m, SumReverse
    <3> HIDE DEF a
    <3> QED
      BY <3>1, <3>2
  <2>5. SumTo(b, m) = SumTo(Square(u), m)
    <3>1. ASSUME NEW n \in 1 .. m
          PROVE  ns[Back(m)[n]] * ns[Back(m)[n]] = Square(u)[m + 1 - n]
      <4>1. m + 1 - n \in 1 .. m
        BY <1>1, <1>2
      <4> QED
        BY <1>2, <2>3, <4>1
    <3>2. b = [n \in 1 .. m |-> Square(u)[m + 1 - n]]
      BY <3>1
    <3>3. SumTo([n \in 1 .. m |-> Square(u)[m + 1 - n]], m) = SumTo(Square(u), m)
      BY <2>3, <2>m, SumReverse
    <3> HIDE DEF b
    <3> QED
      BY <3>2, <3>3
  <2>6. M!Total(u) = SumTo(u, m) /\ M!Squares(u) = SumTo(Square(u), m)
    BY <1>2, TotalIs
  <2> QED
    BY <2>2, <2>4, <2>5, <2>6 DEF u
<1> QED
  BY <1>3, <1>4

(* The mean and the variance are made of those sums. *)
LEMMA MeanIs ==
    ASSUME TypeOK, RunningSums, pc = "idle", NEW k \in 0 .. Length + 1
    PROVE  Mean(k) = M!MeanOf(Last(k)) /\ Variance(k) = M!VarianceOf(Last(k))
<1> DEFINE m == Windowed(k)
           u == Last(k)
<1>1. HeldLength \in 0 .. Length /\ Length \in Nat
  BY Held
<1>2. m \in 0 .. HeldLength /\ Len(u) = m /\ Windowed(m) = m
  BY LastIs
<1>3. m \in 0 .. Length + 1
  BY <1>1, <1>2
<1>4. Last(m) = u
  BY <1>2 DEF Last
<1>5. Cums(m) = << M!Total(u), M!Squares(u) >>
  BY <1>3, <1>4, CumsAre
<1>6. Cums(m)[1] = M!Total(u) /\ Cums(m)[2] = M!Squares(u)
  BY <1>5
<1> QED
  BY <1>2, <1>6 DEF Mean, Variance, M!MeanOf, M!VarianceOf, M!Few, M!Zero

-----------------------------------------------------------------------------
(* The drift: the slope of the least squares line.  When the offsets are one
   second apart it needs no sum but those of the offsets and of the offsets
   weighted by their rank. *)

(* What pps_stats_covar multiplies and adds, for m offsets v, the n-th at time
   -n; S is the sum of the offsets and t that of the times. *)
Covaries(m, v, w, times, c, S, t) ==
    \A n \in 1 .. m : /\ v[n] \in Int
                      /\ w[n] = n * v[n]
                      /\ times[n] = -n
                      /\ c[n] = (m * v[n] - S) * (m * (-n) - t)

(* A is the sum of the offsets by their ranks. *)
LEMMA CovarIs ==
    ASSUME NEW m \in Nat, NEW v, NEW w, NEW times, NEW c,
           NEW S, S = SumTo(v, m), NEW t, t = SumTo(times, m),
           NEW A, A = SumTo(w, m),
           Covaries(m, v, w, times, c, S, t)
    PROVE  /\ S \in Int /\ A \in Int /\ t \in Int /\ 2 * t = -(m * (m + 1))
           /\ 2 * SumTo(c, m) = (m * m) * ((m + 1) * S - 2 * A)
<1> DEFINE id == [n \in 1 .. m |-> n]
           sq == [n \in 1 .. m |-> n * n]
           one == [n \in 1 .. m |-> 1]
<1>1. \A n \in 1 .. m : /\ n \in Int /\ v[n] \in Int /\ w[n] \in Int
                        /\ id[n] = n /\ id[n] \in Int /\ sq[n] = n * n
                        /\ one[n] = 1 /\ one[n] \in Int /\ times[n] = (-1) * id[n]
  BY DEF Covaries
<1> HIDE DEF id, sq, one
<1>2. S \in Int /\ A \in Int /\ SumTo(id, m) \in Int
  <2>1. m \in 0 .. m
    OBVIOUS
  <2> QED
    BY <1>1, <2>1, SumType
<1>3. 2 * SumTo(id, m) = m * (m + 1)
  <2>1. \A n \in 1 .. m : id[n] = n /\ sq[n] = n * n
    BY <1>1
  <2> QED
    BY <2>1, SumOfNumbers
<1>4. t = (-1) * SumTo(id, m)
  <2> DEFINE minus == -1
  <2>1. minus \in Int /\ \A n \in 1 .. m : id[n] \in Int /\ times[n] = minus * id[n]
    BY <1>1
  <2> HIDE DEF minus
  <2>2. SumTo(times, m) = minus * SumTo(id, m)
    BY <2>1, SumScale
  <2> QED
    BY <2>2 DEF minus
<1>5. SumTo(one, m) = m
  <2>1. SumTo(one, m) = 1 * m
    BY <1>1, SumConstant
  <2> QED
    BY <2>1
<1> DEFINE I == SumTo(id, m)
<1>6. I \in Int /\ t = -I /\ t \in Int /\ 2 * I = m * (m + 1)
  BY <1>2, <1>3, <1>4
<1> DEFINE a == -(m * m)
           b == -(m * t)
           d == S * m
           e == S * t
           p == [n \in 1 .. m |-> a * w[n] + b * v[n]]
           q == [n \in 1 .. m |-> d * id[n] + e * one[n]]
<1>7. a \in Int /\ b \in Int /\ d \in Int /\ e \in Int
  BY <1>2, <1>6
<1>8. ASSUME NEW n \in 1 .. m
      PROVE  p[n] = a * w[n] + b * v[n] /\ q[n] = d * id[n] + e * one[n]
  OBVIOUS
<1>9. ASSUME NEW n \in 1 .. m PROVE c[n] = p[n] + q[n]
  <2> DEFINE y == v[n]
  <2>1. y \in Int /\ n \in Int
    BY <1>1
  <2>2. /\ c[n] = (m * y - S) * (m * (-n) - t)
        /\ w[n] = n * y /\ id[n] = n /\ one[n] = 1
    BY <1>1 DEF Covaries
  <2> HIDE DEF y, I, p, q
  <2>3. (m * y - S) * (m * (-n) - t) = (a * (n * y) + b * y) + (d * n + e * 1)
    BY <1>2, <1>6, <2>1
  <2>4. p[n] = a * (n * y) + b * y /\ q[n] = d * n + e * 1
    BY <1>8, <2>2 DEF y
  <2> QED
    BY <2>2, <2>3, <2>4
<1> HIDE DEF a, b, d, e, p, q, I
<1>10. \A n \in 1 .. m : p[n] \in Int /\ q[n] \in Int
  BY <1>1, <1>7, <1>8
<1>11. SumTo(c, m) = SumTo(p, m) + SumTo(q, m)
  BY <1>9, <1>10, SumPlus
<1>12. SumTo(p, m) = a * A + b * S
  BY <1>1, <1>7, <1>8, SumLinear
<1>13. SumTo(q, m) = d * I + e * m
  <2>1. SumTo(q, m) = d * SumTo(id, m) + e * SumTo(one, m)
    BY <1>1, <1>7, <1>8, SumLinear
  <2> QED
    BY <1>5, <2>1 DEF I
<1>14. d * I + e * m = 0
  BY <1>2, <1>6 DEF d, e
<1>15. 2 * (a * A) = -((m * m) * (2 * A))
  BY <1>2 DEF a
<1>16. 2 * (b * S) = (m * m) * ((m + 1) * S)
  <2>1. 2 * (b * S) = ((m * S) * (-(2 * t)))
    BY <1>2, <1>6 DEF b
  <2>2. -(2 * t) = m * (m + 1)
    BY <1>6
  <2>3. (m * S) * (m * (m + 1)) = (m * m) * ((m + 1) * S)
    BY <1>2
  <2> QED
    BY <2>1, <2>2, <2>3
<1>17. 2 * SumTo(c, m) = 2 * (a * A) + 2 * (b * S)
  <2>1. a * A \in Int /\ b * S \in Int
    BY <1>2, <1>7
  <2> QED
    BY <1>11, <1>12, <1>13, <1>14, <2>1
<1>18. -((m * m) * (2 * A)) + (m * m) * ((m + 1) * S)
           = (m * m) * ((m + 1) * S - 2 * A)
  BY <1>2
<1> QED
  BY <1>2, <1>6, <1>15, <1>16, <1>17, <1>18

(* What Moments adds, for the m offsets u, which are v from the newest. *)
Ranks(m, u, v, w, g) ==
    \A n \in 1 .. m : /\ u[n] \in Int
                      /\ v[n] = u[m + 1 - n]
                      /\ w[n] = n * v[n]
                      /\ g[n] = (2 * n - m - 1) * u[n]

LEMMA RanksAre ==
    ASSUME NEW m \in Nat, NEW u, NEW v, NEW w, NEW g, Ranks(m, u, v, w, g)
    PROVE  SumTo(g, m) = (m + 1) * SumTo(v, m) - 2 * SumTo(w, m)
<1> USE DEF Ranks
<1> DEFINE f == [n \in 1 .. m |-> g[m + 1 - n]]
<1>1. ASSUME NEW n \in 1 .. m
      PROVE  /\ f[n] = (m + 1) * v[n] + (-2) * w[n]
             /\ v[n] \in Int /\ w[n] \in Int /\ g[n] \in Int
  <2>1. m + 1 - n \in 1 .. m
    OBVIOUS
  <2>2. f[n] = g[m + 1 - n]
    OBVIOUS
  <2>3. f[n] = (2 * (m + 1 - n) - m - 1) * v[n]
    BY <2>1, <2>2
  <2>4. v[n] \in Int /\ u[n] \in Int
    BY <2>1
  <2>5. w[n] = n * v[n] /\ g[n] = (2 * n - m - 1) * u[n]
    OBVIOUS
  <2> HIDE DEF f
  <2>6. (2 * (m + 1 - n) - m - 1) * v[n] = (m + 1) * v[n] + (-2) * (n * v[n])
    BY <2>4
  <2>7. n * v[n] \in Int /\ (2 * n - m - 1) * u[n] \in Int
    BY <2>4
  <2> QED
    BY <2>3, <2>4, <2>5, <2>6, <2>7
<1>2. SumTo(f, m) = SumTo(g, m)
  BY <1>1, SumReverse
<1> HIDE DEF f
<1>3. SumTo(f, m) = (m + 1) * SumTo(v, m) + (-2) * SumTo(w, m)
  <2> DEFINE a == m + 1
             b == -2
  <2>1. a \in Int /\ b \in Int
    OBVIOUS
  <2>2. \A n \in 1 .. m : v[n] \in Int /\ w[n] \in Int /\ f[n] = a * v[n] + b * w[n]
    BY <1>1
  <2> HIDE DEF a, b
  <2>3. SumTo(f, m) = a * SumTo(v, m) + b * SumTo(w, m)
    BY <2>1, <2>2, SumLinear
  <2> QED
    BY <2>3 DEF a, b
<1>4. SumTo(v, m) \in Int /\ SumTo(w, m) \in Int
  <2>1. m \in 0 .. m
    OBVIOUS
  <2> QED
    BY <1>1, <2>1, SumType
<1>5. (m + 1) * SumTo(v, m) \in Int
  BY <1>4
<1> QED
  BY <1>2, <1>3, <1>4, <1>5

(* _pps_stats_tsvar *)
LEMMA TimesVary ==
    ASSUME NEW m \in Nat, NEW squares, \A n \in 1 .. m : squares[n] = n * n,
           NEW t \in Int, 2 * t = -(m * (m + 1))
    PROVE  /\ m * SumTo(squares, m) - t * t \in Int
           /\ 12 * (m * SumTo(squares, m) - t * t) = (m * m) * (m * m - 1)
<1> DEFINE Q == SumTo(squares, m)
<1>1. Q \in Int /\ 6 * Q = m * (m + 1) * (2 * m + 1)
  <2> DEFINE id == [n \in 1 .. m |-> n]
  <2>1. \A n \in 1 .. m : id[n] = n /\ squares[n] = n * n /\ squares[n] \in Int
    OBVIOUS
  <2> HIDE DEF id
  <2>2. 6 * Q = m * (m + 1) * (2 * m + 1)
    BY <2>1, SumOfNumbers
  <2>3. m \in 0 .. m
    OBVIOUS
  <2>4. Q \in Int
    BY <2>1, <2>3, SumType
  <2> QED
    BY <2>2, <2>4
<1> HIDE DEF Q
<1>2. 12 * (m * Q) = (2 * m) * (m * (m + 1) * (2 * m + 1))
  <2>1. 12 * (m * Q) = (2 * m) * (6 * Q)
    BY <1>1
  <2> QED
    BY <1>1, <2>1
<1>3. 12 * (t * t) = 3 * ((m * (m + 1)) * (m * (m + 1)))
  <2>1. 12 * (t * t) = 3 * ((-(2 * t)) * (-(2 * t)))
    OBVIOUS
  <2>2. -(2 * t) = m * (m + 1)
    OBVIOUS
  <2> QED
    BY <2>1, <2>2
<1>4. (2 * m) * (m * (m + 1) * (2 * m + 1)) - 3 * ((m * (m + 1)) * (m * (m + 1)))
         = (m * m) * (m * m - 1)
  OBVIOUS
<1> DEFINE a == m * Q
           b == t * t
<1>5. a \in Int /\ b \in Int
  BY <1>1
<1>6. 12 * a - 12 * b = (m * m) * (m * m - 1)
  BY <1>2, <1>3, <1>4
<1> HIDE DEF a, b
<1>7. a - b \in Int /\ 12 * (a - b) = 12 * a - 12 * b
  BY <1>5
<1>8. a - b \in Int /\ 12 * (a - b) = (m * m) * (m * m - 1)
  BY <1>6, <1>7, Zenon
<1> QED
  BY <1>8 DEF a, b, Q

(* The slope pps_stats_drift_ppb returns is that of Moments. *)
LEMMA SlopesAgree ==
    ASSUME NEW m \in Nat, m > 1, NEW C \in Int, NEW B \in Int, NEW D \in Int,
           2 * C = (m * m) * B, 12 * D = (m * m) * (m * m - 1)
    PROVE  D # 0 /\ M!Same(<< C, m * D >>, << 6 * B, m * (m * m - 1) >>)
<1>1. D # 0
  <2>1. m * m > 0 /\ m * m - 1 > 0
    OBVIOUS
  <2>2. (m * m) * (m * m - 1) > 0
    BY <2>1
  <2> QED
    BY <2>2
<1>2. C * (m * (m * m - 1)) = (m * D) * (6 * B)
  <2>1. (2 * C) * (m * (m * m - 1)) = ((m * m) * B) * (m * (m * m - 1))
    OBVIOUS
  <2>2. (12 * D) * (m * B) = ((m * m) * (m * m - 1)) * (m * B)
    OBVIOUS
  <2>3. ((m * m) * B) * (m * (m * m - 1)) = ((m * m) * (m * m - 1)) * (m * B)
    OBVIOUS
  <2> DEFINE L == C * (m * (m * m - 1))
             R == (m * D) * (6 * B)
  <2>4. (2 * C) * (m * (m * m - 1)) = 2 * L /\ (12 * D) * (m * B) = 2 * R
    OBVIOUS
  <2>5. L \in Int /\ R \in Int
    OBVIOUS
  <2>6. 2 * L = 2 * R
    BY <2>1, <2>2, <2>3, <2>4, Zenon
  <2> HIDE DEF L, R
  <2>7. L = R
    BY <2>5, <2>6
  <2> QED
    BY <2>7 DEF L, R
<1> QED
  BY <1>1, <1>2 DEF M!Same

LEMMA DriftIs ==
    ASSUME TypeOK, RunningSums, pc = "idle", NEW k \in 0 .. Length + 1
    PROVE  /\ M!Same(Drift(k), M!DriftOf(Last(k)))
           /\ Drift(k)[1] \in Int /\ Drift(k)[2] \in Int
<1> DEFINE m == Windowed(k)
           cell == Back(m)
           u == Last(k)
           y == Mean(k)
           times == [n \in 1 .. m |-> -n]
           squares == [n \in 1 .. m |-> n * n]
           t == SumTo(times, m)
           t2 == SumTo(squares, m)
           c == [n \in 1 .. m |-> (y[2] * ns[cell[n]] - y[1]) * (m * (-n) - t)]
           D == m * t2 - t * t
           g == [i \in 1 .. m |-> (2 * i - m - 1) * u[i]]
<1>1. HeldLength \in 0 .. Length /\ Length \in Nat
  BY Held
<1>2. /\ m \in 0 .. HeldLength /\ u \in Seq(Int) /\ Len(u) = m
      /\ \A n \in 1 .. m : ns[cell[n]] = u[m + 1 - n]
  BY LastIs
<1>3. m \in Nat /\ \A n \in 1 .. m : u[n] \in Int
  BY <1>1, <1>2, SquareOf
<1>4. Drift(k) = IF D = 0 THEN <<0, 1>> ELSE <<SumTo(c, m), y[2] * D>>
  BY DEF Drift
<1>5. M!DriftOf(u) =
        IF m <= 1 THEN <<0, 1>> ELSE <<6 * SumTo(g, m), m * (m * m - 1)>>
  BY <1>2, SameSum DEF M!DriftOf, M!Few, M!Zero
<1>6. y = IF m <= 1 THEN <<0, 1>> ELSE <<M!Total(u), m>>
  BY <1>2, MeanIs DEF M!MeanOf, M!Few, M!Zero
<1>7. M!Total(u) = SumTo(u, m)
  BY <1>2, TotalIs
<1>8. CASE m <= 1
  <2>1. m = 0 \/ m = 1
    BY <1>3, <1>8
  <2>2. D = 0
    <3>1. CASE m = 0
      <4>1. t = 0 /\ t2 = 0
        BY <3>1, SumStep
      <4> QED
        BY <3>1, <4>1
    <3>2. CASE m = 1
      <4>1. times[1] = -1 /\ squares[1] = 1
        BY <3>2
      <4> HIDE DEF times, squares
      <4>2. SumTo(times, 0 + 1) = 0 + times[0 + 1] /\ SumTo(squares, 0 + 1) = 0 + squares[0 + 1]
        BY SumStep
      <4>3. t = -1 /\ t2 = 1
        BY <3>2, <4>1, <4>2
      <4> HIDE DEF m, t, t2
      <4> QED
        BY <3>2, <4>3
    <3> QED
      BY <2>1, <3>1, <3>2
  <2> QED
    BY <1>4, <1>5, <1>8, <2>2 DEF M!Same
<1>9. CASE m > 1
  <2> DEFINE v == [n \in 1 .. m |-> u[m + 1 - n]]
             w == [n \in 1 .. m |-> n * v[n]]
  <2>1. y[1] = SumTo(u, m) /\ y[2] = m
    BY <1>3, <1>6, <1>7, <1>9
  <2>2. SumTo(v, m) = SumTo(u, m)
    BY <1>3, SumReverse
  <2>3. ASSUME NEW n \in 1 .. m
        PROVE  /\ u[n] \in Int /\ v[n] = u[m + 1 - n] /\ v[n] \in Int
               /\ w[n] = n * v[n] /\ times[n] = -n /\ squares[n] = n * n
               /\ g[n] = (2 * n - m - 1) * u[n]
               /\ c[n] = (m * v[n] - SumTo(v, m)) * (m * (-n) - t)
    <3>1. m + 1 - n \in 1 .. m
      BY <1>3
    <3>2. u[n] \in Int /\ v[n] = u[m + 1 - n] /\ v[n] \in Int
      BY <1>3, <3>1
    <3>3. w[n] = n * v[n] /\ times[n] = -n /\ squares[n] = n * n
          /\ g[n] = (2 * n - m - 1) * u[n]
      OBVIOUS
    <3>4. c[n] = (y[2] * ns[cell[n]] - y[1]) * (m * (-n) - t)
      OBVIOUS
    <3>5. ns[cell[n]] = v[n]
      BY <1>2, <3>2
    <3> HIDE DEF m, cell, u, y, times, squares, t, c, g, v, w
    <3> QED
      BY <2>1, <2>2, <3>2, <3>3, <3>4, <3>5
  <2> HIDE DEF m, u, y, times, squares, c, g, v, w
  <2> DEFINE S == SumTo(v, m)
             A == SumTo(w, m)
  <2>4. /\ S \in Int /\ A \in Int /\ t \in Int /\ 2 * t = -(m * (m + 1))
        /\ 2 * SumTo(c, m) = (m * m) * ((m + 1) * S - 2 * A)
    <3>1. Covaries(m, v, w, times, c, S, t)
      BY <2>3 DEF Covaries
    <3>2. S = SumTo(v, m) /\ t = SumTo(times, m) /\ A = SumTo(w, m)
      OBVIOUS
    <3> HIDE DEF S, t, A
    <3> QED
      BY <1>3, <3>1, <3>2, CovarIs
  <2>5. SumTo(g, m) = (m + 1) * S - 2 * A
    <3>1. Ranks(m, u, v, w, g)
      BY <2>3 DEF Ranks
    <3>2. SumTo(g, m) = (m + 1) * SumTo(v, m) - 2 * SumTo(w, m)
      BY <1>3, <3>1, RanksAre
    <3> QED
      BY <3>2
  <2>6. D \in Int /\ 12 * D = (m * m) * (m * m - 1)
    <3>1. \A n \in 1 .. m : squares[n] = n * n
      BY <2>3
    <3> HIDE DEF t
    <3> QED
      BY <1>3, <2>4, <3>1, TimesVary
  <2>7. SumTo(c, m) \in Int
    <3>1. \A n \in 1 .. m : c[n] \in Int
      BY <1>3, <2>3, <2>4, SMTT(30)
    <3>2. m \in 0 .. m
      BY <1>3
    <3> QED
      BY <1>3, <3>1, <3>2, SumType
  <2> DEFINE B == (m + 1) * S - 2 * A
  <2>8. B \in Int
    BY <1>3, <2>4
  <2> HIDE DEF B, D, S, A, t
  <2>9. 2 * SumTo(c, m) = (m * m) * B /\ SumTo(g, m) = B
    BY <2>4, <2>5 DEF B
  <2>10. D # 0 /\ M!Same(<< SumTo(c, m), m * D >>, << 6 * B, m * (m * m - 1) >>)
    <3> DEFINE C == SumTo(c, m)
    <3>1. C \in Int /\ 2 * C = (m * m) * B
      BY <2>7, <2>9
    <3> HIDE DEF C
    <3>2. D # 0 /\ M!Same(<< C, m * D >>, << 6 * B, m * (m * m - 1) >>)
      BY <1>3, <1>9, <2>6, <2>8, <3>1, SlopesAgree
    <3> QED
      BY <3>2 DEF C
  <2>11. Drift(k) = << SumTo(c, m), m * D >>
    BY <1>4, <2>1, <2>10
  <2>12. M!DriftOf(u) = << 6 * B, m * (m * m - 1) >>
    <3>1. ~(m <= 1)
      BY <1>3, <1>9
    <3> QED
      BY <1>5, <2>9, <3>1
  <2>13. m * D \in Int
    BY <1>3, <2>6
  <2> QED
    BY <2>7, <2>10, <2>11, <2>12, <2>13 DEF u
<1> QED
  BY <1>3, <1>8, <1>9

(* The mean, the variance and the drift that the code makes cell after cell,
   round the end of the buffer, and the running sums that every update adds to
   and takes from, are those of the last offsets: for buffers of any length,
   that of one cell included, and whatever was given before. *)
THEOREM MomentsAlwaysAgree == Spec => []MomentsAgree
<1>1. Init => TypeOK /\ RunningSums
  BY TypeInit, RunningSumsInit
<1>2. TypeOK /\ RunningSums /\ [Next]_vars => (TypeOK /\ RunningSums)'
  BY TypeStep, RunningSumsStep
<1>3. TypeOK /\ RunningSums => MomentsAgree
  <2> SUFFICES ASSUME TypeOK, RunningSums, pc = "idle", NEW k \in 0 .. Length + 1
               PROVE  /\ Windowed(k) = IF k \in 1 .. Len(Window) THEN k
                                       ELSE Len(Window)
                      /\ Cums(k) = << M!Total(Last(k)), M!Squares(Last(k)) >>
                      /\ M!Same(Mean(k), M!MeanOf(Last(k)))
                      /\ M!Same(Variance(k), M!VarianceOf(Last(k)))
                      /\ M!Same(Drift(k), M!DriftOf(Last(k)))
    BY Zenon DEF MomentsAgree
  <2>1. Windowed(k) = IF k \in 1 .. Len(Window) THEN k ELSE Len(Window)
    BY LastIs
  <2>2. Cums(k) = << M!Total(Last(k)), M!Squares(Last(k)) >>
    BY CumsAre
  <2>3. Mean(k) = M!MeanOf(Last(k)) /\ Variance(k) = M!VarianceOf(Last(k))
    BY MeanIs
  <2>4. Last(k) \in Seq(Int)
    BY LastIs
  <2>5. M!Same(Mean(k), M!MeanOf(Last(k))) /\ M!Same(Variance(k), M!VarianceOf(Last(k)))
    <3> DEFINE p == M!MeanOf(Last(k))
               q == M!VarianceOf(Last(k))
               u == Last(k)
    <3>1. M!Total(u) \in Int /\ M!Squares(u) \in Int /\ Len(u) \in Int
      BY <2>4, LenProperties, TotalType
    <3>2. /\ Len(u) * M!Squares(u) - M!Total(u) * M!Total(u) \in Int
          /\ Len(u) * (Len(u) - 1) \in Int
      BY <3>1
    <3>3. p[1] \in Int /\ p[2] \in Int /\ q[1] \in Int /\ q[2] \in Int
      BY <3>1, <3>2 DEF M!MeanOf, M!VarianceOf, M!Few, M!Zero
    <3> HIDE DEF p, q
    <3>4. p[1] * p[2] = p[2] * p[1] /\ q[1] * q[2] = q[2] * q[1]
      BY <3>3
    <3>5. M!Same(p, p) /\ M!Same(q, q)
      BY <3>4 DEF M!Same
    <3> QED
      BY <2>3, <3>5 DEF p, q
  <2>6. M!Same(Drift(k), M!DriftOf(Last(k)))
    BY DriftIs
  <2> QED
    BY <2>1, <2>2, <2>5, <2>6
<1> QED
  BY <1>1, <1>2, <1>3, PTL DEF Spec

-----------------------------------------------------------------------------
(* The median: pps_stats_median goes down the list from its highest cell, so
   the cell it reaches after n turns has n cells of the list after it. *)

After(L, B, i) == {j \in L : <<i, j>> \in B}
Before(L, B, i) == {j \in L : <<j, i>> \in B}

LEMMA AfterAndBefore ==
    ASSUME NEW L, IsFiniteSet(L), NEW B, Orders(B, L), NEW i \in L
    PROVE  /\ IsFiniteSet(After(L, B, i)) /\ IsFiniteSet(Before(L, B, i))
           /\ Cardinality(After(L, B, i)) \in Nat
           /\ Cardinality(Before(L, B, i)) =
                  Cardinality(L) - 1 - Cardinality(After(L, B, i))
<1> DEFINE a == After(L, B, i)
           b == Before(L, B, i)
           r == a \cup {i}
<1>1. a \subseteq L /\ b \subseteq L /\ i \notin a
  BY DEF After, Before, Orders
<1>2. /\ IsFiniteSet(a) /\ IsFiniteSet(b)
      /\ Cardinality(a) \in Nat /\ Cardinality(L) \in Nat
  BY <1>1, FS_Subset, FS_CardinalityType
<1>3. b = L \ r
  BY DEF After, Before, Orders
<1>4. IsFiniteSet(r) /\ Cardinality(r) = Cardinality(a) + 1
  BY <1>1, <1>2, FS_AddElement
<1>5. r \subseteq L
  BY <1>1
<1>6. Cardinality(L \ r) = Cardinality(L) - Cardinality(r)
  <2> HIDE DEF r
  <2>1. L \cap r = r
    BY <1>5
  <2>2. Cardinality(L \ r) = Cardinality(L) - Cardinality(L \cap r)
    BY FS_Difference
  <2> QED
    BY <2>1, <2>2
<1> QED
  BY <1>2, <1>3, <1>4, <1>6

(* One turn down the list. *)
LEMMA OneDown ==
    ASSUME NEW L \in SUBSET Slots, IsFiniteSet(L), NEW B, Orders(B, L),
           NEW pv, NEW nx, NEW lo, NEW hi, Chain(L, B, pv, nx, lo, hi),
           NEW i \in L, NEW n \in Nat, Cardinality(After(L, B, i)) = n,
           n + 1 < Cardinality(L)
    PROVE  pv[i] \in L /\ Cardinality(After(L, B, pv[i])) = n + 1
<1> DEFINE p == pv[i]
<1> NIL \notin Slots
  BY LengthAssumption DEF NIL, Slots
<1>1. IsFiniteSet(After(L, B, i))
  BY AfterAndBefore
<1>2. i # lo
  <2> SUFFICES ASSUME i = lo PROVE FALSE
    OBVIOUS
  <2>1. After(L, B, i) = L \ {i}
    BY DEF Chain, SortedEnds, After, Orders
  <2>2. Cardinality(L \ {i}) = Cardinality(L) - 1
    BY FS_RemoveElement
  <2>3. Cardinality(L) \in Nat
    BY FS_CardinalityType
  <2> QED
    BY <2>1, <2>2, <2>3
<1>3. p \in L /\ nx[p] = i /\ nx[p] # NIL
  BY <1>2 DEF Chain, MutualLinks
<1> HIDE DEF p
<1>4. <<p, i>> \in B /\ \A j \in L : ~(<<p, j>> \in B /\ <<j, i>> \in B)
  BY <1>3 DEF Chain, ImmediateSuccessor
<1>5. After(L, B, p) = After(L, B, i) \cup {i}
  <2>1. ASSUME NEW j \in L PROVE <<p, j>> \in B <=> j = i \/ <<i, j>> \in B
    BY <1>3, <1>4 DEF Orders
  <2> QED
    BY <2>1 DEF After
<1>6. i \notin After(L, B, i)
  BY DEF After, Orders
<1>7. Cardinality(After(L, B, p)) = n + 1
  BY <1>1, <1>5, <1>6, FS_AddElement
<1> QED
  BY <1>3, <1>7 DEF p

(* The cell reached from the highest one: DoubleMedian, unfolded. *)
Descent(d) ==
    /\ d \in [0 .. Length -> Links]
    /\ d[0] = highest
    /\ \A n \in 1 .. Length : d[n] = Lower(d[n - 1])

LEMMA MedianIs ==
    ASSUME TypeOK, HeldLength % 2 = 1
    PROVE  \E d : Descent(d) /\ DoubleMedian = 2 * ns[d[HeldLength \div 2]]
<1> DEFINE Solves(g) ==
        g = [n \in 0 .. Length |-> IF n = 0 THEN highest ELSE Lower(g[n - 1])]
           down == CHOOSE g : Solves(g)
           h == [i \in Links |-> Lower(i)]
<1>1. \A i \in Links : Lower(i) \in Links
  BY LengthAssumption DEF TypeOK, Lower, Links, NIL, Slots
<1>2. highest \in Links /\ Length \in Nat
  BY LengthAssumption DEF TypeOK
<1>3. PICK s \in [0 .. Length -> Links] :
        s[0] = highest /\ \A n \in 1 .. Length : s[n] = h[s[n - 1]]
  <2>1. \A i \in Links : h[i] \in Links
    BY <1>1
  <2> HIDE DEF h
  <2>2. \E s : Iterating(s, Links, h, highest, Length)
    BY <1>2, <2>1, Iterates
  <2> QED
    BY <2>2 DEF Iterating
<1>4. \A n \in 0 .. Length : s[n] = IF n = 0 THEN highest ELSE Lower(s[n - 1])
  <2> SUFFICES ASSUME NEW n \in 0 .. Length
               PROVE  s[n] = IF n = 0 THEN highest ELSE Lower(s[n - 1])
    OBVIOUS
  <2>1. CASE n = 0
    BY <1>3, <2>1
  <2>2. CASE n # 0
    <3>1. n \in 1 .. Length /\ n - 1 \in 0 .. Length
      BY <1>2, <2>2
    <3>2. s[n - 1] \in Links
      BY <3>1
    <3> QED
      BY <1>3, <2>2, <3>1, <3>2
  <2> QED
    BY <2>1, <2>2
<1>5. Solves(s)
  BY <1>4
<1>6. Solves(down)
  BY <1>5
<1>7. DoubleMedian = 2 * ns[down[HeldLength \div 2]]
  <2>1. HeldLength # 0 /\ HeldLength # 2
    BY Held
  <2> QED
    BY <2>1 DEF DoubleMedian
<1> HIDE DEF down
<1> DEFINE S == {n \in Nat : n \in 0 .. Length => down[n] = s[n]}
<1>8. 0 \in S
  BY <1>2, <1>4, <1>6
<1>9. ASSUME NEW n \in 0 .. Length - 1, n \in S PROVE n + 1 \in S
  <2>1. n + 1 \in 0 .. Length /\ n + 1 # 0 /\ (n + 1) - 1 = n /\ n \in 0 .. Length
    BY <1>2
  <2>2. down[n] = s[n]
    BY <1>9, <2>1
  <2>3. down[n + 1] = Lower(down[n]) /\ s[n + 1] = Lower(s[n])
    BY <1>4, <1>6, <2>1
  <2> QED
    BY <2>1, <2>2, <2>3
<1>10. 0 .. Length \subseteq S
  <2> HIDE DEF S
  <2> QED
    BY <1>2, <1>8, <1>9, BoundedInduction
<1>11. HeldLength \div 2 \in 0 .. Length
  BY Held
<1>12. down[HeldLength \div 2] = s[HeldLength \div 2]
  BY <1>10, <1>11
<1>13. Descent(s)
  <2>1. \A n \in 1 .. Length : s[n] = Lower(s[n - 1])
    BY <1>2, <1>4
  <2> QED
    BY <1>3, <2>1 DEF Descent
<1> QED
  BY <1>7, <1>12, <1>13

(* Between two calls, the list is that of the cells held. *)
Cells == 0 .. HeldLength - 1

LEMMA CellsAre ==
    ASSUME IInv, pc = "idle"
    PROVE  /\ Cells \in SUBSET Slots /\ IsFiniteSet(Cells)
           /\ Cardinality(Cells) = HeldLength
           /\ Orders(Order(ns, oldest), Cells)
           /\ Chain(Cells, Order(ns, oldest), prev, next, lowest, highest)
<1>1. TypeOK /\ Chain(Listed, Order(ns, oldest), prev, next, lowest, highest)
  BY DEF IInv, SortedList
<1>2. HeldLength \in 0 .. Length /\ Length \in Nat
      /\ HeldLength = IF full THEN Length ELSE oldest
  BY <1>1, Held
<1>3. Listed = Cells
  BY <1>2 DEF Listed, Live, Cells, Slots
<1>4. Cells \in SUBSET Slots
  BY <1>2 DEF Cells, Slots
<1>5. IsFiniteSet(Cells) /\ Cardinality(Cells) = HeldLength
  <2>1. 0 \in Int /\ HeldLength - 1 \in Int
    BY <1>2
  <2>2. /\ IsFiniteSet(0 .. HeldLength - 1)
        /\ Cardinality(0 .. HeldLength - 1) =
             IF 0 > HeldLength - 1 THEN 0 ELSE (HeldLength - 1) - 0 + 1
    BY <2>1, FS_Interval
  <2> QED
    BY <1>2, <2>2 DEF Cells
<1>6. Orders(Order(ns, oldest), Slots)
  BY <1>1, OrderIsTotal DEF TypeOK
<1> QED
  BY <1>1, <1>3, <1>4, <1>5, <1>6 DEF Orders

LEMMA DescentRanks ==
    ASSUME IInv, pc = "idle", NEW d, Descent(d)
    PROVE  \A n \in Cells :
              /\ d[n] \in Cells
              /\ Cardinality(After(Cells, Order(ns, oldest), d[n])) = n
<1> DEFINE L == Cells
           B == Order(ns, oldest)
           S == {n \in Nat : n \in L => /\ d[n] \in L
                                        /\ Cardinality(After(L, B, d[n])) = n}
<1>1. /\ L \in SUBSET Slots /\ IsFiniteSet(L) /\ Cardinality(L) = HeldLength
      /\ Orders(B, L) /\ Chain(L, B, prev, next, lowest, highest)
  BY CellsAre
<1>2. /\ TypeOK /\ HeldLength \in 0 .. Length /\ Length \in Nat
      /\ \A n \in Nat : n \in L <=> n < HeldLength
  <2>1. TypeOK
    BY DEF IInv
  <2>2. HeldLength \in 0 .. Length /\ Length \in Nat
    BY <2>1, Held
  <2> QED
    BY <2>1, <2>2 DEF Cells
<1> HIDE DEF L, B
<1>3. 0 \in S
  <2> SUFFICES ASSUME 0 \in L
               PROVE  d[0] \in L /\ Cardinality(After(L, B, d[0])) = 0
    OBVIOUS
  <2>1. highest \in L
    BY <1>1 DEF Chain, SortedEnds
  <2>2. After(L, B, highest) = {}
    BY <1>1, <2>1 DEF After, Chain, SortedEnds, Orders
  <2> QED
    BY <2>1, <2>2, FS_EmptySet DEF Descent
<1>4. ASSUME NEW n \in 0 .. HeldLength - 1, n \in S PROVE n + 1 \in S
  <2> SUFFICES ASSUME n + 1 \in L
               PROVE  d[n + 1] \in L /\ Cardinality(After(L, B, d[n + 1])) = n + 1
    BY <1>2
  <2>1. n \in Nat /\ n + 1 < HeldLength /\ n + 1 \in 1 .. Length /\ (n + 1) - 1 = n
    BY <1>2
  <2>2. d[n] \in L /\ Cardinality(After(L, B, d[n])) = n
    BY <1>2, <1>4, <2>1
  <2>3. d[n + 1] = Lower(d[n])
    BY <2>1 DEF Descent
  <2>4. prev[d[n]] \in L /\ Cardinality(After(L, B, prev[d[n]])) = n + 1
    BY <1>1, <2>1, <2>2, OneDown
  <2>5. d[n] # NIL /\ prev[d[n]] < HeldLength /\ prev[d[n]] \in Nat
    <3>1. \A i \in Slots : i # NIL /\ i \in Nat
      BY LengthAssumption DEF Slots, NIL
    <3> QED
      BY <1>1, <1>2, <2>2, <2>4, <3>1
  <2>6. Lower(d[n]) = prev[d[n]]
    BY <1>2, <2>5 DEF Lower
  <2> QED
    BY <2>3, <2>4, <2>6
<1>5. 0 .. HeldLength \subseteq S
  <2> HIDE DEF S
  <2>1. HeldLength \in Nat
    BY <1>2
  <2> QED
    BY <1>3, <1>4, <2>1, BoundedInduction
<1>6. \A n \in L : n \in 0 .. HeldLength /\ n \in Nat
  BY <1>2 DEF L, Cells
<1> QED
  BY <1>5, <1>6 DEF L, B

(* Positions of the window are as many as the cells they come from. *)
LEMMA PositionsAreCells ==
    ASSUME TypeOK, HeldLength > 0, NEW T \in SUBSET Cells,
           NEW P \in SUBSET (1 .. HeldLength),
           \A i \in P : Rank(HeldLength + 1 - i) \in T
    PROVE  Cardinality(P) \in Nat /\ Cardinality(P) <= Cardinality(T)
<1>1. /\ HeldLength \in 0 .. Length /\ Length \in Nat
      /\ Newest \in 0 .. HeldLength - 1
  BY Held
<1> DEFINE f == [i \in P |-> Rank(HeldLength + 1 - i)]
<1>2. f \in [P -> T]
  OBVIOUS
<1>3. ASSUME NEW i \in P, NEW j \in P, f[i] = f[j] PROVE i = j
  <2>1. i \in 1 .. HeldLength /\ j \in 1 .. HeldLength
    OBVIOUS
  <2>2. Rank(HeldLength + 1 - i) = Rank(HeldLength + 1 - j)
    BY <1>3
  <2> QED
    BY <1>1, <2>1, <2>2 DEF Rank
<1>4. IsFiniteSet(T)
  <2>1. 0 \in Int /\ HeldLength - 1 \in Int
    BY <1>1
  <2>2. IsFiniteSet(Cells)
    BY <2>1, FS_Interval DEF Cells
  <2> QED
    BY <2>2, FS_Subset
<1> HIDE DEF f
<1>5. f \in Injection(P, T)
  <2>1. DOMAIN f = P
    BY <1>2
  <2> QED
    BY <1>2, <1>3, <2>1 DEF Injection, IsInjective
<1> QED
  BY <1>4, <1>5, FS_CardinalityType, FS_Injection

(* The median of an odd number of offsets, in a buffer of two cells or more,
   is the middle of the list: less than half of the offsets are below it and
   less than half above, whichever were given before, equal ones included. *)
THEOREM MedianOfOddIsInTheMiddle ==
    ASSUME Length # 1 PROVE Spec => []MedianOfOdd
<1>1. Init => IInv
  BY IInvInit
<1>2. IInv /\ [Next]_vars => IInv'
  BY IInvStep
<1>3. ASSUME IInv, pc = "idle", HeldLength % 2 = 1
      PROVE  \E m \in DOMAIN Window :
               /\ DoubleMedian = 2 * Window[m]
               /\ 2 * Cardinality({i \in DOMAIN Window : Window[i] < Window[m]})
                     < HeldLength
               /\ 2 * Cardinality({i \in DOMAIN Window : Window[i] > Window[m]})
                     < HeldLength
  <2> DEFINE h == HeldLength
             q == h \div 2
             L == Cells
             B == Order(ns, oldest)
             w == Window
  <2>1. TypeOK
    BY <1>3 DEF IInv
  <2>2. /\ h \in 0 .. Length /\ Length \in Nat /\ q \in 0 .. h - 1 /\ h = 2 * q + 1
        /\ Newest \in 0 .. h - 1
    BY <1>3, <2>1, Held
  <2>3. /\ w \in Seq(Int) /\ Len(w) = h /\ DOMAIN w = 1 .. h
        /\ \A n \in 1 .. h : Rank(n) \in L /\ ns[Rank(n)] = w[h + 1 - n]
    BY <1>3, <2>1, LenProperties, WindowIs DEF Cells
  <2>4. /\ L \in SUBSET Slots /\ IsFiniteSet(L) /\ Cardinality(L) = h
        /\ Orders(B, L)
    BY <1>3, CellsAre
  <2>5. PICK d : Descent(d) /\ DoubleMedian = 2 * ns[d[q]]
    BY <1>3, <2>1, MedianIs
  <2> DEFINE c == d[q]
  <2>6. c \in L /\ Cardinality(After(L, B, c)) = q
    <3>1. q \in L
      BY <2>2 DEF Cells
    <3> QED
      BY <1>3, <2>5, <3>1, DescentRanks
  <2> HIDE DEF c
  <2>7. Cardinality(Before(L, B, c)) = q
    <3>1. Cardinality(Before(L, B, c)) = h - 1 - q
      BY <2>4, <2>6, AfterAndBefore
    <3> QED
      BY <2>2, <3>1
  <2>8. PICK m \in 1 .. h : Rank(h + 1 - m) = c /\ w[m] = ns[c]
    <3> DEFINE n == IF c <= Newest THEN Newest - c + 1 ELSE Newest - c + 1 + h
    <3>1. c \in 0 .. h - 1
      BY <2>6 DEF Cells
    <3>2. n \in 1 .. h /\ Rank(n) = c
      BY <2>2, <3>1 DEF Rank
    <3>3. h + 1 - n \in 1 .. h /\ h + 1 - (h + 1 - n) = n
      BY <2>2, <3>2
    <3>4. ns[Rank(n)] = w[h + 1 - n]
      BY <2>3, <3>2
    <3> HIDE DEF n, h, w
    <3> QED
      BY <3>2, <3>3, <3>4
  <2>9. \A i \in Slots : ns[i] \in Int
    BY <2>1 DEF TypeOK
  <2>10. \A i, j \in L : ns[i] < ns[j] => <<i, j>> \in B
    BY <2>1, <2>4, OrderPair DEF TypeOK
  <2>11. \A i \in 1 .. h : Rank(h + 1 - i) \in L /\ w[i] = ns[Rank(h + 1 - i)]
    <3> SUFFICES ASSUME NEW i \in 1 .. h
                 PROVE  Rank(h + 1 - i) \in L /\ w[i] = ns[Rank(h + 1 - i)]
      OBVIOUS
    <3>1. h + 1 - i \in 1 .. h /\ h + 1 - (h + 1 - i) = i
      BY <2>2
    <3> QED
      BY <2>3, <3>1
  <2>a. HeldLength > 0
    BY <2>2
  <2>12. /\ Cardinality({i \in DOMAIN w : w[i] < w[m]}) \in Nat
         /\ Cardinality({i \in DOMAIN w : w[i] < w[m]}) <= q
    <3> DEFINE P == {i \in 1 .. h : w[i] < w[m]}
               T == Before(L, B, c)
    <3>1. T \in SUBSET L /\ P \in SUBSET (1 .. h)
      BY DEF Before
    <3>2. \A i \in P : Rank(h + 1 - i) \in T
      BY <2>6, <2>8, <2>10, <2>11 DEF Before
    <3> HIDE DEF P, T
    <3>3. Cardinality(P) \in Nat /\ Cardinality(P) <= Cardinality(T)
      BY <2>1, <2>a, <3>1, <3>2, PositionsAreCells
    <3> QED
      BY <2>3, <2>7, <3>3 DEF P, T
  <2>13. /\ Cardinality({i \in DOMAIN w : w[i] > w[m]}) \in Nat
         /\ Cardinality({i \in DOMAIN w : w[i] > w[m]}) <= q
    <3> DEFINE P == {i \in 1 .. h : w[i] > w[m]}
               T == After(L, B, c)
    <3>1. T \in SUBSET L /\ P \in SUBSET (1 .. h)
      BY DEF After
    <3>2. ASSUME NEW i \in P PROVE Rank(h + 1 - i) \in T
      <4>1. i \in 1 .. h /\ w[i] > w[m]
        OBVIOUS
      <4>2. Rank(h + 1 - i) \in L /\ ns[c] < ns[Rank(h + 1 - i)]
        BY <2>4, <2>6, <2>8, <2>9, <2>11, <4>1
      <4> QED
        BY <2>6, <2>10, <4>2 DEF After
    <3> HIDE DEF P, T
    <3>3. Cardinality(P) \in Nat /\ Cardinality(P) <= Cardinality(T)
      BY <2>1, <2>a, <3>1, <3>2, PositionsAreCells
    <3> QED
      BY <2>3, <2>6, <3>3 DEF P, T
  <2>14. m \in DOMAIN w /\ DoubleMedian = 2 * w[m]
    BY <2>3, <2>5, <2>8 DEF c
  <2> HIDE DEF h, w, q
  <2>15. /\ 2 * Cardinality({i \in DOMAIN w : w[i] < w[m]}) < h
         /\ 2 * Cardinality({i \in DOMAIN w : w[i] > w[m]}) < h
    BY <2>2, <2>12, <2>13
  <2> QED
    BY <2>14, <2>15 DEF w, h
<1>4. IInv => MedianOfOdd
  BY <1>3, Zenon DEF MedianOfOdd
<1> QED
  BY <1>1, <1>2, <1>4, PTL DEF Spec
-----------------------------------------------------------------------------
(* The former statistics, which are given the same offsets. *)

(* What the former ring holds, the oldest offset first. *)
FormerWindow ==
    IF is_full THEN HeldFrom(buff, fk, Length) ELSE HeldFrom(buff, 0, fk)

Cuts(w) == [i \in DOMAIN w |-> F!Cut(w[i])]

(* The former ring is written where the new one is, later: the offset that
   pps_stats_insert has stored is not yet in it while the loop runs. *)
FormerFollows ==
    /\ fk = oldest
    /\ is_full = full
    /\ buff \in [Slots -> Int]
    /\ pc = "walk" => ns[oldest] = x
    /\ \A i \in Live : i # oldest \/ pc # "walk" => buff[i] = ns[i]

FormerSums ==
    /\ fcum = M!Total(FormerWindow)
    /\ fcum2 = M!Squares(FormerWindow)
    /\ icum = fcum
    /\ icum2 = M!Total(Cuts(FormerWindow))

LEMMA FollowsInit == BothInit => FormerFollows
<1> SUFFICES ASSUME Init, F!Init PROVE FormerFollows
  BY DEF BothInit
<1>1. buff \in [Slots -> Int]
  BY DEF F!Init, F!Cells, Slots
<1>2. Live = {}
  BY DEF Init, Live
<1> QED
  BY <1>1, <1>2 DEF Init, F!Init, FormerFollows

LEMMA FollowsStep ==
    ASSUME TypeOK, FormerFollows, [BothNext]_both PROVE FormerFollows'
<1>1. /\ ns \in [Slots -> Int] /\ oldest \in Slots /\ x \in Int /\ full \in BOOLEAN
      /\ Length \in Nat /\ 0 < Length /\ buff \in [Slots -> Int]
      /\ fk = oldest /\ is_full = full
      /\ oldest \in 0 .. Length - 1
  BY LengthAssumption DEF TypeOK, FormerFollows, Slots
<1>2. CASE BothReset
  <2>1. /\ oldest' = 0 /\ full' = FALSE /\ fk' = 0 /\ is_full' = FALSE
        /\ buff' = buff /\ pc' = "idle"
    BY <1>2 DEF BothReset, Reset, F!Restart
  <2>2. Live' = {}
    BY <2>1 DEF Live
  <2> QED
    BY <1>1, <2>1, <2>2 DEF FormerFollows
<1>3. CASE BothUpdate
  <2>1. /\ oldest' = IF oldest + 1 = Length THEN 0 ELSE oldest + 1
        /\ full' = (full \/ oldest + 1 = Length) /\ pc' = "idle"
    BY <1>3 DEF BothUpdate, PlaceFirst, Link, LinkLowest, LinkHighest, LinkBetween,
                Advance
  <2>2. /\ buff' = [buff EXCEPT ![oldest] = x]
        /\ fk' = IF oldest + 1 = Length THEN 0 ELSE oldest + 1
        /\ is_full' = (full \/ oldest + 1 = Length)
    BY <1>1, <1>3 DEF BothUpdate, F!Update
  <2>3. buff' \in [Slots -> Int]
    BY <1>1, <2>2
  <2>4. ns' = [ns EXCEPT ![oldest] = x]
    <3>1. CASE PlaceFirst
      BY <3>1 DEF PlaceFirst, Store
    <3>2. CASE Link
      <4>1. ns' = ns /\ pc = "walk"
        BY <3>2 DEF Link, LinkLowest, LinkHighest, LinkBetween
      <4>2. ns[oldest] = x
        BY <4>1 DEF FormerFollows
      <4> QED
        BY <1>1, <4>1, <4>2
    <3> QED
      BY <1>3, <3>1, <3>2 DEF BothUpdate
  <2>5. Live' \subseteq Live \cup {oldest} /\ Live \subseteq Slots
    BY <1>1, <2>1 DEF Live, Slots
  <2>6. ASSUME NEW i \in Live' PROVE buff'[i] = ns'[i]
    <3>1. CASE i = oldest
      BY <1>1, <2>2, <2>4, <3>1
    <3>2. CASE i # oldest
      <4>1. i \in Live /\ i \in Slots
        BY <2>5, <2>6, <3>2
      <4>2. buff[i] = ns[i]
        BY <3>2, <4>1 DEF FormerFollows
      <4> QED
        BY <1>1, <2>2, <2>4, <3>2, <4>1, <4>2
    <3> QED
      BY <3>1, <3>2
  <2> QED
    BY <2>1, <2>2, <2>3, <2>6 DEF FormerFollows
<1>4. CASE Place /\ UNCHANGED former
  <2>1. /\ oldest' = oldest /\ full' = full /\ fk' = fk /\ is_full' = is_full
        /\ buff' = buff /\ pc' = "walk" /\ x' = x /\ ns' = [ns EXCEPT ![oldest] = x]
        /\ pc = "place"
    BY <1>4 DEF Place, Store, former
  <2>2. Live' = Live /\ Live \subseteq Slots
    BY <1>1, <2>1 DEF Live, Slots
  <2>3. ns'[oldest] = x /\ \A i \in Live : i # oldest => ns'[i] = ns[i]
    BY <1>1, <2>1, <2>2
  <2>4. \A i \in Live : buff[i] = ns[i]
    BY <2>1 DEF FormerFollows
  <2> QED
    BY <1>1, <2>1, <2>2, <2>3, <2>4 DEF FormerFollows
<1>5. CASE \/ (Evict \/ Walk) /\ UNCHANGED former
           \/ \E v \in Offsets : Update(v) /\ UNCHANGED former
           \/ UNCHANGED both
  <2>1. /\ ns' = ns /\ oldest' = oldest /\ full' = full /\ fk' = fk
        /\ is_full' = is_full /\ buff' = buff
        /\ pc' = "walk" => pc = "walk" /\ x' = x
        /\ pc = "walk" => pc' = "walk"
    BY <1>1, <1>5 DEF Evict, Walk, Update, former, both, vars, ring
  <2>2. Live' = Live
    BY <2>1 DEF Live
  <2> QED
    BY <2>1, <2>2 DEF FormerFollows
<1> QED
  BY <1>2, <1>3, <1>4, <1>5 DEF BothNext, BothSteps, Meanwhile

LEMMA FormerWindowIsSeq ==
    ASSUME TypeOK, FormerFollows
    PROVE  /\ FormerWindow \in Seq(Int) /\ Len(FormerWindow) = HeldLength
           /\ is_full => FormerWindow # << >> /\ FormerWindow[1] = buff[fk]
<1>1. /\ oldest \in Slots /\ oldest \in 0 .. Length - 1 /\ 0 \in Slots
      /\ Length \in 0 .. Length /\ oldest \in 0 .. Length /\ 0 < Length /\ Length \in Nat
      /\ buff \in [Slots -> Int] /\ fk = oldest /\ is_full = full
  BY LengthAssumption DEF TypeOK, FormerFollows, Slots
<1>2. CASE is_full
  <2> DEFINE w == HeldFrom(buff, oldest, Length)
  <2>1. /\ w \in Seq(Int) /\ Len(w) = Length
        /\ \A n \in 1 .. Length :
             w[n] = buff[IF oldest + n - 1 < Length THEN oldest + n - 1
                         ELSE oldest + n - 1 - Length]
    BY <1>1, HeldFromIsSeq
  <2>2. 1 \in 1 .. Length /\ oldest + 1 - 1 = oldest /\ oldest < Length
    BY <1>1
  <2> HIDE DEF w
  <2>3. w[1] = buff[oldest]
    BY <2>1, <2>2
  <2>4. w # << >>
    BY <1>1, <2>1
  <2> QED
    BY <1>1, <1>2, <2>1, <2>3, <2>4 DEF w, FormerWindow, HeldLength
<1>3. CASE ~is_full
  <2>1. HeldFrom(buff, 0, oldest) \in Seq(Int) /\ Len(HeldFrom(buff, 0, oldest)) = oldest
    BY <1>1, HeldFromIsSeq
  <2> QED
    BY <1>1, <1>3, <2>1 DEF FormerWindow, HeldLength
<1> QED
  BY <1>2, <1>3

(* Between two calls, the former ring holds the same offsets. *)
LEMMA SameWindow ==
    ASSUME TypeOK, FormerFollows, pc = "idle"
    PROVE  FormerWindow = Window
<1>1. /\ oldest \in Slots /\ oldest \in 0 .. Length - 1 /\ 0 \in Slots
      /\ Length \in 0 .. Length /\ oldest \in 0 .. Length /\ 0 < Length /\ Length \in Nat
      /\ buff \in [Slots -> Int] /\ ns \in [Slots -> Int] /\ fk = oldest /\ is_full = full
  BY LengthAssumption DEF TypeOK, FormerFollows, Slots
<1>2. \A i \in Live : buff[i] = ns[i]
  BY DEF FormerFollows
<1>3. CASE full
  <2>1. Live = Slots
    BY <1>3 DEF Live
  <2>2. buff = ns
    <3>1. buff = [i \in Slots |-> buff[i]] /\ ns = [i \in Slots |-> ns[i]]
      BY <1>1
    <3>2. \A i \in Slots : buff[i] = ns[i]
      BY <1>2, <2>1
    <3>3. [i \in Slots |-> buff[i]] = [i \in Slots |-> ns[i]]
      BY <3>2
    <3> QED
      BY <3>1, <3>3, Zenon
  <2> QED
    BY <1>1, <1>3, <2>2 DEF FormerWindow, Window
<1>4. CASE ~full
  <2> DEFINE u == HeldFrom(buff, 0, oldest)
             w == HeldFrom(ns, 0, oldest)
  <2>1. /\ u \in Seq(Int) /\ Len(u) = oldest
        /\ \A n \in 1 .. oldest :
             u[n] = buff[IF 0 + n - 1 < Length THEN 0 + n - 1 ELSE 0 + n - 1 - Length]
    BY <1>1, HeldFromIsSeq
  <2>2. /\ w \in Seq(Int) /\ Len(w) = oldest
        /\ \A n \in 1 .. oldest :
             w[n] = ns[IF 0 + n - 1 < Length THEN 0 + n - 1 ELSE 0 + n - 1 - Length]
    BY <1>1, HeldFromIsSeq
  <2> HIDE DEF u, w
  <2>3. ASSUME NEW n \in 1 .. oldest PROVE u[n] = w[n]
    <3>1. 0 + n - 1 < Length /\ 0 + n - 1 \in 0 .. oldest - 1
      BY <1>1
    <3>2. 0 + n - 1 \in Live
      BY <1>4, <3>1 DEF Live
    <3> QED
      BY <1>2, <2>1, <2>2, <3>1, <3>2
  <2>4. u = w
    BY <2>1, <2>2, <2>3, SeqEqual
  <2> QED
    BY <1>1, <1>4, <2>4 DEF FormerWindow, Window, u, w
<1> QED
  BY <1>3, <1>4

LEMMA FormerPushed ==
    ASSUME TypeOK, FormerFollows, BothUpdate
    PROVE  FormerWindow' =
             Append(IF is_full THEN Tail(FormerWindow) ELSE FormerWindow, x)
<1>1. /\ oldest \in Slots /\ oldest \in 0 .. Length - 1 /\ 0 \in Slots /\ x \in Int
      /\ oldest \in 0 .. Length /\ 0 < Length /\ Length \in Nat
      /\ buff \in [Slots -> Int] /\ fk = oldest /\ is_full = full
  BY LengthAssumption DEF TypeOK, FormerFollows, Slots
<1> DEFINE g == [buff EXCEPT ![oldest] = x]
<1>2. /\ buff' = g /\ fk' = Following(oldest)
      /\ is_full' = (is_full \/ oldest + 1 = Length)
  BY <1>1 DEF BothUpdate, F!Update, Following
<1> HIDE DEF g
<1>3. CASE is_full
  <2>1. FormerWindow' = HeldFrom(g, Following(oldest), Length)
    BY <1>2, <1>3 DEF FormerWindow
  <2> QED
    BY <1>1, <1>3, <2>1, OverwriteSlides DEF FormerWindow, g
<1>4. CASE ~is_full
  <2>1. HeldFrom(g, 0, oldest + 1) = Append(HeldFrom(buff, 0, oldest), x)
    BY <1>1, WriteAppends DEF g
  <2>2. FormerWindow' = HeldFrom(g, 0, oldest + 1)
    BY <1>1, <1>2, <1>4 DEF FormerWindow, Following
  <2> QED
    BY <1>1, <1>4, <2>1, <2>2 DEF FormerWindow
<1> QED
  BY <1>3, <1>4

(* The square of an offset, cut to an unsigned number. *)
LEMMA CutIs ==
    ASSUME NEW n \in Int
    PROVE  /\ F!Cut(n) \in Int
           /\ \E q \in Nat : n * n = Unsigned * q + F!Cut(n)
           /\ n * n < Unsigned => F!Cut(n) = n * n
<1> DEFINE s2 == n * n
           q == s2 \div Unsigned
           r == s2 % Unsigned
<1>1. s2 \in Nat /\ Unsigned \in Nat \ {0}
  <2>1. n * n >= 0 /\ n * n \in Int
    OBVIOUS
  <2> QED
    BY <2>1, UnsignedAssumption
<1>2. F!Cut(n) = r
  BY DEF F!Cut
<1> HIDE DEF s2
<1>3. q \in Nat /\ r \in 0 .. Unsigned - 1 /\ s2 = Unsigned * q + r
  <2>1. q \in Int /\ r \in 0 .. Unsigned - 1 /\ s2 = Unsigned * q + r
    BY <1>1
  <2> HIDE DEF q, r
  <2>2. q >= 0
    <3>1. ASSUME q <= -1 PROVE FALSE
      <4>1. Unsigned * q <= -Unsigned
        BY <1>1, <2>1, <3>1
      <4> QED
        BY <1>1, <2>1, <4>1
    <3> QED
      BY <2>1, <3>1
  <2> QED
    BY <2>1, <2>2
<1> HIDE DEF q, r
<1>4. s2 < Unsigned => r = s2
  <2> SUFFICES ASSUME s2 < Unsigned PROVE r = s2
    OBVIOUS
  <2>1. ASSUME q >= 1 PROVE FALSE
    <3>1. Unsigned * q >= Unsigned
      BY <1>1, <1>3, <2>1
    <3> QED
      BY <1>1, <1>3, <3>1
  <2>2. q = 0
    BY <1>3, <2>1
  <2> QED
    BY <1>1, <1>3, <2>2
<1> QED
  BY <1>2, <1>3, <1>4 DEF s2

LEMMA CutsAre ==
    ASSUME NEW w \in Seq(Int)
    PROVE  /\ Cuts(w) \in Seq(Int) /\ Len(Cuts(w)) = Len(w)
           /\ \A i \in 1 .. Len(w) : w[i] \in Int /\ Cuts(w)[i] = F!Cut(w[i])
<1>1. DOMAIN w = 1 .. Len(w) /\ Len(w) \in Nat /\ \A i \in 1 .. Len(w) : w[i] \in Int
  BY SquareOf
<1>2. \A i \in 1 .. Len(w) : F!Cut(w[i]) \in Int
  BY <1>1, CutIs
<1>3. Cuts(w) = [i \in 1 .. Len(w) |-> F!Cut(w[i])]
  BY <1>1 DEF Cuts
<1> QED
  BY <1>1, <1>2, <1>3

LEMMA CutsAppend ==
    ASSUME NEW w \in Seq(Int), NEW v \in Int
    PROVE  M!Total(Cuts(Append(w, v))) = M!Total(Cuts(w)) + F!Cut(v)
<1> DEFINE u == Append(w, v)
           a == Append(Cuts(w), F!Cut(v))
<1>1. /\ u \in Seq(Int) /\ Len(u) = Len(w) + 1 /\ u[Len(w) + 1] = v
      /\ Len(w) \in Nat
      /\ \A i \in 1 .. Len(w) : u[i] = w[i]
  BY LenProperties, AppendProperties
<1>2. Cuts(w) \in Seq(Int) /\ Len(Cuts(w)) = Len(w) /\ F!Cut(v) \in Int
      /\ \A i \in 1 .. Len(w) : Cuts(w)[i] = F!Cut(w[i])
  BY CutsAre, CutIs
<1>3. /\ a \in Seq(Int) /\ Len(a) = Len(w) + 1 /\ a[Len(w) + 1] = F!Cut(v)
      /\ \A i \in 1 .. Len(w) : a[i] = Cuts(w)[i]
  BY <1>2, AppendProperties
<1> HIDE DEF u, a
<1>4. /\ Cuts(u) \in Seq(Int) /\ Len(Cuts(u)) = Len(w) + 1
      /\ \A i \in 1 .. Len(w) + 1 : Cuts(u)[i] = F!Cut(u[i])
  BY <1>1, CutsAre
<1>5. ASSUME NEW i \in 1 .. Len(w) + 1 PROVE Cuts(u)[i] = a[i]
  <2>1. CASE i = Len(w) + 1
    <3>1. Cuts(u)[i] = F!Cut(u[i])
      BY <1>4
    <3>2. u[i] = v /\ a[i] = F!Cut(v)
      BY <1>1, <1>3, <2>1
    <3> QED
      BY <3>1, <3>2
  <2>2. CASE i # Len(w) + 1
    <3>1. i \in 1 .. Len(w)
      BY <1>1, <2>2
    <3>2. Cuts(u)[i] = F!Cut(u[i])
      BY <1>4
    <3>3. u[i] = w[i] /\ a[i] = F!Cut(w[i])
      BY <1>1, <1>2, <1>3, <3>1
    <3> QED
      BY <3>2, <3>3
  <2> QED
    BY <2>1, <2>2
<1>6. Cuts(u) = a
  BY <1>3, <1>4, <1>5, SeqEqual
<1>7. M!Total(a) = M!Total(Cuts(w)) + F!Cut(v)
  BY <1>2, TotalAppend DEF a
<1> QED
  BY <1>6, <1>7 DEF u

LEMMA CutsTail ==
    ASSUME NEW w \in Seq(Int), w # << >>
    PROVE  M!Total(Cuts(Tail(w))) = M!Total(Cuts(w)) - F!Cut(w[1])
<1> DEFINE u == Tail(w)
           a == Tail(Cuts(w))
<1>1. /\ Len(w) \in Nat /\ Len(w) >= 1 /\ u \in Seq(Int) /\ Len(u) = Len(w) - 1
      /\ \A i \in 1 .. Len(w) - 1 : u[i] = w[i + 1]
  BY LenProperties, HeadTailProperties, EmptySeq
<1>2. Cuts(w) \in Seq(Int) /\ Len(Cuts(w)) = Len(w)
      /\ \A i \in 1 .. Len(w) : Cuts(w)[i] = F!Cut(w[i])
  BY CutsAre
<1>3. Cuts(w) # << >>
  BY <1>1, <1>2
<1>4. /\ a \in Seq(Int) /\ Len(a) = Len(w) - 1
      /\ \A i \in 1 .. Len(w) - 1 : a[i] = Cuts(w)[i + 1]
  BY <1>2, <1>3, HeadTailProperties
<1> HIDE DEF u, a
<1>5. /\ Cuts(u) \in Seq(Int) /\ Len(Cuts(u)) = Len(w) - 1
      /\ \A i \in 1 .. Len(w) - 1 : Cuts(u)[i] = F!Cut(u[i])
  BY <1>1, CutsAre
<1>6. ASSUME NEW i \in 1 .. Len(w) - 1 PROVE Cuts(u)[i] = a[i]
  <2>1. i + 1 \in 1 .. Len(w)
    BY <1>1
  <2> QED
    BY <1>1, <1>2, <1>4, <1>5, <2>1
<1>7. Cuts(u) = a
  BY <1>4, <1>5, <1>6, SeqEqual
<1>8. M!Total(a) = M!Total(Cuts(w)) - Cuts(w)[1]
  BY <1>2, <1>3, TotalTail DEF a
<1>9. Cuts(w)[1] = F!Cut(w[1])
  BY <1>1, <1>2
<1> QED
  BY <1>7, <1>8, <1>9 DEF u

LEMMA FormerSumsInit == BothInit => FormerSums
<1> SUFFICES ASSUME Init, F!Init PROVE FormerSums
  BY DEF BothInit
<1>1. FormerWindow = << >> /\ Cuts(<< >>) = << >>
  BY DEF F!Init, FormerWindow, HeldFrom, Cuts
<1> QED
  BY <1>1, TotalEmpty DEF F!Init, FormerSums

LEMMA FormerSumsStep ==
    ASSUME TypeOK, FormerFollows, FormerSums, [BothNext]_both PROVE FormerSums'
<1>1. CASE BothReset
  <2>1. /\ fk' = 0 /\ is_full' = FALSE /\ fcum' = 0 /\ fcum2' = 0
        /\ icum' = 0 /\ icum2' = 0
    BY <1>1 DEF BothReset, F!Restart
  <2>2. FormerWindow' = << >> /\ Cuts(<< >>) = << >>
    BY <2>1 DEF FormerWindow, HeldFrom, Cuts
  <2> QED
    BY <2>1, <2>2, TotalEmpty DEF FormerSums
<1>2. CASE BothUpdate
  <2> DEFINE w == FormerWindow
             y == IF is_full THEN buff[fk] ELSE 0
             kept == IF is_full THEN Tail(w) ELSE w
  <2>1. /\ fcum' = fcum - y + x /\ fcum2' = fcum2 - y * y + x * x
        /\ icum' = icum - y + x /\ icum2' = icum2 - F!Cut(y) + F!Cut(x)
    BY <1>2 DEF BothUpdate, F!Update
  <2>2. /\ w \in Seq(Int) /\ x \in Int /\ y \in Int
        /\ is_full => w # << >> /\ w[1] = y
    <3>1. fk \in Slots /\ buff \in [Slots -> Int] /\ x \in Int
      BY DEF TypeOK, FormerFollows
    <3> QED
      BY <3>1, FormerWindowIsSeq
  <2>3. FormerWindow' = Append(kept, x)
    BY <1>2, FormerPushed
  <2>4. /\ fcum = M!Total(w) /\ fcum2 = M!Squares(w) /\ icum = fcum
        /\ icum2 = M!Total(Cuts(w))
    BY DEF FormerSums
  <2>5. ~is_full => y = 0
    OBVIOUS
  <2> HIDE DEF w, y
  <2>6. F!Cut(0) = 0
    <3>1. 0 * 0 = 0 /\ 0 < Unsigned
      BY UnsignedAssumption
    <3> QED
      BY <3>1, CutIs
  <2>7. /\ kept \in Seq(Int) /\ M!Total(w) \in Int /\ M!Squares(w) \in Int
        /\ M!Total(Cuts(w)) \in Int /\ F!Cut(y) \in Int /\ F!Cut(x) \in Int
        /\ y * y \in Int /\ x * x \in Int
    <3>1. kept \in Seq(Int)
      BY <2>2, TotalTail
    <3>2. M!Total(w) \in Int /\ M!Squares(w) \in Int
      BY <2>2, TotalType
    <3>3. M!Total(Cuts(w)) \in Int
      BY <2>2, TotalType, CutsAre
    <3>4. F!Cut(y) \in Int /\ F!Cut(x) \in Int
      BY <2>2, CutIs
    <3> QED
      BY <2>2, <3>1, <3>2, <3>3, <3>4
  <2>8. /\ M!Total(kept) = M!Total(w) - y /\ M!Squares(kept) = M!Squares(w) - y * y
        /\ M!Total(Cuts(kept)) = M!Total(Cuts(w)) - F!Cut(y)
    <3>1. CASE is_full
      BY <2>2, <3>1, TotalTail, CutsTail
    <3>2. CASE ~is_full
      BY <2>5, <2>6, <2>7, <3>2
    <3> QED
      BY <3>1, <3>2
  <2> HIDE DEF kept
  <2>9. /\ M!Total(FormerWindow') = M!Total(kept) + x
        /\ M!Squares(FormerWindow') = M!Squares(kept) + x * x
        /\ M!Total(Cuts(FormerWindow')) = M!Total(Cuts(kept)) + F!Cut(x)
    BY <2>2, <2>3, <2>7, TotalAppend, CutsAppend
  <2>10. /\ fcum' = M!Total(FormerWindow') /\ fcum2' = M!Squares(FormerWindow')
         /\ icum' = fcum' /\ icum2' = M!Total(Cuts(FormerWindow'))
    BY <2>1, <2>4, <2>8, <2>9
  <2> QED
    BY <2>10 DEF FormerSums
<1>3. CASE UNCHANGED former
  BY <1>3 DEF former, FormerSums, FormerWindow
<1> QED
  BY <1>1, <1>2, <1>3 DEF BothNext, BothSteps, Meanwhile, both

-----------------------------------------------------------------------------
(* What the integer version makes of its sums. *)

LEMMA QuotientIs ==
    ASSUME NEW a \in Int, NEW b \in Nat \ {0}
    PROVE  LET m == F!Quotient(a, b)
           IN  /\ m \in Int /\ m * a >= 0
               /\ -b < a - b * m /\ a - b * m < b
               /\ (b * m) * (b * m) <= a * a
<1> DEFINE m == F!Quotient(a, b)
<1>1. ASSUME NEW c \in Nat, NEW d, d = c \div b
      PROVE  d \in Nat /\ b * d \in Nat /\ b * d <= c /\ c < b * d + b
  <2>1. d \in Int /\ b * d <= c /\ c < b * d + b
    BY <1>1
  <2>2. d >= 0
    <3>1. ASSUME d <= -1 PROVE FALSE
      <4>1. b * d <= -b
        BY <2>1, <3>1
      <4> QED
        BY <1>1, <2>1, <4>1
    <3> QED
      BY <2>1, <3>1
  <2> QED
    BY <2>1, <2>2
<1>2. ASSUME NEW c \in Nat, NEW d \in Nat, d <= c PROVE d * d <= c * c
  <2>1. d * d <= d * c
    BY <1>2
  <2>2. d * c <= c * c
    BY <1>2
  <2>3. d * d \in Int /\ d * c \in Int /\ c * c \in Int
    OBVIOUS
  <2> QED
    BY <2>1, <2>2, <2>3
<1>3. CASE a >= 0
  <2> DEFINE d == a \div b
  <2>1. m = d
    BY <1>3 DEF F!Quotient
  <2>2. a \in Nat
    BY <1>3
  <2>3. d \in Nat /\ b * d \in Nat /\ b * d <= a /\ a < b * d + b
    BY <1>1, <2>2
  <2> HIDE DEF d
  <2>4. (b * d) * (b * d) <= a * a
    <3> DEFINE e == b * d
    <3>1. e \in Nat /\ e <= a
      BY <2>3
    <3> HIDE DEF e
    <3>2. e * e <= a * a
      BY <1>2, <2>2, <3>1
    <3> QED
      BY <3>2 DEF e
  <2>5. d * a >= 0
    BY <2>2, <2>3
  <2> HIDE DEF m
  <2> QED
    BY <2>1, <2>3, <2>4, <2>5 DEF m
<1>4. CASE a < 0
  <2> DEFINE c == -a
             d == c \div b
  <2>1. m = -d
    BY <1>4 DEF F!Quotient
  <2>2. c \in Nat
    BY <1>4
  <2> HIDE DEF c
  <2>3. d \in Nat /\ b * d \in Nat /\ b * d <= c /\ c < b * d + b
    BY <1>1, <2>2
  <2> HIDE DEF d
  <2>4. (b * d) * (b * d) <= c * c
    <3> DEFINE e == b * d
    <3>1. e \in Nat /\ e <= c
      BY <2>3
    <3> HIDE DEF e
    <3>2. e * e <= c * c
      BY <1>2, <2>2, <3>1
    <3> QED
      BY <3>2 DEF e
  <2>5. d * c >= 0
    BY <2>2, <2>3
  <2>6. /\ b * (-d) = -(b * d) /\ (-d) * a = d * c /\ c * c = a * a /\ a = -c
        /\ (-(b * d)) * (-(b * d)) = (b * d) * (b * d)
    BY <2>3 DEF c
  <2> HIDE DEF m
  <2>7. /\ m \in Int /\ b * m = -(b * d) /\ m * a = d * c
    BY <2>1, <2>3, <2>6
  <2>8. (b * m) * (b * m) <= a * a
    BY <2>4, <2>6, <2>7
  <2> QED
    BY <2>2, <2>3, <2>5, <2>6, <2>7, <2>8 DEF m
<1> QED
  BY <1>3, <1>4

(* A sum of squares cut to unsigned numbers is wrong by a multiple of 2^32,
   and right if no square is cut. *)
LEMMA CutsDiffer ==
    ASSUME NEW w \in Seq(Int)
    PROVE  /\ \E q \in Int : M!Squares(w) = Unsigned * q + M!Total(Cuts(w))
           /\ (\A i \in 1 .. Len(w) : w[i] * w[i] < Unsigned)
                 => M!Squares(w) = M!Total(Cuts(w))
<1> DEFINE k == Len(w)
           p == [i \in 1 .. k |->
                   CHOOSE q \in Nat : w[i] * w[i] = Unsigned * q + F!Cut(w[i])]
<1>1. /\ k \in Nat /\ Cuts(w) \in Seq(Int) /\ Len(Cuts(w)) = k
      /\ \A i \in 1 .. k : /\ w[i] \in Int /\ Cuts(w)[i] = F!Cut(w[i])
                           /\ Square(w)[i] = w[i] * w[i]
                           /\ Square(w)[i] \in Int /\ Cuts(w)[i] \in Int
  BY CutsAre, SquareOf, CutIs
<1>2. ASSUME NEW i \in 1 .. k
      PROVE  p[i] \in Int /\ Square(w)[i] = Unsigned * p[i] + 1 * Cuts(w)[i]
  <2>1. \E q \in Nat : w[i] * w[i] = Unsigned * q + F!Cut(w[i])
    BY <1>1, CutIs
  <2>2. p[i] \in Nat /\ w[i] * w[i] = Unsigned * p[i] + F!Cut(w[i])
    BY <2>1
  <2> HIDE DEF p
  <2>3. 1 * Cuts(w)[i] = Cuts(w)[i]
    BY <1>1
  <2>4. p[i] \in Int
    BY <2>2
  <2> QED
    BY <1>1, <2>2, <2>3, <2>4
<1> HIDE DEF p
<1>3. /\ M!Squares(w) = SumTo(Square(w), k) /\ M!Total(Cuts(w)) = SumTo(Cuts(w), k)
  BY <1>1, TotalIs
<1> HIDE DEF k
<1>4. SumTo(Square(w), k) = Unsigned * SumTo(p, k) + 1 * SumTo(Cuts(w), k)
  <2> DEFINE one == 1
             g == Cuts(w)
             h == Square(w)
  <2>1. /\ one \in Int /\ Unsigned \in Int /\ k \in Nat
        /\ \A i \in 1 .. k : /\ p[i] \in Int /\ g[i] \in Int
                             /\ h[i] = Unsigned * p[i] + one * g[i]
    BY <1>1, <1>2, UnsignedAssumption
  <2> HIDE DEF one, g, h
  <2>2. SumTo(h, k) = Unsigned * SumTo(p, k) + one * SumTo(g, k)
    BY <2>1, SumLinear
  <2> QED
    BY <2>2 DEF one, g, h
<1>5. SumTo(p, k) \in Int /\ SumTo(Cuts(w), k) \in Int
  <2>1. k \in 0 .. k
    BY <1>1
  <2> QED
    BY <1>1, <1>2, <2>1, SumType
<1>6. \E q \in Int : M!Squares(w) = Unsigned * q + M!Total(Cuts(w))
  <2>1. 1 * SumTo(Cuts(w), k) = SumTo(Cuts(w), k)
    BY <1>5
  <2>2. M!Squares(w) = Unsigned * SumTo(p, k) + M!Total(Cuts(w))
    BY <1>3, <1>4, <2>1
  <2> QED
    BY <1>5, <2>2
<1>7. ASSUME \A i \in 1 .. k : w[i] * w[i] < Unsigned
      PROVE  M!Squares(w) = M!Total(Cuts(w))
  <2>1. \A i \in 1 .. k : Square(w)[i] = Cuts(w)[i]
    BY <1>1, <1>7, CutIs
  <2> QED
    BY <1>1, <1>3, <2>1, SumSame
<1> QED
  BY <1>6, <1>7 DEF k

LEMMA MultipleOf ==
    ASSUME NEW u \in Nat \ {0}, NEW q \in Int, NEW d, d = u * q
    PROVE  d % u = 0
<1> DEFINE p == d \div u
           r == d % u
<1>1. d \in Int
  OBVIOUS
<1>2. p \in Int /\ r \in 0 .. u - 1 /\ d = u * p + r
  BY <1>1
<1> HIDE DEF p, r
<1>3. u * (q - p) = r
  <2>1. u * (q - p) = u * q - u * p /\ u * q \in Int /\ u * p \in Int
    BY <1>2
  <2> QED
    BY <1>1, <1>2, <2>1
<1>4. ~(q - p >= 1)
  <2> SUFFICES ASSUME q - p >= 1 PROVE FALSE
    OBVIOUS
  <2>1. u * (q - p) >= u
    BY <1>2
  <2> QED
    BY <1>2, <1>3, <2>1
<1>5. ~(q - p <= -1)
  <2> SUFFICES ASSUME q - p <= -1 PROVE FALSE
    OBVIOUS
  <2>1. u * (q - p) <= -u
    BY <1>2
  <2> QED
    BY <1>2, <1>3, <2>1
<1>6. q - p = 0
  BY <1>2, <1>4, <1>5
<1>7. r = 0
  BY <1>2, <1>3, <1>6
<1> QED
  BY <1>7 DEF r

(* What the former statistics hold between two calls. *)
LEMMA FormerHolds ==
    ASSUME TypeOK, RunningSums, FormerFollows, FormerSums, pc = "idle"
    PROVE  /\ Window \in Seq(Int) /\ Len(Window) = HeldLength /\ F!Held = HeldLength
           /\ HeldLength \in Nat
           /\ cum = M!Total(Window) /\ cum2 = M!Squares(Window)
           /\ fcum = M!Total(Window) /\ fcum2 = M!Squares(Window)
           /\ icum = M!Total(Window) /\ icum2 = M!Total(Cuts(Window))
<1>1. FormerWindow = Window
  BY SameWindow
<1>2. Kept = Window
  BY DEF Kept
<1>3. F!Held = HeldLength
  BY DEF F!Held, HeldLength, FormerFollows
<1>4. HeldLength \in Nat
  BY Held
<1> QED
  BY <1>1, <1>2, <1>3, <1>4, WindowIs DEF RunningSums, FormerSums

LEMMA IntegerSumsHold ==
    ASSUME TypeOK, RunningSums, FormerFollows, FormerSums PROVE IntegerSums
<1> SUFFICES ASSUME pc = "idle"
             PROVE  /\ HeldLength > 0 =>
                         /\ F!IntMean * icum >= 0
                         /\ LET rest == icum - HeldLength * F!IntMean
                            IN  -HeldLength < rest /\ rest < HeldLength
                    /\ (cum2 - icum2) % Unsigned = 0
                    /\ (\A i \in Live : ns[i] * ns[i] < Unsigned) =>
                         cum2 = icum2 /\ F!IntSpread >= 0
  BY DEF IntegerSums
<1> DEFINE w == Window
           n == HeldLength
           m == F!IntMean
           S == M!Total(w)
           Q == M!Squares(w)
           C == M!Total(Cuts(w))
<1>1. /\ w \in Seq(Int) /\ Len(w) = n /\ F!Held = n /\ n \in Nat
      /\ cum2 = Q /\ icum = S /\ icum2 = C
  BY FormerHolds
<1>2. /\ S \in Int /\ Q \in Int /\ C \in Int
  BY <1>1, TotalType, CutsAre
<1>3. m = IF n = 0 THEN 0 ELSE F!Quotient(S, n)
  BY <1>1 DEF F!IntMean
<1>4. n > 0 => /\ m \in Int /\ m * S >= 0 /\ -n < S - n * m /\ S - n * m < n
               /\ (n * m) * (n * m) <= S * S
  <2> SUFFICES ASSUME n > 0
               PROVE  /\ m \in Int /\ m * S >= 0 /\ -n < S - n * m
                      /\ S - n * m < n /\ (n * m) * (n * m) <= S * S
    OBVIOUS
  <2> HIDE DEF n, S, m
  <2>1. S \in Int /\ n \in Nat \ {0}
    BY <1>1, <1>2
  <2>2. m = F!Quotient(S, n)
    BY <1>3, <2>1
  <2> QED
    BY <2>1, <2>2, QuotientIs
<1>5. (Q - C) % Unsigned = 0
  <2>1. PICK q \in Int : Q = Unsigned * q + C
    BY <1>1, CutsDiffer
  <2> HIDE DEF Q, C
  <2>2. Q - C = Unsigned * q
    <3>1. Unsigned * q \in Int
      BY UnsignedAssumption
    <3> QED
      BY <1>2, <2>1, <3>1
  <2> QED
    BY <2>2, MultipleOf, UnsignedAssumption
<1>6. ASSUME \A i \in Live : ns[i] * ns[i] < Unsigned
      PROVE  Q = C /\ F!IntSpread >= 0
  <2>1. ASSUME NEW i \in 1 .. n PROVE w[i] * w[i] < Unsigned
    <3>1. n + 1 - i \in 1 .. n /\ n + 1 - (n + 1 - i) = i
      BY <1>1
    <3>2. Rank(n + 1 - i) \in 0 .. n - 1 /\ ns[Rank(n + 1 - i)] = w[i]
      BY <3>1, WindowIs
    <3>3. 0 .. n - 1 \subseteq Live
      BY Held DEF Live, Slots
    <3> QED
      BY <1>6, <3>2, <3>3
  <2>2. Q = C
    BY <1>1, <2>1, CutsDiffer
  <2>3. F!IntSpread = C - n * m * m
    BY <1>1 DEF F!IntSpread
  <2>4. n * Q - S * S >= 0
    <3> DEFINE g == Square(w)
    <3>1. \A i \in 1 .. n : w[i] \in Int /\ g[i] = w[i] * w[i]
      BY <1>1, SquareOf
    <3>2. S = SumTo(w, n) /\ Q = SumTo(g, n)
      BY <1>1, TotalIs
    <3> HIDE DEF g, S, Q, w, n
    <3> QED
      BY <1>1, <3>1, <3>2, SquaresAbove
  <2> HIDE DEF w, n, m, S, Q, C
  <2>5. CASE n = 0
    <3>1. Q >= 0
      <4>1. Q = 0
        BY <1>1, <2>5, SumStep, TotalIs DEF Q
      <4> QED
        BY <4>1
    <3>2. m = 0
      BY <1>3, <2>5
    <3> QED
      BY <1>2, <2>2, <2>3, <2>5, <3>1, <3>2
  <2>6. CASE n # 0
    <3>1. /\ n > 0 /\ m \in Int /\ (n * m) * (n * m) <= S * S
      BY <1>1, <1>4, <2>6
    <3> DEFINE e == Q - n * m * m
    <3>2. e \in Int /\ n * e = n * Q - (n * m) * (n * m)
      <4>1. n * (Q - n * m * m) = n * Q - (n * m) * (n * m)
        BY <1>1, <1>2, <3>1
      <4> QED
        BY <1>1, <1>2, <3>1, <4>1
    <3> HIDE DEF e
    <3>3. n * e >= 0
      <4>1. n * Q \in Int /\ S * S \in Int /\ (n * m) * (n * m) \in Int
        BY <1>1, <1>2, <3>1
      <4> QED
        BY <2>4, <3>1, <3>2, <4>1
    <3>4. ~(e < 0)
      <4> SUFFICES ASSUME e < 0 PROVE FALSE
        OBVIOUS
      <4>1. n * e < 0
        BY <1>1, <3>1, <3>2
      <4> QED
        BY <1>1, <3>2, <3>3, <4>1
    <3> QED
      BY <2>2, <2>3, <3>2, <3>4 DEF e
  <2> QED
    BY <2>2, <2>5, <2>6
<1> QED
  BY <1>1, <1>4, <1>5, <1>6

-----------------------------------------------------------------------------
(* What both versions' loops over the former ring add up. *)

LEMMA SameFormerSum == \A f : \A k : F!SumTo(f, k) = SumTo(f, k)
BY DEF F!SumTo, SumTo

LEMMA FormerSumIs == \A S, g : F!Sum(S, g) = SumTo(Masked(S, g, Length), Length)
BY SameFormerSum DEF F!Sum, Masked

(* From the newest offset to older ones, round the start of the ring. *)
LEMMA RecentIs ==
    ASSUME TypeOK, FormerFollows, NEW win \in 1 .. HeldLength,
           NEW g, \A i \in 0 .. Length - 1 : g[i] \in Int
    PROVE  F!Sum(F!Recent(win), g) = SumTo([j \in 1 .. win |-> g[Rank(j)]], win)
<1> DEFINE R == [j \in 0 .. win |-> F!Recent(j)]
           cell == [j \in 1 .. win |-> Rank(j)]
<1>1. /\ Length \in Nat /\ Length > 0 /\ HeldLength \in 0 .. Length
      /\ oldest \in 0 .. Length - 1
      /\ full => Newest = IF oldest = 0 THEN Length - 1 ELSE oldest - 1
      /\ ~full /\ oldest > 0 => Newest = oldest - 1
      /\ HeldLength = IF full THEN Length ELSE oldest
      /\ fk = oldest /\ is_full = full /\ F!Held = HeldLength
  BY Held DEF FormerFollows, F!Held
<1>2. \A j \in 0 .. win :
        F!Recent(j) = IF j <= oldest
                      THEN oldest - j .. oldest - 1
                      ELSE 0 .. oldest - 1 \cup Length - (j - oldest) .. Length - 1
  <2> SUFFICES ASSUME NEW j \in 0 .. win
               PROVE  F!Recent(j) =
                        IF j <= oldest
                        THEN oldest - j .. oldest - 1
                        ELSE 0 .. oldest - 1 \cup Length - (j - oldest) .. Length - 1
    OBVIOUS
  <2>1. ~(j <= oldest) => F!Held = Length
    BY <1>1
  <2>2. fk = oldest
    BY <1>1
  <2>3. F!Recent(j) = IF j <= fk THEN fk - j .. fk - 1
                      ELSE 0 .. fk - 1 \cup F!Held - (j - fk) .. F!Held - 1
    BY DEF F!Recent
  <2> QED
    BY <2>1, <2>2, <2>3
<1>3. F!Recent(0) = {}
  BY <1>1, <1>2
<1>4. \A j \in 1 .. win : Rank(j) = IF j <= oldest THEN oldest - j
                                    ELSE Length - (j - oldest)
  BY <1>1 DEF Rank
<1>5. ASSUME NEW j \in 1 .. win
      PROVE  /\ Rank(j) \in 0 .. Length - 1 /\ Rank(j) \notin F!Recent(j - 1)
             /\ F!Recent(j) = F!Recent(j - 1) \cup {Rank(j)}
  <2>1. j - 1 \in 0 .. win /\ j \in 0 .. win
    OBVIOUS
  <2>2. CASE j <= oldest
    <3>1. /\ F!Recent(j - 1) = oldest - (j - 1) .. oldest - 1
          /\ F!Recent(j) = oldest - j .. oldest - 1
          /\ Rank(j) = oldest - j
      BY <1>1, <1>2, <1>4, <2>1, <2>2
    <3> QED
      BY <1>1, <2>2, <3>1
  <2>3. CASE j > oldest
    <3>1. /\ F!Recent(j) = 0 .. oldest - 1 \cup Length - (j - oldest) .. Length - 1
          /\ Rank(j) = Length - (j - oldest) /\ full
      BY <1>1, <1>2, <1>4, <2>1, <2>3
    <3>2. F!Recent(j - 1) = 0 .. oldest - 1 \cup Length - (j - 1 - oldest) .. Length - 1
      BY <1>1, <1>2, <2>1, <2>3
    <3>3. Length - (j - oldest) >= oldest
      BY <1>1, <2>3, <3>1
    <3> QED
      BY <1>1, <2>3, <3>1, <3>2, <3>3
  <2> QED
    BY <1>1, <2>2, <2>3
<1>6. R[0] = {} /\ R[win] = F!Recent(win)
  BY <1>3
<1>7. ASSUME NEW j \in 1 .. win
      PROVE  /\ cell[j] \in 0 .. Length - 1 /\ cell[j] \notin R[j - 1]
             /\ R[j] = R[j - 1] \cup {cell[j]}
  <2>1. j - 1 \in 0 .. win /\ j \in 0 .. win
    OBVIOUS
  <2> QED
    BY <1>5, <2>1
<1>8. win \in Nat
  BY <1>1
<1> DEFINE f == [j \in 1 .. win |-> g[Rank(j)]]
<1>9. SumTo(Masked(R[win], g, Length), Length) = SumTo(f, win)
  <2>1. \A i \in 0 .. Length - 1 : g[i] \in Int
    OBVIOUS
  <2>2. R[0] = {} /\ Length \in Nat
    BY <1>1, <1>6
  <2>3. \A j \in 1 .. win : f[j] = g[cell[j]]
    OBVIOUS
  <2> HIDE DEF R, cell, f
  <2>4. Visits(Length, g, win, cell, R, f)
    BY <1>7, <1>8, <2>1, <2>2, <2>3 DEF Visits
  <2> QED
    BY <2>4, SumInAnyOrder
<1> HIDE DEF R, cell
<1> QED
  BY <1>6, <1>9, FormerSumIs

LEMMA WindowSumsAre ==
    ASSUME TypeOK, RunningSums, FormerFollows, FormerSums, pc = "idle",
           NEW win \in 0 .. Length + 1
    PROVE  F!WindowSums(win) =
             << M!Total(Last(win)), M!Squares(Last(win)), Windowed(win) >>
<1> DEFINE u == Last(win)
           m == Windowed(win)
<1>1. /\ Window \in Seq(Int) /\ F!Held = HeldLength
      /\ fcum = M!Total(Window) /\ fcum2 = M!Squares(Window)
  BY FormerHolds
<1>2. /\ HeldLength \in 0 .. Length /\ Length \in Nat
      /\ buff \in [0 .. Length - 1 -> Int]
  BY Held DEF FormerFollows, Slots
<1>3. /\ m \in 0 .. HeldLength /\ u \in Seq(Int) /\ Len(u) = m
      /\ m = HeldLength => u = Window
      /\ \A n \in 1 .. m : ns[Back(m)[n]] = u[m + 1 - n]
  BY LastIs
<1>4. CASE win = 0 \/ win > HeldLength
  <2>1. m = HeldLength
    BY <1>2, <1>4 DEF Windowed
  <2> QED
    BY <1>1, <1>3, <1>4, <2>1 DEF F!WindowSums
<1>5. CASE win \in 1 .. HeldLength
  <2> DEFINE sq == [i \in F!Cells |-> buff[i] * buff[i]]
             v == [j \in 1 .. win |-> buff[Rank(j)]]
             v2 == [j \in 1 .. win |-> sq[Rank(j)]]
  <2>1. m = win
    BY <1>2, <1>5 DEF Windowed
  <2>2. F!WindowSums(win) = << F!Sum(F!Recent(win), buff), F!Sum(F!Recent(win), sq), win >>
    BY <1>1, <1>2, <1>5 DEF F!WindowSums
  <2>3. /\ \A i \in 0 .. Length - 1 : buff[i] \in Int
        /\ \A i \in 0 .. Length - 1 : sq[i] = buff[i] * buff[i] /\ sq[i] \in Int
    BY <1>2 DEF F!Cells
  <2> HIDE DEF sq
  <2>4. /\ F!Sum(F!Recent(win), buff) = SumTo(v, win)
        /\ F!Sum(F!Recent(win), sq) = SumTo(v2, win)
    BY <1>5, <2>3, RecentIs
  <2>5. /\ u \in Seq(Int) /\ Len(u) = win /\ win \in Nat
        /\ \A i \in 1 .. win : /\ u[i] \in Int /\ Square(u)[i] = u[i] * u[i]
                               /\ Square(u)[i] \in Int
    BY <1>2, <1>3, <1>5, <2>1, SquareOf
  <2>6. ASSUME NEW j \in 1 .. win
        PROVE  buff[Rank(j)] = u[win + 1 - j] /\ Rank(j) \in 0 .. Length - 1
    <3>1. Back(win)[j] = Rank(j)
      BY <1>5, BackIs
    <3>2. ns[Rank(j)] = u[win + 1 - j]
      BY <1>3, <2>1, <3>1
    <3>3. Rank(j) \in 0 .. HeldLength - 1
      BY <1>2, <1>5, WindowIs
    <3>4. 0 .. HeldLength - 1 \subseteq Live
      BY Held DEF Live, Slots
    <3>5. buff[Rank(j)] = ns[Rank(j)]
      BY <3>3, <3>4 DEF FormerFollows
    <3> QED
      BY <1>2, <3>2, <3>3, <3>5
  <2> DEFINE r == [j \in 1 .. win |-> u[win + 1 - j]]
             r2 == [j \in 1 .. win |-> Square(u)[win + 1 - j]]
  <2>7. \A j \in 1 .. win : v[j] = r[j]
    BY <2>6
  <2>8. ASSUME NEW j \in 1 .. win PROVE v2[j] = r2[j]
    <3>1. win + 1 - j \in 1 .. win
      BY <2>5
    <3>2. v2[j] = buff[Rank(j)] * buff[Rank(j)]
      BY <2>3, <2>6
    <3> QED
      BY <2>5, <2>6, <3>1, <3>2
  <2>9. SumTo(r, win) = SumTo(u, win) /\ SumTo(r2, win) = SumTo(Square(u), win)
    BY <2>5, SumReverse
  <2> HIDE DEF v, v2, r, r2
  <2>10. SumTo(v, win) = SumTo(r, win) /\ SumTo(v2, win) = SumTo(r2, win)
    BY <2>5, <2>7, <2>8, SumSame
  <2>11. M!Total(u) = SumTo(u, win) /\ M!Squares(u) = SumTo(Square(u), win)
    BY <2>5, TotalIs
  <2> QED
    BY <2>1, <2>2, <2>4, <2>9, <2>10, <2>11
<1> QED
  BY <1>2, <1>4, <1>5

LEMMA SameMoments ==
    ASSUME TypeOK, RunningSums, FormerFollows, FormerSums, pc = "idle",
           NEW win \in 0 .. Length + 1, HeldLength # 1, win # 1
    PROVE  F!Mean(win) = Mean(win) /\ F!Variance(win) = Variance(win)
<1> DEFINE u == Last(win)
           m == Windowed(win)
           S == M!Total(u)
           Q == M!Squares(u)
<1>1. /\ F!Held = HeldLength /\ fcum = M!Total(Window)
      /\ HeldLength \in 0 .. Length /\ Length \in Nat
  BY FormerHolds, Held
<1>2. /\ m \in 0 .. HeldLength /\ u \in Seq(Int) /\ Len(u) = m
      /\ m = HeldLength => u = Window
  BY LastIs
<1>3. F!WindowSums(win) = << S, Q, m >>
  BY WindowSumsAre
<1>4. /\ Mean(win) = IF m <= 1 THEN <<0, 1>> ELSE << S, m >>
      /\ Variance(win) = IF m <= 1 THEN <<0, 1>> ELSE << m * Q - S * S, m * (m - 1) >>
  BY <1>2, MeanIs DEF M!MeanOf, M!VarianceOf, M!Few, M!Zero
<1>5. win > Length \/ win = 0 => m = HeldLength
  BY <1>1 DEF Windowed
<1>6. m <= 1 <=> HeldLength = 0
  BY <1>1 DEF Windowed
<1> HIDE DEF u, m, S, Q
<1>7. F!Mean(win) = IF HeldLength = 0 THEN <<0, 1>> ELSE << S, m >>
  <2>1. CASE win = 0 \/ win > Length
    BY <1>1, <1>2, <1>5, <2>1 DEF F!Mean, S
  <2>2. CASE ~(win = 0 \/ win > Length)
    BY <1>1, <1>3, <2>2 DEF F!Mean
  <2> QED
    BY <2>1, <2>2
<1>8. F!Variance(win) =
        IF HeldLength = 0 THEN <<0, 1>> ELSE << m * Q - S * S, m * (m - 1) >>
  BY <1>1, <1>3 DEF F!Variance
<1> QED
  BY <1>4, <1>6, <1>7, <1>8

(* The places of the offsets, twice their distance to the middle. *)
Places(m, z, v) ==
    /\ m \in Nat
    /\ \A j \in 1 .. m : z[j] = 2 * j - m - 1 /\ v[j] = z[j] * z[j]

LEMMA PlacesVary ==
    ASSUME NEW m, NEW z, NEW v, Places(m, z, v)
    PROVE  SumTo(z, m) = 0 /\ 3 * SumTo(v, m) = m * (m * m - 1)
<1> USE DEF Places
<1> DEFINE id == [j \in 1 .. m |-> j]
           sq == [j \in 1 .. m |-> j * j]
           one == [j \in 1 .. m |-> 1]
           sides == [j \in 1 .. m |-> (-4 * (m + 1)) * j + ((m + 1) * (m + 1)) * 1]
           a == -4 * (m + 1)
           b == (m + 1) * (m + 1)
           c == -(m + 1)
           e == 1
           two == 2
           four == 4
<1>1. ASSUME NEW j \in 1 .. m
      PROVE  /\ id[j] = j /\ sq[j] = j * j /\ one[j] = e
             /\ id[j] \in Int /\ sq[j] \in Int /\ one[j] \in Int
             /\ sides[j] = a * id[j] + b * one[j] /\ sides[j] \in Int
             /\ z[j] = two * id[j] + c * one[j]
             /\ v[j] = four * sq[j] + e * sides[j]
  <2>1. z[j] = 2 * j - m - 1 /\ v[j] = z[j] * z[j]
    OBVIOUS
  <2>2. (2 * j - m - 1) * (2 * j - m - 1)
           = 4 * (j * j) + 1 * ((-4 * (m + 1)) * j + ((m + 1) * (m + 1)) * 1)
    OBVIOUS
  <2>3. v[j] = (2 * j - m - 1) * (2 * j - m - 1)
    BY <2>1
  <2>4. id[j] = j /\ sq[j] = j * j /\ one[j] = 1
        /\ sides[j] = (-4 * (m + 1)) * j + ((m + 1) * (m + 1)) * 1
    OBVIOUS
  <2> HIDE DEF id, sq, one, sides
  <2>5. z[j] = 2 * j + (-(m + 1)) * 1
    BY <2>1
  <2>6. v[j] = 4 * (j * j) + 1 * sides[j]
    BY <2>2, <2>3, <2>4
  <2>7. sides[j] \in Int
    BY <2>4
  <2> QED
    BY <2>4, <2>5, <2>6, <2>7
<1>2. a \in Int /\ b \in Int /\ c \in Int /\ e \in Int /\ two \in Int /\ four \in Int
  OBVIOUS
<1> HIDE DEF id, sq, one, sides, a, b, c, e, two, four
<1>3. /\ 2 * SumTo(id, m) = m * (m + 1)
      /\ 6 * SumTo(sq, m) = m * (m + 1) * (2 * m + 1)
  <2>1. m \in Nat /\ \A j \in 1 .. m : id[j] = j /\ sq[j] = j * j
    BY <1>1
  <2> HIDE DEF Places
  <2> QED
    BY <2>1, SumOfNumbers
<1>4. SumTo(one, m) = e * m
  BY <1>1, <1>2, SumConstant
<1>5. SumTo(z, m) = two * SumTo(id, m) + c * SumTo(one, m)
  <2>1. Combines(m, two, c, id, one, z)
    BY <1>1, <1>2 DEF Combines
  <2> QED
    BY <2>1, SumCombines
<1>6. SumTo(sides, m) = a * SumTo(id, m) + b * SumTo(one, m)
  <2>1. Combines(m, a, b, id, one, sides)
    BY <1>1, <1>2 DEF Combines
  <2> QED
    BY <2>1, SumCombines
<1>7. SumTo(v, m) = four * SumTo(sq, m) + e * SumTo(sides, m)
  <2>1. Combines(m, four, e, sq, sides, v)
    BY <1>1, <1>2 DEF Combines
  <2> QED
    BY <2>1, SumCombines
<1>8. SumTo(id, m) \in Int /\ SumTo(sq, m) \in Int
  <2>1. m \in 0 .. m
    OBVIOUS
  <2> QED
    BY <1>1, <2>1, SumType
<1> DEFINE I == SumTo(id, m)
           Q == SumTo(sq, m)
<1>9. I \in Int /\ Q \in Int /\ 2 * I = m * (m + 1)
      /\ 6 * Q = m * (m + 1) * (2 * m + 1)
  BY <1>3, <1>8
<1>10. /\ SumTo(z, m) = 2 * I + (-(m + 1)) * m
       /\ SumTo(v, m) = 4 * Q + ((-4 * (m + 1)) * I + ((m + 1) * (m + 1)) * m)
  <2> HIDE DEF I, Q
  <2>1. SumTo(one, m) = m
    BY <1>4 DEF e
  <2>2. SumTo(z, m) = 2 * I + (-(m + 1)) * m
    BY <1>5, <2>1 DEF two, c, I
  <2>3. SumTo(sides, m) = (-4 * (m + 1)) * I + ((m + 1) * (m + 1)) * m
    BY <1>6, <2>1 DEF a, b, I
  <2>4. SumTo(sides, m) \in Int
    BY <1>9, <2>3
  <2>5. SumTo(v, m) = 4 * Q + SumTo(sides, m)
    BY <1>7, <1>9, <2>4 DEF four, e, Q
  <2> QED
    BY <2>2, <2>3, <2>5
<1> HIDE DEF I, Q
<1>11. SumTo(z, m) = 0
  <2>1. (-(m + 1)) * m = -(m * (m + 1)) /\ m * (m + 1) \in Int
    OBVIOUS
  <2> QED
    BY <1>9, <1>10, <2>1
<1>12. 3 * SumTo(v, m) = m * (m * m - 1)
  <2>1. 3 * (4 * Q + ((-4 * (m + 1)) * I + ((m + 1) * (m + 1)) * m))
           = 2 * (6 * Q) - 6 * ((m + 1) * (2 * I)) + 3 * ((m + 1) * (m + 1) * m)
    BY <1>9
  <2>2. 2 * (m * (m + 1) * (2 * m + 1)) - 6 * ((m + 1) * (m * (m + 1)))
           + 3 * ((m + 1) * (m + 1) * m)
           = m * (m * m - 1)
    OBVIOUS
  <2> QED
    BY <1>9, <1>10, <2>1, <2>2
<1> QED
  BY <1>11, <1>12

LEMMA SameThrough ==
    ASSUME NEW p1 \in Int, NEW p2 \in Int, NEW q1 \in Int, NEW q2 \in Int,
           NEW r1 \in Int, NEW r2 \in Int, r2 # 0,
           M!Same(<<p1, p2>>, <<r1, r2>>), M!Same(<<q1, q2>>, <<r1, r2>>)
    PROVE  M!Same(<<p1, p2>>, <<q1, q2>>)
<1>0. p1 * r2 = r1 * p2 /\ q1 * r2 = r1 * q2
  BY DEF M!Same
<1>1. (p1 * q2) * r2 = (r1 * p2) * q2
  <2>1. (p1 * q2) * r2 = (p1 * r2) * q2
    OBVIOUS
  <2> QED
    BY <1>0, <2>1
<1>2. (q1 * p2) * r2 = (r1 * q2) * p2
  <2>1. (q1 * p2) * r2 = (q1 * r2) * p2
    OBVIOUS
  <2> QED
    BY <1>0, <2>1
<1>3. (r1 * p2) * q2 = (r1 * q2) * p2
  OBVIOUS
<1> DEFINE a == p1 * q2
           b == q1 * p2
<1>4. a \in Int /\ b \in Int /\ a * r2 = b * r2
  BY <1>1, <1>2, <1>3
<1> HIDE DEF a, b
<1>5. (a - b) * r2 = 0
  BY <1>4
<1>6. a - b = 0
  <2> DEFINE d == a - b
  <2>1. d \in Int /\ d * r2 = 0
    BY <1>4, <1>5
  <2> HIDE DEF d
  <2>2. d = 0
    BY <2>1
  <2> QED
    BY <2>2 DEF d
<1>7. a = b
  BY <1>4, <1>6
<1> QED
  BY <1>7 DEF a, b, M!Same

(* ll_stats_drift_ppb: while an offset's place in the ring is that of its
   time, its two sums are those of the least squares. *)
LEMMA SameDrift ==
    ASSUME TypeOK, RunningSums, FormerFollows, FormerSums, pc = "idle",
           fk = 0 \/ ~is_full
    PROVE  M!Same(F!Drift, Drift(0))
<1> DEFINE n == HeldLength
           w == Window
           S == M!Total(w)
           gc == [i \in F!Cells |-> (n * buff[i] - fcum) * (2 * i - (n - 1))]
           gv == [i \in F!Cells |-> (2 * i - (n - 1)) * (2 * i - (n - 1))]
           C == F!Sum(0 .. n - 1, gc)
           V == F!Sum(0 .. n - 1, gv)
           g == [i \in 1 .. n |-> (2 * i - n - 1) * w[i]]
           G == SumTo(g, n)
<1>1. /\ w \in Seq(Int) /\ Len(w) = n /\ F!Held = n /\ n \in Nat /\ fcum = S
      /\ S \in Int /\ S = SumTo(w, n)
      /\ \A i \in 1 .. n : w[i] \in Int
  BY FormerHolds, TotalType, TotalIs, SquareOf
<1>2. /\ n \in 0 .. Length /\ Length \in Nat /\ Length > 0
      /\ buff \in [0 .. Length - 1 -> Int]
  BY Held DEF FormerFollows, Slots
<1>3. /\ M!Same(Drift(0), M!DriftOf(w)) /\ Drift(0)[1] \in Int /\ Drift(0)[2] \in Int
  <2>1. Windowed(0) = HeldLength /\ 0 \in 0 .. Length + 1
    BY <1>2 DEF Windowed
  <2>2. Last(0) = w
    BY <2>1, LastIs
  <2> QED
    BY <2>1, <2>2, DriftIs
<1>4. M!DriftOf(w) = IF n <= 1 THEN <<0, 1>> ELSE <<6 * G, n * (n * n - 1)>>
  BY <1>1, SameSum DEF M!DriftOf, M!Few, M!Zero
<1>5. F!Drift = IF n <= 1 THEN <<0, 1>> ELSE <<2 * C, n * V>>
  BY <1>1 DEF F!Drift
<1>6. ASSUME NEW j \in 1 .. n
      PROVE  buff[j - 1] = w[j] /\ j - 1 \in 0 .. Length - 1
  <2>1. FormerWindow = w
    BY SameWindow
  <2>2. FormerWindow = HeldFrom(buff, 0, n)
    BY <1>2 DEF FormerWindow, FormerFollows, HeldLength
  <2>3. 0 \in Slots /\ n \in 0 .. Length /\ buff \in [Slots -> Int]
    BY <1>2 DEF Slots, FormerFollows
  <2>4. w[j] = buff[IF 0 + j - 1 < Length THEN 0 + j - 1 ELSE 0 + j - 1 - Length]
    <3> HIDE DEF w, n
    <3> QED
      BY <2>1, <2>2, <2>3, HeldFromIsSeq, SMTT(30)
  <2>5. 0 + j - 1 < Length /\ 0 + j - 1 = j - 1
    BY <1>2
  <2> QED
    BY <1>2, <2>4, <2>5
<1> HIDE DEF n, w, S, G
<1>7. CASE n <= 1
  <2> DEFINE d == Drift(0)
  <2>1. M!Same(d, <<0, 1>>)
    BY <1>3, <1>4, <1>7
  <2>2. d[1] * 1 = 0 * d[2] /\ d[1] \in Int /\ d[2] \in Int
    BY <1>3, <2>1 DEF M!Same
  <2> HIDE DEF d
  <2>3. 0 * d[2] = d[1] * 1
    BY <2>2
  <2>4. M!Same(<<0, 1>>, d)
    BY <2>3 DEF M!Same
  <2> QED
    BY <1>5, <1>7, <2>4 DEF d
<1>8. CASE n > 1
  <2> DEFINE z == [j \in 1 .. n |-> 2 * j - n - 1]
             zz == [j \in 1 .. n |-> z[j] * z[j]]
             cell == [j \in 1 .. n |-> j - 1]
             R == [j \in 0 .. n |-> 0 .. j - 1]
             fc == [j \in 1 .. n |-> gc[j - 1]]
             fv == [j \in 1 .. n |-> gv[j - 1]]
  <2>1. R[0] = {} /\ R[n] = 0 .. n - 1
    BY <1>1
  <2>2. ASSUME NEW j \in 1 .. n
        PROVE  /\ cell[j] \in 0 .. Length - 1 /\ cell[j] \notin R[j - 1]
               /\ R[j] = R[j - 1] \cup {cell[j]}
               /\ fc[j] = gc[cell[j]] /\ fv[j] = gv[cell[j]]
    <3>1. j - 1 \in 0 .. n /\ j \in 0 .. n
      BY <1>1
    <3>2. cell[j] = j - 1 /\ R[j] = 0 .. j - 1 /\ R[j - 1] = 0 .. (j - 1) - 1
          /\ fc[j] = gc[j - 1] /\ fv[j] = gv[j - 1]
      BY <3>1
    <3> HIDE DEF cell, R, fc, fv, gc, gv
    <3>3. 0 .. j - 1 = (0 .. (j - 1) - 1) \cup {j - 1} /\ j - 1 \notin 0 .. (j - 1) - 1
      BY <1>1
    <3> QED
      BY <1>6, <3>2, <3>3
  <2>3. ASSUME NEW i \in 0 .. Length - 1
        PROVE  /\ gc[i] = (n * buff[i] - S) * (2 * i - (n - 1))
               /\ gv[i] = (2 * i - (n - 1)) * (2 * i - (n - 1))
               /\ gc[i] \in Int /\ gv[i] \in Int
    <3>1. i \in F!Cells /\ buff[i] \in Int
      BY <1>2 DEF F!Cells
    <3>2. /\ (n * buff[i] - S) * (2 * i - (n - 1)) \in Int
          /\ (2 * i - (n - 1)) * (2 * i - (n - 1)) \in Int
      BY <1>1, <3>1
    <3> QED
      BY <1>1, <3>1, <3>2
  <2>4. ASSUME NEW j \in 1 .. n
        PROVE  /\ z[j] = 2 * j - n - 1 /\ z[j] \in Int /\ zz[j] = z[j] * z[j]
               /\ g[j] = z[j] * w[j] /\ g[j] \in Int
               /\ fc[j] = n * g[j] + (-S) * z[j]
               /\ fv[j] = zz[j]
    <3>1. /\ z[j] = 2 * j - n - 1 /\ zz[j] = z[j] * z[j]
          /\ g[j] = (2 * j - n - 1) * w[j]
          /\ fc[j] = gc[j - 1] /\ fv[j] = gv[j - 1]
      OBVIOUS
    <3>2. j - 1 \in 0 .. Length - 1 /\ buff[j - 1] = w[j] /\ w[j] \in Int
      BY <1>1, <1>6
    <3>3. /\ gc[j - 1] = (n * w[j] - S) * (2 * (j - 1) - (n - 1))
          /\ gv[j - 1] = (2 * (j - 1) - (n - 1)) * (2 * (j - 1) - (n - 1))
      BY <2>3, <3>2
    <3>4. 2 * (j - 1) - (n - 1) = 2 * j - n - 1
      BY <1>1
    <3> HIDE DEF z, zz, g, gc, gv, fc, fv
    <3>5. z[j] \in Int /\ z[j] * w[j] \in Int
      BY <1>1, <3>1, <3>2
    <3>6. (n * w[j] - S) * z[j] = n * (z[j] * w[j]) + (-S) * z[j]
      <4> DEFINE a == w[j]
                 b == z[j]
      <4>1. a \in Int /\ b \in Int /\ n \in Int /\ S \in Int
        BY <1>1, <3>2, <3>5
      <4> HIDE DEF a, b
      <4>2. (n * a - S) * b = n * (b * a) + (-S) * b
        BY <4>1
      <4> QED
        BY <4>2 DEF a, b
    <3>7. gc[j - 1] = (n * w[j] - S) * z[j] /\ gv[j - 1] = z[j] * z[j]
      BY <3>1, <3>3, <3>4
    <3>8. g[j] = z[j] * w[j]
      BY <3>1
    <3> QED
      BY <3>1, <3>5, <3>6, <3>7, <3>8
  <2> HIDE DEF z, zz, cell, R, fc, fv, gc, gv, g
  <2>5. C = SumTo(fc, n)
    <3>1. Visits(Length, gc, n, cell, R, fc)
      BY <1>1, <1>2, <2>1, <2>2, <2>3 DEF Visits
    <3> QED
      BY <2>1, <3>1, SumInAnyOrder, FormerSumIs
  <2>6. V = SumTo(fv, n)
    <3>1. Visits(Length, gv, n, cell, R, fv)
      BY <1>1, <1>2, <2>1, <2>2, <2>3 DEF Visits
    <3> QED
      BY <2>1, <3>1, SumInAnyOrder, FormerSumIs
  <2>7. SumTo(z, n) = 0 /\ 3 * SumTo(zz, n) = n * (n * n - 1)
    <3>1. Places(n, z, zz)
      BY <1>1, <2>4 DEF Places
    <3> QED
      BY <3>1, PlacesVary
  <2>8. SumTo(fv, n) = SumTo(zz, n)
    BY <1>1, <2>4, SumSame
  <2>9. SumTo(fc, n) = n * G + (-S) * SumTo(z, n)
    <3> DEFINE a == -S
    <3>1. a \in Int /\ n \in Int
      BY <1>1
    <3>2. \A j \in 1 .. n : g[j] \in Int /\ z[j] \in Int /\ fc[j] = n * g[j] + a * z[j]
      BY <2>4
    <3> HIDE DEF a
    <3>3. Combines(n, n, a, g, z, fc)
      BY <1>1, <3>1, <3>2 DEF Combines
    <3>4. SumTo(fc, n) = n * SumTo(g, n) + a * SumTo(z, n)
      BY <3>3, SumCombines
    <3> QED
      BY <3>4 DEF a, G
  <2>10. G \in Int /\ V \in Int
    <3>1. \A j \in 1 .. n : g[j] \in Int /\ zz[j] \in Int
      BY <2>4
    <3>2. n \in 0 .. n
      BY <1>1
    <3>3. SumTo(g, n) \in Int /\ SumTo(zz, n) \in Int
      BY <1>1, <3>1, <3>2, SumType
    <3> QED
      BY <2>6, <2>8, <3>3 DEF G
  <2>11. C = n * G
    <3>1. (-S) * 0 = 0 /\ n * G \in Int
      BY <1>1, <2>10
    <3> QED
      BY <2>5, <2>7, <2>9, <3>1
  <2>12. 3 * V = n * (n * n - 1)
    BY <2>6, <2>7, <2>8
  <2> HIDE DEF C, V
  <2> DEFINE p1 == 2 * C
             p2 == n * V
             q1 == Drift(0)[1]
             q2 == Drift(0)[2]
             r1 == 6 * G
             r2 == n * (n * n - 1)
  <2>13. p1 \in Int /\ p2 \in Int /\ q1 \in Int /\ q2 \in Int /\ r1 \in Int /\ r2 \in Int
    BY <1>1, <1>3, <2>10, <2>11
  <2>14. r2 # 0
    <3>1. n * n > 1 * n /\ n * n \in Int
      BY <1>1, <1>8
    <3>2. n * n - 1 > 0
      BY <1>1, <1>8, <3>1
    <3> QED
      BY <1>1, <1>8, <3>2
  <2>15. M!Same(<<p1, p2>>, <<r1, r2>>)
    <3>1. p1 * r2 = (2 * (n * G)) * (3 * V)
      BY <2>11, <2>12
    <3>2. r1 * p2 = (6 * G) * (n * V)
      OBVIOUS
    <3> HIDE DEF p1, p2, r1, r2
    <3>3. (2 * (n * G)) * (3 * V) = (6 * G) * (n * V)
      BY <1>1, <2>10
    <3> QED
      BY <3>1, <3>2, <3>3 DEF M!Same
  <2>16. M!Same(<<q1, q2>>, <<r1, r2>>)
    BY <1>3, <1>4, <1>8, <1>1 DEF M!Same
  <2>17. M!Same(<<p1, p2>>, <<q1, q2>>)
    <3> HIDE DEF p1, p2, q1, q2, r1, r2
    <3> QED
      BY <2>13, <2>14, <2>15, <2>16, SameThrough
  <2>18. F!Drift = <<p1, p2>>
    BY <1>1, <1>5, <1>8
  <2> HIDE DEF p1, p2
  <2> QED
    BY <2>17, <2>18 DEF M!Same
<1> QED
  BY <1>1, <1>7, <1>8

(* The two versions of the statistics that pps_stats.c replaced answer what it
   does, for every window and whatever was given before: the means and the
   variances always, the drift until the ring wraps; the integer version's mean
   is the exact one without its fraction, and its sum of squares is wrong by
   whole multiples of 2^32 at most, and never makes a variance negative unless
   a square is above that. *)
THEOREM FormerAlwaysAgrees == BothSpec => []FormerAgrees
<1> DEFINE FInv == TypeOK /\ RunningSums /\ FormerFollows /\ FormerSums
<1>1. BothInit => FInv
  BY TypeInit, RunningSumsInit, FollowsInit, FormerSumsInit DEF BothInit
<1>2. FInv /\ [BothNext]_both => FInv'
  <2> SUFFICES ASSUME FInv, [BothNext]_both PROVE FInv'
    OBVIOUS
  <2>1. [Next]_vars
    BY DEF BothNext, BothReset, BothSteps, BothUpdate, Meanwhile, both, Next, Steps
  <2> QED
    BY <2>1, TypeStep, RunningSumsStep, FollowsStep, FormerSumsStep
<1>3. FInv => FormerAgrees
  <2> SUFFICES ASSUME FInv PROVE FormerAgrees
    OBVIOUS
  <2>1. IntegerSums
    BY IntegerSumsHold
  <2>2. ASSUME pc = "idle"
        PROVE  /\ F!Held = HeldLength
               /\ \A win \in 0 .. Length + 1 :
                    (HeldLength # 1 /\ win # 1) =>
                      /\ M!Same(F!Mean(win), Mean(win))
                      /\ M!Same(F!Variance(win), Variance(win))
               /\ fk = 0 \/ ~is_full => M!Same(F!Drift, Drift(0))
    <3>1. F!Held = HeldLength
      BY <2>2, FormerHolds
    <3>2. ASSUME NEW win \in 0 .. Length + 1, HeldLength # 1, win # 1
          PROVE  /\ M!Same(F!Mean(win), Mean(win))
                 /\ M!Same(F!Variance(win), Variance(win))
      <4>1. F!Mean(win) = Mean(win) /\ F!Variance(win) = Variance(win)
        BY <2>2, <3>2, SameMoments
      <4> QED
        BY <4>1 DEF M!Same
    <3>3. fk = 0 \/ ~is_full => M!Same(F!Drift, Drift(0))
      BY <2>2, SameDrift
    <3> QED
      BY <3>1, <3>2, <3>3
  <2> QED
    BY <2>1, <2>2, Zenon DEF FormerAgrees
<1> HIDE DEF FInv
<1> QED
  BY <1>1, <1>2, <1>3, PTL DEF BothSpec
=============================================================================
