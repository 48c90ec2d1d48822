-------------------------- MODULE StatsFileProofs --------------------------
(***************************************************************************)
(* Proofs about StatsFile: what pps_stats reads back of the offsets and of *)
(* the times that were printed, and what its sorted print may miss.        *)
(***************************************************************************)
EXTENDS StatsFile, SumsProofs, SequenceTheorems, TLAPS

LEMMA Constants ==
    /\ Length \in Nat /\ 0 < Length /\ Second \in Nat /\ 0 < Second
    /\ Radix \in Nat /\ 0 < Radix
    /\ Epoch \in Nat /\ 0 < Epoch /\ MaxLines \in Nat /\ MaxFiles \in Nat
    /\ \A ns \in Offsets : ns \in Int /\ -Second < ns /\ ns < Second
    /\ \A f \in Formats :
        /\ f.abs_tref \in BOOLEAN /\ f.abs_toff \in BOOLEAN
        /\ f.stats \in BOOLEAN /\ f.header \in BOOLEAN
        /\ f.fraction \in Nat /\ f.fraction < Second
        /\ f.first \in Nat /\ f.first < Epoch
        /\ f.header => ~f.abs_tref
<1>1. /\ Length \in Nat \ {0} /\ Second \in Nat \ {0} /\ Epoch \in Nat \ {0}
      /\ Radix \in Nat \ {0}
      /\ MaxLines \in Nat \ {0} /\ MaxFiles \in Nat \ {0}
  BY StatsFileAssumption
<1>2. ASSUME NEW ns \in Offsets PROVE ns \in Int /\ -Second < ns /\ ns < Second
  BY <1>1, StatsFileAssumption
<1>3. ASSUME NEW f \in Formats
      PROVE  /\ f.abs_tref \in BOOLEAN /\ f.abs_toff \in BOOLEAN
             /\ f.stats \in BOOLEAN /\ f.header \in BOOLEAN
             /\ f.fraction \in Nat /\ f.fraction < Second
             /\ f.first \in Nat /\ f.first < Epoch
             /\ f.header => ~f.abs_tref
  BY <1>1, StatsFileAssumption
<1> QED
  BY <1>1, <1>2, <1>3

-----------------------------------------------------------------------------
(* Types, and what the proofs need of the inputs' history. *)

Origins == [file : 0 .. MaxFiles, at : Int, ns : Int, exact : BOOLEAN, first : BOOLEAN]
Cells == [sec : Int, ns : Int, origin : Origins, seen : BOOLEAN]

Types ==
    /\ options \in [sorted : BOOLEAN, reset : BOOLEAN]
    /\ window \in Seq(Cells) /\ Len(window) <= Length
    /\ t0 \in Int /\ base \in Int
    /\ line_nb \in Nat /\ lines \in Nat
    /\ pc \in {"main", "header", "read"}
    /\ format \in Formats
    /\ now \in Nat /\ Epoch <= now /\ base <= now
    /\ files \in 0 .. MaxFiles
    /\ texts \in Nat /\ lost \in Nat

(* The reference that is printed for a pulse. *)
Reference == IF format.abs_tref THEN now ELSE now - base

(* Numbers that are not negative fit their field. *)
LEMMA WideNumbers ==
    ASSUME NEW nsec \in Int
    PROVE  /\ TooWide(nsec) \in BOOLEAN
           /\ TooWide(nsec) => nsec < 0
           /\ ~TooWide(nsec) => Scanned(nsec) = nsec
           /\ Scanned(nsec) \in Int
<1>1. Radix \in Nat \ {0} /\ Second \in Nat \ {0} /\ -nsec \in Int
  BY Constants
<1>2. TooWide(nsec) => nsec < 0
  <2>1. ASSUME NEW a \in Nat, NEW b \in Nat PROVE ~(0 < a * (-b))
    OBVIOUS
  <2> QED
    BY <1>1, <2>1 DEF TooWide
<1>3. (-nsec) \div Radix \in Int
  <2>1. ASSUME NEW a \in Int, NEW b \in Nat \ {0} PROVE a \div b \in Int
    OBVIOUS
  <2> QED
    BY <1>1, <2>1, Zenon
<1>4. -((-nsec) \div Radix) \in Int
  BY <1>3
<1> QED
  BY <1>2, <1>4 DEF Scanned, TooWide

(* What pps_stats_sscan makes of the fields of each format. *)
LEMMA ReadingBack ==
    ASSUME Types, NEW ns \in Offsets
    PROVE  /\ Items(Printed(ns)) \in Nat \ {0}
           /\ Seconds(Printed(ns)) =
                 IF format.fraction = 0 THEN Reference + t0 ELSE Reference
           /\ Offset(Printed(ns)) \in Int
           /\ Origin(ns).exact => Offset(Printed(ns)) = ns
           /\ Printed(ns) # Text
<1> DEFINE line == Printed(ns)
           t == Reference
           tref == IF format.fraction = 0 THEN <<t>> ELSE <<t, format.fraction>>
           toff == IF format.abs_toff THEN Norm(t, format.fraction + ns) ELSE <<ns>>
<1>1. /\ t \in Int /\ t0 \in Int /\ ns \in Int /\ -Second < ns /\ ns < Second
      /\ format.fraction \in Nat /\ format.fraction < Second
      /\ format.abs_toff \in BOOLEAN /\ format.stats \in BOOLEAN
      /\ Second \in Nat /\ 0 < Second
  BY Constants DEF Types, Reference
<1>2. line = IF format.stats THEN <<tref, toff, <<0>> >> ELSE <<tref, toff>>
  BY DEF Printed, Reference
<1>3. Origin(ns).exact = (format.abs_toff => format.fraction = 0 /\ ~Cut(ns))
  BY DEF Origin
<1>4. \E sec, nsec \in Int :
        /\ Norm(t, format.fraction + ns) = <<sec, nsec>>
        /\ format.fraction = 0 =>
             (sec - t) * Second + nsec = ns /\ (nsec < 0 => nsec = ns /\ t <= 0)
  <2> DEFINE n == format.fraction + ns
  <2>1. CASE n >= Second
    <3>1. Norm(t, n) = <<t + 1, n - Second>> /\ format.fraction # 0
      BY <1>1, <2>1 DEF Norm
    <3> QED
      BY <1>1, <3>1
  <2>2. CASE n < 0 /\ t > 0
    <3>1. Norm(t, n) = <<t - 1, n + Second>>
      BY <1>1, <2>2 DEF Norm
    <3>2. ((t - 1) - t) * Second = -Second
      BY <1>1
    <3> QED
      BY <1>1, <3>1, <3>2
  <2>3. CASE ~(n >= Second) /\ ~(n < 0 /\ t > 0)
    <3>1. Norm(t, n) = <<t, n>>
      BY <1>1, <2>3 DEF Norm
    <3>2. (t - t) * Second = 0
      BY <1>1
    <3> QED
      BY <1>1, <2>3, <3>1, <3>2
  <2> QED
    BY <2>1, <2>2, <2>3
<1>5. PICK sec \in Int, nsec \in Int :
        /\ Norm(t, format.fraction + ns) = <<sec, nsec>>
        /\ format.fraction = 0 =>
             (sec - t) * Second + nsec = ns /\ (nsec < 0 => nsec = ns /\ t <= 0)
  BY <1>4
<1>6. /\ line # Text /\ line[1] = tref /\ line[2] = toff
      /\ Len(line) = IF format.stats THEN 3 ELSE 2
      /\ format.stats => line[3] = <<0>>
  BY <1>1, <1>2 DEF Text
<1>7. /\ Len(tref) = IF format.fraction = 0 THEN 1 ELSE 2
      /\ tref[1] = t
  OBVIOUS
<1>8. toff = IF format.abs_toff THEN <<sec, nsec>> ELSE <<ns>>
  BY <1>5
<1>9. CASE format.fraction = 0
  <2>1. Items(line) = 1
    BY <1>6, <1>7, <1>9 DEF Items
  <2>2. Seconds(line) = t + t0
    BY <1>1, <1>6, <1>7, <2>1 DEF Seconds
  <2>3. Offset(line) \in Int /\ (Origin(ns).exact => Offset(line) = ns)
    <3>1. CASE format.abs_toff
      <4>1. line[2] = <<sec, nsec>> /\ Len(line[2]) = 2 /\ line[1][1] = t
        BY <1>6, <1>7, <1>8, <3>1
      <4>2. Offset(line) = (line[2][1] - line[1][1]) * Second + Scanned(line[2][2])
        BY <2>1, <4>1 DEF Offset
      <4>3. line[2][1] = sec /\ line[2][2] = nsec
        BY <4>1
      <4>4. Offset(line) = (sec - t) * Second + Scanned(nsec)
        BY <4>1, <4>2, <4>3
      <4>5. Scanned(nsec) \in Int /\ (sec - t) * Second \in Int
        BY <1>1, WideNumbers
      <4>6. Origin(ns).exact => ~TooWide(nsec)
        <5>1. SUFFICES ASSUME TooWide(nsec), ~Cut(ns) PROVE FALSE
          BY <1>3, <3>1
        <5>2. nsec = ns /\ t <= 0
          BY <1>5, <1>9, <5>1, WideNumbers
        <5>3. ~format.abs_tref /\ now = base
          BY <5>2, Constants DEF Reference, Types
        <5> QED
          BY <5>1, <5>2, <5>3 DEF Cut
      <4>7. Origin(ns).exact => Scanned(nsec) = nsec
        BY <4>6, WideNumbers
      <4> HIDE DEF line
      <4> QED
        BY <1>5, <1>9, <4>4, <4>5, <4>7
    <3>2. CASE ~format.abs_toff
      <4>1. line[2] = <<ns>> /\ Len(line[2]) = 1
        BY <1>6, <1>8, <3>2
      <4>2. Offset(line) = line[2][1]
        BY <2>1, <4>1 DEF Offset
      <4>3. Offset(line) = ns
        BY <4>1, <4>2
      <4> QED
        BY <1>1, <4>3, Zenon
    <3> QED
      BY <1>1, <3>1, <3>2
  <2> QED
    BY <1>1, <1>6, <1>9, <2>1, <2>2, <2>3
<1>10. CASE format.fraction # 0 /\ ~format.abs_toff
  <2>1. line[2] = <<ns>> /\ Len(line[2]) = 1 /\ Len(line[1]) = 2 /\ line[1][1] = t
    BY <1>6, <1>7, <1>8, <1>10
  <2>2. Items(line) = 3
    BY <1>6, <2>1 DEF Items
  <2>3. Seconds(line) = t /\ Offset(line) = ns
    BY <2>1, <2>2 DEF Seconds, Offset
  <2> QED
    BY <1>1, <1>6, <1>10, <2>2, <2>3
<1>11. CASE format.fraction # 0 /\ format.abs_toff
  <2>1. Len(line[2]) = 2 /\ Len(line[1]) = 2 /\ line[1][1] = t
    BY <1>6, <1>7, <1>8, <1>11
  <2>2. Items(line) \in {4, 5} /\ (Items(line) = 5 => format.stats)
    <3>1. Items(line) = IF Len(line) = 2 \/ TooWide(line[2][2]) THEN 4 ELSE 5
      BY <1>6, <2>1 DEF Items
    <3> QED
      BY <1>1, <1>6, <3>1
  <2>3. Seconds(line) = t
    BY <2>1, <2>2 DEF Seconds
  <2>4. Offset(line) = 0
    BY <1>1, <1>6, <2>1, <2>2 DEF Offset
  <2>5. ~Origin(ns).exact
    BY <1>3, <1>11
  <2>6. Items(line) \in Nat \ {0}
    BY <2>2
  <2> HIDE DEF line
  <2> QED
    BY <1>6, <1>11, <2>3, <2>4, <2>5, <2>6 DEF line
<1> QED
  BY <1>1, <1>9, <1>10, <1>11

LEMMA ReadingText ==
    /\ Items(Text) = 0
    /\ Seconds(Text) = 0
    /\ Offset(Text) = 0
<1>1. Items(Text) = 0
  BY DEF Items, Text
<1>2. Seconds(Text) = 0
  BY <1>1 DEF Seconds
<1>3. ~(Items(Text) \in {1, 3}) /\ Items(Text) # 1 /\ Items(Text) # 5
  BY <1>1
<1>4. Offset(Text) = 0
  BY <1>3 DEF Offset
<1> QED
  BY <1>1, <1>2, <1>4

-----------------------------------------------------------------------------
(* The buffer after a line: one cell is added, the oldest one may leave, and
   all that printing changes is which are seen. *)

LEMMA SeenCells ==
    ASSUME NEW w \in Seq(Cells), NEW cells
    PROVE  /\ Seen(w, cells) \in Seq(Cells)
           /\ Len(Seen(w, cells)) = Len(w)
           /\ \A i \in 1 .. Len(w) :
                /\ Seen(w, cells)[i].sec = w[i].sec
                /\ Seen(w, cells)[i].ns = w[i].ns
                /\ Seen(w, cells)[i].origin = w[i].origin
                /\ Seen(w, cells)[i].seen = (w[i].seen \/ i \in cells)
<1> DEFINE v == Seen(w, cells)
<1>1. Len(w) \in Nat /\ DOMAIN w = 1 .. Len(w)
  BY LenProperties
<1>2. \A i \in 1 .. Len(w) : v[i] = [w[i] EXCEPT !.seen = @ \/ i \in cells]
  BY <1>1 DEF Seen
<1>3. ASSUME NEW i \in 1 .. Len(w)
      PROVE  /\ v[i] \in Cells
             /\ v[i].sec = w[i].sec /\ v[i].ns = w[i].ns
             /\ v[i].origin = w[i].origin
             /\ v[i].seen = (w[i].seen \/ i \in cells)
  <2>1. w[i] \in Cells
    BY <1>1, ElementOfSeq
  <2>2. v[i] = [w[i] EXCEPT !.seen = @ \/ i \in cells]
    BY <1>2
  <2> QED
    BY <2>1, <2>2 DEF Cells
<1>4. v = [i \in 1 .. Len(w) |-> v[i]]
  BY <1>1 DEF Seen
<1>5. v \in Seq(Cells) /\ Len(v) = Len(w)
  <2> HIDE DEF v
  <2>1. v \in [1 .. Len(w) -> Cells]
    BY <1>3, <1>4
  <2>2. v \in Seq(Cells)
    BY <1>1, <2>1, SeqDef
  <2> QED
    BY <1>1, <2>1, <2>2, LenProperties
<1> QED
  BY <1>3, <1>5

(* The former place of a cell. *)
Before(i) == IF Full(window) THEN i + 1 ELSE i

LEMMA AppendCell ==
    ASSUME NEW v \in Seq(Cells), NEW cell \in Cells
    PROVE  /\ Append(v, cell) \in Seq(Cells)
           /\ Len(Append(v, cell)) = Len(v) + 1
           /\ Append(v, cell)[Len(v) + 1] = cell
           /\ \A i \in 1 .. Len(v) : Append(v, cell)[i] = v[i]
BY AppendProperties

LEMMA PushedCell ==
    ASSUME Types, NEW cell \in Cells,
           NEW w, w = Append(IF Full(window) THEN Tail(window) ELSE window, cell)
    PROVE  /\ w \in Seq(Cells)
           /\ Len(w) = IF Full(window) THEN Length ELSE Len(window) + 1
           /\ Len(w) \in 1 .. Length
           /\ w[Len(w)] = cell
           /\ \A i \in 1 .. Len(w) - 1 : /\ Before(i) \in 1 .. Len(window)
                                         /\ w[i] = window[Before(i)]
<1>1. window \in Seq(Cells) /\ Len(window) \in Nat /\ Len(window) <= Length
      /\ Length \in Nat /\ 0 < Length
  BY Constants, LenProperties DEF Types
<1>2. CASE Full(window)
  <2> DEFINE v == Tail(window)
  <2>1. Len(window) = Length /\ window # << >>
    BY <1>1, <1>2 DEF Full
  <2>2. v \in Seq(Cells) /\ Len(v) = Length - 1
        /\ \A i \in 1 .. Len(v) : v[i] = window[i + 1]
    BY <1>1, <2>1, HeadTailProperties
  <2>3. w = Append(v, cell)
    BY <1>2
  <2> HIDE DEF v
  <2>4. w \in Seq(Cells) /\ Len(w) = Len(v) + 1 /\ w[Len(v) + 1] = cell
        /\ \A i \in 1 .. Len(v) : w[i] = v[i]
    <3>1. /\ Append(v, cell) \in Seq(Cells)
          /\ Len(Append(v, cell)) = Len(v) + 1
          /\ Append(v, cell)[Len(v) + 1] = cell
          /\ \A i \in 1 .. Len(v) : Append(v, cell)[i] = v[i]
      BY <2>2, AppendCell
    <3> QED
      BY <2>3, <3>1, Zenon
  <2> QED
    BY <1>1, <1>2, <2>1, <2>2, <2>4 DEF Before
<1>3. CASE ~Full(window)
  <2>1. w \in Seq(Cells) /\ Len(w) = Len(window) + 1 /\ w[Len(window) + 1] = cell
        /\ \A i \in 1 .. Len(window) : w[i] = window[i]
    BY <1>1, <1>3, AppendProperties
  <2> QED
    BY <1>1, <1>3, <2>1 DEF Before, Full
<1> QED
  BY <1>2, <1>3

LEMMA ReadCells ==
    ASSUME Types, NEW line, NEW origin \in Origins, Read(line, origin),
           Seconds(line) \in Int, Offset(line) \in Int, Items(line) \in Nat
    PROVE  /\ window' \in Seq(Cells)
           /\ Len(window') = IF Full(window) THEN Length ELSE Len(window) + 1
           /\ Len(window') \in 1 .. Length
           /\ window'[Len(window')].sec = Seconds(line) - Base(Seconds(line))
           /\ window'[Len(window')].ns = Offset(line)
           /\ window'[Len(window')].origin = origin
           /\ ~options.sorted /\ (line = Text \/ Items(line) > 0) =>
                window'[Len(window')].seen
           /\ options.sorted /\ Items(line) > 0 /\ Len(window') = Length
                    /\ line_nb' % Length = 0 =>
                \A i \in 1 .. Len(window') : window'[i].seen
           /\ \A i \in 1 .. Len(window') - 1 :
                /\ Before(i) \in 1 .. Len(window)
                /\ window'[i].sec = window[Before(i)].sec
                /\ window'[i].ns = window[Before(i)].ns
                /\ window'[i].origin = window[Before(i)].origin
                /\ window[Before(i)].seen => window'[i].seen
<1> DEFINE cell == [sec |-> Seconds(line) - Base(Seconds(line)), ns |-> Offset(line),
                    origin |-> origin, seen |-> line = Text]
           w == Append(IF Full(window) THEN Tail(window) ELSE window, cell)
<1>1. t0 \in Int /\ Base(Seconds(line)) \in Int
  BY DEF Types, Base
<1>2. cell \in Cells
  BY <1>1 DEF Cells
<1>3. /\ cell.sec = Seconds(line) - Base(Seconds(line)) /\ cell.ns = Offset(line)
      /\ cell.origin = origin /\ cell.seen = (line = Text)
  OBVIOUS
<1>4. \/ Items(line) > 0 /\ window' = Seen(w, Printing(w, line_nb'))
      \/ ~(Items(line) > 0) /\ window' = w
  BY DEF Read
<1> HIDE DEF cell
<1>5. /\ w \in Seq(Cells)
      /\ Len(w) = IF Full(window) THEN Length ELSE Len(window) + 1
      /\ Len(w) \in 1 .. Length
      /\ w[Len(w)] = cell
      /\ \A i \in 1 .. Len(w) - 1 : /\ Before(i) \in 1 .. Len(window)
                                    /\ w[i] = window[Before(i)]
  BY <1>2, PushedCell, ZenonT(30)
<1>6. DOMAIN w = 1 .. Len(w) /\ Length \in Nat
  BY <1>5, LenProperties, Constants
<1> HIDE DEF w
<1>7. CASE Items(line) > 0 /\ window' = Seen(w, Printing(w, line_nb'))
  <2>1. /\ window' \in Seq(Cells) /\ Len(window') = Len(w)
        /\ \A i \in 1 .. Len(w) :
             /\ window'[i].sec = w[i].sec
             /\ window'[i].ns = w[i].ns
             /\ window'[i].origin = w[i].origin
             /\ window'[i].seen = (w[i].seen \/ i \in Printing(w, line_nb'))
    BY <1>5, <1>7, SeenCells
  <2>2. /\ ~options.sorted => Len(w) \in Printing(w, line_nb')
        /\ options.sorted /\ Len(w) = Length /\ line_nb' % Length = 0 =>
             1 .. Len(w) \subseteq Printing(w, line_nb')
    BY <1>6 DEF Printing, Full
  <2>3. ASSUME NEW i \in 1 .. Len(w) - 1
        PROVE  /\ i \in 1 .. Len(w)
               /\ Before(i) \in 1 .. Len(window)
               /\ w[i] = window[Before(i)]
    BY <1>5
  <2>4. ASSUME NEW i \in 1 .. Len(w) - 1
        PROVE  /\ Before(i) \in 1 .. Len(window)
               /\ window'[i].sec = window[Before(i)].sec
               /\ window'[i].ns = window[Before(i)].ns
               /\ window'[i].origin = window[Before(i)].origin
               /\ window[Before(i)].seen => window'[i].seen
    BY <2>1, <2>3, Zenon
  <2>5. Len(w) \in 1 .. Len(w)
    BY <1>5
  <2>6. /\ window'[Len(w)].sec = cell.sec /\ window'[Len(w)].ns = cell.ns
        /\ window'[Len(w)].origin = cell.origin
    BY <1>5, <2>1, <2>5, Zenon
  <2>7. ~options.sorted => window'[Len(w)].seen
    BY <2>1, <2>2, <2>5, Zenon
  <2>8. options.sorted /\ Len(w) = Length /\ line_nb' % Length = 0 =>
            \A i \in 1 .. Len(w) : window'[i].seen
    BY <2>1, <2>2, Zenon
  <2> QED
    BY <1>3, <1>5, <2>1, <2>4, <2>6, <2>7, <2>8, Zenon
<1>8. CASE ~(Items(line) > 0) /\ window' = w
  BY <1>3, <1>5, <1>6, <1>8
<1> QED
  BY <1>4, <1>7, <1>8

-----------------------------------------------------------------------------
(* The two kinds of lines. *)

LEMMA OriginTypes ==
    ASSUME Types, NEW ns \in Offsets
    PROVE  Origin(ns) \in Origins /\ NoOrigin \in Origins
<1>1. /\ files \in 0 .. MaxFiles /\ now \in Int /\ ns \in Int /\ MaxFiles \in Nat
      /\ format.abs_toff \in BOOLEAN /\ format.abs_tref \in BOOLEAN
  BY Constants DEF Types
<1> QED
  BY <1>1 DEF Origin, NoOrigin, Origins, Cut

LEMMA NoOriginType == NoOrigin \in Origins
<1>1. MaxFiles \in 0 .. MaxFiles
  BY Constants
<1> QED
  BY <1>1 DEF NoOrigin, Origins

(* What the invariants are kept by, for each of them. *)
LEMMA OffsetLine ==
    ASSUME Types, NEW ns \in Offsets, Read(Printed(ns), Origin(ns))
    PROVE  /\ Seconds(Printed(ns)) \in Int
           /\ Offset(Printed(ns)) \in Int
           /\ Items(Printed(ns)) \in Nat \ {0}
           /\ Origin(ns) \in Origins
<1>1. Reference \in Int /\ t0 \in Int
  BY DEF Types, Reference
<1> QED
  BY <1>1, ReadingBack, OriginTypes

LEMMA TypesStep == Types /\ [Next]_vars => Types'
<1> SUFFICES ASSUME Types, [Next]_vars PROVE Types'
  OBVIOUS
<1>1. CASE Open
  <2>1. /\ files' \in 0 .. MaxFiles /\ lines' \in Nat /\ format' \in Formats
        /\ base' \in Int /\ base' <= now'
    BY <1>1, Constants DEF Open, Types
  <2> QED
    BY <1>1, <2>1 DEF Open, Types
<1>2. CASE ReadHeader
  BY <1>2 DEF ReadHeader, Types, input
<1>3. ASSUME NEW line, NEW origin, Read(line, origin), Seconds(line) \in Int,
             window' \in Seq(Cells), Len(window') \in 1 .. Length,
             now' \in Nat, Epoch <= now', base <= now', texts' \in Nat
      PROVE  Types'
  <2>1. t0' \in Int /\ lines' \in Nat /\ line_nb' \in Nat /\ lost' \in Nat
    BY <1>3 DEF Read, Types, Base
  <2> QED
    BY <1>3, <2>1, Constants DEF Read, Types
<1>4. CASE ReadOffset
  <2>1. PICK ns \in Offsets : Read(Printed(ns), Origin(ns))
    BY <1>4 DEF ReadOffset
  <2>2. now' \in Nat /\ Epoch <= now' /\ base <= now' /\ texts' \in Nat
    BY <1>4, Constants DEF ReadOffset, Types
  <2>3. /\ Seconds(Printed(ns)) \in Int /\ Offset(Printed(ns)) \in Int
        /\ Items(Printed(ns)) \in Nat /\ Origin(ns) \in Origins
    BY <2>1, OffsetLine
  <2>4. window' \in Seq(Cells) /\ Len(window') \in 1 .. Length
    BY <2>1, <2>3, ReadCells
  <2> QED
    BY <1>3, <2>1, <2>2, <2>3, <2>4
<1>5. CASE ReadText
  <2>1. /\ Read(Text, NoOrigin) /\ texts' \in Nat
        /\ now' \in Nat /\ Epoch <= now' /\ base <= now'
    BY <1>5 DEF ReadText, Types
  <2>2. Seconds(Text) \in Int /\ Offset(Text) \in Int /\ Items(Text) \in Nat
    BY ReadingText
  <2>3. window' \in Seq(Cells) /\ Len(window') \in 1 .. Length
    BY <2>1, <2>2, NoOriginType, ReadCells
  <2> QED
    BY <1>3, <2>1, <2>2, <2>3
<1>6. CASE Close
  <2>1. window' \in Seq(Cells) /\ Len(window') <= Length
    <3>1. window \in Seq(Cells) /\ Len(window) <= Length /\ Length \in Nat
      BY Constants DEF Types
    <3>2. Seen(window, DOMAIN window) \in Seq(Cells)
          /\ Len(Seen(window, DOMAIN window)) = Len(window)
      BY <3>1, SeenCells
    <3>3. << >> \in Seq(Cells) /\ Len(<< >>) = 0
      OBVIOUS
    <3>4. window' = << >> \/ window' = window \/ window' = Seen(window, DOMAIN window)
      BY <1>6 DEF Close
    <3>5. CASE window' = << >>
      BY <3>1, <3>3, <3>5
    <3>6. CASE window' = window
      BY <3>1, <3>6
    <3>7. CASE window' = Seen(window, DOMAIN window)
      BY <3>1, <3>2, <3>7, Zenon
    <3> QED
      BY <3>4, <3>5, <3>6, <3>7
  <2> QED
    BY <1>6, <2>1 DEF Close, Types, input
<1>7. CASE UNCHANGED vars
  BY <1>7 DEF vars, input, Types
<1> QED
  BY <1>1, <1>2, <1>4, <1>5, <1>6, <1>7 DEF Next

LEMMA TypesInit == Init => Types
<1> SUFFICES ASSUME Init PROVE Types
  OBVIOUS
<1>1. << >> \in Seq(Cells) /\ Len(<< >>) = 0
  OBVIOUS
<1> QED
  BY <1>1, Constants DEF Init, Types

-----------------------------------------------------------------------------
(* The offsets. *)

LEMMA CellAt ==
    ASSUME Types, NEW i \in DOMAIN window
    PROVE  i \in 1 .. Len(window) /\ window[i] \in Cells /\ DOMAIN window = 1 .. Len(window)
BY LenProperties, ElementOfSeq DEF Types

LEMMA OffsetsStep == Types /\ OffsetsKept /\ [Next]_vars => OffsetsKept'
<1> SUFFICES ASSUME Types, OffsetsKept, [Next]_vars PROVE OffsetsKept'
  OBVIOUS
<1> DEFINE Kept(c) == c.origin.exact => c.ns = c.origin.ns
<1>1. ASSUME NEW line, NEW origin \in Origins, Read(line, origin),
             Seconds(line) \in Int, Offset(line) \in Int, Items(line) \in Nat,
             origin.exact => Offset(line) = origin.ns
      PROVE  OffsetsKept'
  <2>1. DOMAIN window = 1 .. Len(window) /\ DOMAIN window' = 1 .. Len(window')
        /\ Len(window') \in Nat
    BY <1>1, ReadCells, LenProperties DEF Types
  <2>2. ASSUME NEW i \in 1 .. Len(window') - 1 PROVE Kept(window'[i])
    <3>1. Before(i) \in 1 .. Len(window) /\ window'[i].ns = window[Before(i)].ns
          /\ window'[i].origin = window[Before(i)].origin
      BY <1>1, ReadCells
    <3> QED
      BY <2>1, <3>1 DEF OffsetsKept
  <2>3. Kept(window'[Len(window')])
    BY <1>1, ReadCells
  <2> QED
    BY <2>1, <2>2, <2>3 DEF OffsetsKept
<1>2. CASE ReadOffset
  <2>1. PICK ns \in Offsets : Read(Printed(ns), Origin(ns))
    BY <1>2 DEF ReadOffset
  <2>2. Origin(ns).exact => Offset(Printed(ns)) = Origin(ns).ns
    BY ReadingBack DEF Origin
  <2> QED
    BY <1>1, <2>1, <2>2, OffsetLine
<1>3. CASE ReadText
  <2>1. ~NoOrigin.exact
    BY DEF NoOrigin
  <2> QED
    BY <1>1, <1>3, <2>1, NoOriginType, ReadingText DEF ReadText
<1>4. CASE Close
  <2>1. CASE window' = << >>
    BY <2>1 DEF OffsetsKept
  <2>2. CASE window' = window
    BY <2>2 DEF OffsetsKept
  <2>3. CASE window' = Seen(window, DOMAIN window)
    <3>1. DOMAIN window = 1 .. Len(window) /\ DOMAIN window' = 1 .. Len(window)
          /\ \A i \in 1 .. Len(window) : /\ window'[i].ns = window[i].ns
                                         /\ window'[i].origin = window[i].origin
      BY <2>3, SeenCells, LenProperties DEF Types
    <3> QED
      BY <3>1 DEF OffsetsKept
  <2> QED
    BY <1>4, <2>1, <2>2, <2>3 DEF Close
<1>5. CASE Open \/ ReadHeader \/ UNCHANGED vars
  BY <1>5 DEF Open, ReadHeader, vars, OffsetsKept
<1> QED
  BY <1>2, <1>3, <1>4, <1>5 DEF Next

(* Whatever the formats and the texts among the lines, an offset is read as it
   was measured, unless it was printed as a time stamp, either after a reference
   that is not a whole second, or in the second that times are relative to and
   too wide for the field it is read from. *)
THEOREM OffsetsReadBack == Spec => []OffsetsKept
<1>1. Init => Types /\ OffsetsKept
  BY TypesInit DEF Init, OffsetsKept
<1>2. Types /\ OffsetsKept /\ [Next]_vars => (Types /\ OffsetsKept)'
  BY TypesStep, OffsetsStep
<1> QED
  BY <1>1, <1>2, PTL DEF Spec

-----------------------------------------------------------------------------
(* The end of a file leaves the cells as they are, or none. *)
LEMMA ClosedCells ==
    ASSUME Types, Close
    PROVE  /\ Len(window') \in {0, Len(window)}
           /\ \A i \in 1 .. Len(window') :
                /\ i \in 1 .. Len(window)
                /\ window'[i].sec = window[i].sec
                /\ window'[i].ns = window[i].ns
                /\ window'[i].origin = window[i].origin
                /\ window[i].seen => window'[i].seen
                /\ options.sorted => window'[i].seen
<1>1. window \in Seq(Cells) /\ DOMAIN window = 1 .. Len(window) /\ Len(window) \in Nat
  BY LenProperties DEF Types
<1>2. CASE window' = << >>
  BY <1>2
<1>3. CASE window' = window /\ ~options.sorted
  BY <1>1, <1>3
<1>4. CASE window' = Seen(window, DOMAIN window)
  <2>1. /\ Len(window') = Len(window)
        /\ \A i \in 1 .. Len(window) :
             /\ window'[i].sec = window[i].sec
             /\ window'[i].ns = window[i].ns
             /\ window'[i].origin = window[i].origin
             /\ window'[i].seen = (window[i].seen \/ i \in DOMAIN window)
    BY <1>1, <1>4, SeenCells
  <2> QED
    BY <1>1, <2>1
<1> QED
  BY <1>2, <1>3, <1>4 DEF Close

LEMMA HeldCell ==
    ASSUME Types, NEW i \in 1 .. Len(window)
    PROVE  /\ window[i].sec \in Int
           /\ window[i].origin.at \in Int
           /\ window[i].origin.file \in Nat
           /\ window[i].origin.first \in BOOLEAN
           /\ window[i].seen \in BOOLEAN
<1>1. window[i] \in Cells
  BY ElementOfSeq DEF Types
<1> QED
  BY <1>1 DEF Cells, Origins

(* A file is opened after those whose offsets are held, and by a program that
   started after 1970. *)
FilesOrdered ==
    /\ pc # "main" => files < MaxFiles /\ 0 < base
    /\ \A i \in 1 .. Len(window) : files <= window[i].origin.file
    /\ pc = "header" =>
         format.header /\ \A i \in 1 .. Len(window) : files < window[i].origin.file

LEMMA FilesStep == Types /\ FilesOrdered /\ [Next]_vars => FilesOrdered'
<1> SUFFICES ASSUME Types, FilesOrdered, [Next]_vars PROVE FilesOrdered'
  OBVIOUS
<1>1. CASE Open
  <2>1. files \in Nat /\ files <= MaxFiles /\ files' = files - 1 /\ window' = window
        /\ MaxFiles \in Nat
    BY <1>1, Constants DEF Open, Types
  <2>2. ASSUME NEW i \in 1 .. Len(window) PROVE files' < window[i].origin.file
    <3>1. window[i].origin.file \in Nat /\ files <= window[i].origin.file
      BY HeldCell DEF FilesOrdered
    <3> QED
      BY <2>1, <3>1
  <2>3. files' < MaxFiles
    BY <2>1
  <2>4. 0 < base'
    BY <1>1, Constants DEF Open, Types
  <2>5. \A i \in 1 .. Len(window) : files' <= window[i].origin.file
    <3>1. ASSUME NEW i \in 1 .. Len(window) PROVE files' <= window[i].origin.file
      <4>1. files' \in Int /\ window[i].origin.file \in Int
        BY <2>1, HeldCell
      <4> QED
        BY <2>2, <4>1
    <3> QED
      BY <3>1
  <2>6. pc' = "header" => format'.header
    BY <1>1 DEF Open
  <2> QED
    BY <2>1, <2>2, <2>3, <2>4, <2>5, <2>6 DEF FilesOrdered
<1>2. CASE ReadHeader
  BY <1>2 DEF ReadHeader, input, FilesOrdered
<1>3. ASSUME NEW line, NEW origin \in Origins, Read(line, origin),
             Seconds(line) \in Int, Offset(line) \in Int, Items(line) \in Nat,
             files <= origin.file
      PROVE  FilesOrdered'
  <2>1. Len(window') \in Nat \ {0} /\ Len(window') - 1 \in Nat
        /\ window'[Len(window')].origin = origin
    BY <1>3, ReadCells, Constants
  <2>2. \A i \in 1 .. Len(window') - 1 :
            Before(i) \in 1 .. Len(window) /\ window'[i].origin = window[Before(i)].origin
    BY <1>3, ReadCells
  <2>3. ASSUME NEW i \in 1 .. Len(window') PROVE files <= window'[i].origin.file
    <3>1. CASE i \in 1 .. Len(window') - 1
      BY <2>2, <3>1 DEF FilesOrdered
    <3>2. CASE i = Len(window')
      BY <1>3, <2>1, <3>2
    <3> QED
      BY <2>1, <3>1, <3>2
  <2> QED
    BY <1>3, <2>3 DEF Read, FilesOrdered
<1>4. CASE ReadOffset
  <2>1. PICK ns \in Offsets : Read(Printed(ns), Origin(ns))
    BY <1>4 DEF ReadOffset
  <2>2. files <= Origin(ns).file
    BY DEF Origin, Types
  <2> QED
    BY <1>3, <2>1, <2>2, OffsetLine
<1>5. CASE ReadText
  <2>1. files <= NoOrigin.file
    BY DEF NoOrigin, Types
  <2> QED
    BY <1>3, <1>5, <2>1, NoOriginType, ReadingText DEF ReadText
<1>6. CASE Close
  <2>1. \A i \in 1 .. Len(window') : files <= window'[i].origin.file
    BY <1>6, ClosedCells DEF FilesOrdered
  <2> QED
    BY <1>6, <2>1 DEF Close, input, FilesOrdered
<1>7. CASE UNCHANGED vars
  BY <1>7 DEF vars, input, FilesOrdered
<1> QED
  BY <1>1, <1>2, <1>4, <1>5, <1>6, <1>7 DEF Next

-----------------------------------------------------------------------------
(* The times.  What is taken from the time of a line when it is read: *)
Shift == (IF format.abs_tref THEN 0 ELSE base)
            + (IF format.fraction = 0 THEN 0 ELSE t0)

(* the files whose times are sure, *)
Sure == format.header \/ (format.abs_tref /\ format.fraction # 0)

(* and the offsets of the file being read. *)
TimesRead ==
    pc = "read" =>
        /\ format.header => t0 = base
        /\ \A i \in 1 .. Len(window) :
            window[i].origin.file = files =>
                /\ ~window[i].origin.first =>
                     t0 # 0 /\ window[i].sec = window[i].origin.at - Shift
                /\ Sure => ~window[i].origin.first

LEMMA ShiftType == Types => Shift \in Int
BY DEF Types, Shift

LEMMA NewTime ==
    ASSUME Types, FilesOrdered, TimesRead, NEW ns \in Offsets,
           Read(Printed(ns), Origin(ns))
    PROVE  /\ t0 # 0 => t0' = t0 /\ ~Origin(ns).first
           /\ format.header => t0 # 0
           /\ ~Origin(ns).first =>
                /\ t0' # 0
                /\ Seconds(Printed(ns)) - Base(Seconds(Printed(ns))) = now - Shift'
           /\ Sure => ~Origin(ns).first
<1> DEFINE sec == Seconds(Printed(ns))
<1>1. /\ t0 \in Int /\ base \in Int /\ now \in Nat /\ 0 < now /\ Reference \in Int
      /\ format.header => t0 = base /\ ~format.abs_tref
      /\ 0 < base /\ format' = format /\ base' = base
      /\ t0' = IF t0 = 0 THEN sec ELSE t0
      /\ Base(sec) = IF t0 = 0 THEN sec ELSE t0
  BY Constants DEF Types, Read, FilesOrdered, TimesRead, Reference, Base
<1>2. sec = IF format.fraction = 0 THEN Reference + t0 ELSE Reference
  BY ReadingBack
<1>3. Origin(ns).first = (t0 = 0 /\ ~(format.abs_tref /\ format.fraction # 0))
  BY DEF Origin
<1>4. /\ Reference = now - (IF format.abs_tref THEN 0 ELSE base)
      /\ Shift' = (IF format.abs_tref THEN 0 ELSE base)
                      + (IF format.fraction = 0 THEN 0 ELSE t0')
  BY <1>1 DEF Reference, Shift
<1> HIDE DEF sec
<1>5. ASSUME ~Origin(ns).first PROVE t0' # 0 /\ sec - Base(sec) = now - Shift'
  <2>1. CASE t0 # 0
    BY <1>1, <1>2, <1>4, <2>1
  <2>2. CASE t0 = 0
    <3>1. format.abs_tref /\ format.fraction # 0
      BY <1>3, <1>5, <2>2
    <3> QED
      BY <1>1, <1>2, <1>4, <2>2, <3>1
  <2> QED
    BY <2>1, <2>2
<1>6. format.header => t0 # 0
  BY <1>1
<1>7. Sure => ~Origin(ns).first
  BY <1>3, <1>6 DEF Sure
<1> QED
  BY <1>1, <1>3, <1>5, <1>6, <1>7 DEF sec

LEMMA TimesReadStep ==
    Types /\ FilesOrdered /\ TimesRead /\ [Next]_vars => TimesRead'
<1> SUFFICES ASSUME Types, FilesOrdered, TimesRead, [Next]_vars PROVE TimesRead'
  OBVIOUS
<1>1. CASE Open
  <2>1. /\ window' = window /\ files' = files - 1 /\ files \in Nat
        /\ pc' = "read" => ~format'.header
    BY <1>1, Constants DEF Open, Types
  <2>2. ASSUME NEW i \in 1 .. Len(window) PROVE window[i].origin.file # files'
    <3>1. window[i].origin.file \in Nat /\ files <= window[i].origin.file
      BY HeldCell DEF FilesOrdered
    <3> QED
      BY <2>1, <3>1
  <2> QED
    BY <2>1, <2>2 DEF TimesRead
<1>2. CASE ReadHeader
  <2>1. /\ window' = window /\ files' = files /\ t0' = base' /\ files \in Nat
        /\ pc = "header"
    BY <1>2, Constants DEF ReadHeader, input, Types
  <2>2. ASSUME NEW i \in 1 .. Len(window) PROVE window[i].origin.file # files
    <3>1. window[i].origin.file \in Nat /\ files < window[i].origin.file
      BY <2>1, HeldCell DEF FilesOrdered
    <3> QED
      BY <2>1, <3>1
  <2> QED
    BY <2>1, <2>2 DEF TimesRead
<1>3. ASSUME NEW line, NEW origin \in Origins, Read(line, origin),
             Seconds(line) \in Int, Offset(line) \in Int, Items(line) \in Nat,
             t0 # 0 => t0' = t0, format.header => t0 # 0,
             origin.file = files =>
                /\ ~origin.first =>
                     t0' # 0 /\ Seconds(line) - Base(Seconds(line)) = origin.at - Shift'
                /\ Sure => ~origin.first
      PROVE  TimesRead'
  <2> DEFINE last == Len(window')
             Timed(c) == c.origin.file = files =>
                            /\ ~c.origin.first => t0' # 0 /\ c.sec = c.origin.at - Shift'
                            /\ Sure => ~c.origin.first
  <2>1. /\ last \in Nat \ {0} /\ last - 1 \in Nat
        /\ window'[last].origin = origin
        /\ window'[last].sec = Seconds(line) - Base(Seconds(line))
    BY <1>3, ReadCells, Constants
  <2>2. pc = "read" /\ pc' = pc /\ format' = format /\ base' = base /\ files' = files
    BY <1>3 DEF Read
  <2>3. t0 # 0 => Shift' = Shift
    BY <1>3, <2>2 DEF Shift
  <2>4. ASSUME NEW i \in 1 .. last - 1 PROVE Timed(window'[i])
    <3>1. /\ Before(i) \in 1 .. Len(window)
          /\ window'[i].sec = window[Before(i)].sec
          /\ window'[i].origin = window[Before(i)].origin
      BY <1>3, ReadCells
    <3> DEFINE c == window[Before(i)]
    <3>2. c.origin.file = files =>
             /\ ~c.origin.first => t0 # 0 /\ c.sec = c.origin.at - Shift
             /\ Sure => ~c.origin.first
      BY <2>2, <3>1 DEF TimesRead
    <3> HIDE DEF c
    <3>3. Timed(c)
      BY <1>3, <2>3, <3>2
    <3> QED
      BY <3>1, <3>3, Zenon DEF c
  <2>5. Timed(window'[last])
    BY <1>3, <2>1, Zenon
  <2>6. Sure' = Sure /\ (format.header => t0' = base')
    BY <1>3, <2>2 DEF Sure, TimesRead
  <2> HIDE DEF last
  <2>7. \A i \in 1 .. last : Timed(window'[i])
    <3>1. ASSUME NEW i \in 1 .. last PROVE i \in 1 .. last - 1 \/ i = last
      BY <2>1
    <3> QED
      BY <2>4, <2>5, <3>1, Zenon
  <2> HIDE DEF Timed
  <2>8. ASSUME NEW i \in 1 .. last
        PROVE  window'[i].origin.file = files =>
                /\ ~window'[i].origin.first =>
                     t0' # 0 /\ window'[i].sec = window'[i].origin.at - Shift'
                /\ Sure => ~window'[i].origin.first
    BY <2>7, Zenon DEF Timed
  <2> QED
    BY <2>2, <2>6, <2>8, Zenon DEF TimesRead, last
<1>4. CASE ReadOffset
  <2>1. PICK ns \in Offsets : Read(Printed(ns), Origin(ns))
    BY <1>4 DEF ReadOffset
  <2>2. Origin(ns).at = now
    BY DEF Origin
  <2>3. /\ Seconds(Printed(ns)) \in Int /\ Offset(Printed(ns)) \in Int
        /\ Items(Printed(ns)) \in Nat /\ Origin(ns) \in Origins
    BY <2>1, OffsetLine
  <2> QED
    BY <1>3, <2>1, <2>2, <2>3, NewTime
<1>5. CASE ReadText
  <2>1. Read(Text, NoOrigin) /\ pc = "read" /\ (t0 # 0 => t0' = t0)
    BY <1>5 DEF ReadText, Read, Base
  <2>2. NoOrigin.file # files
    BY <2>1, Constants DEF NoOrigin, FilesOrdered, Types
  <2>3. format.header => t0 # 0
    BY <2>1 DEF TimesRead, FilesOrdered, Types
  <2> QED
    BY <1>3, <2>1, <2>2, <2>3, NoOriginType, ReadingText
<1>6. CASE Close
  BY <1>6 DEF Close, TimesRead
<1>7. CASE UNCHANGED vars
  BY <1>7 DEF vars, input, TimesRead, Shift, Sure
<1> QED
  BY <1>1, <1>2, <1>4, <1>5, <1>6, <1>7 DEF Next

LEMMA GapsStep ==
    Types /\ FilesOrdered /\ TimesRead /\ GapsKept /\ [Next]_vars => GapsKept'
<1> SUFFICES ASSUME Types, FilesOrdered, TimesRead, GapsKept, [Next]_vars
             PROVE  GapsKept'
  OBVIOUS
<1> DEFINE Gap(a, b) ==
        a.origin.file = b.origin.file /\ a.origin.file < MaxFiles /\ ~a.origin.first
            => b.sec - a.sec = b.origin.at - a.origin.at
<1>1. /\ \A i \in 2 .. Len(window) : Gap(window[i - 1], window[i])
      /\ Len(window) \in Nat
  BY LenProperties DEF GapsKept, Types
<1>2. ASSUME NEW line, NEW origin \in Origins, Read(line, origin),
             Seconds(line) \in Int, Offset(line) \in Int, Items(line) \in Nat,
             \A a : /\ a \in {window[i] : i \in 1 .. Len(window)}
                    /\ a.origin.file = origin.file
                    /\ a.origin.file < MaxFiles
                    /\ ~a.origin.first
                => Seconds(line) - Base(Seconds(line)) - a.sec = origin.at - a.origin.at
      PROVE  GapsKept'
  <2> DEFINE last == Len(window')
  <2>1. /\ last \in Nat \ {0}
        /\ last = IF Full(window) THEN Length ELSE Len(window) + 1
        /\ Full(window) => Len(window) = Length
        /\ window'[last].origin = origin
        /\ window'[last].sec = Seconds(line) - Base(Seconds(line))
    BY <1>2, ReadCells, Constants DEF Full
  <2>2. \A i \in 1 .. last - 1 :
            /\ Before(i) \in 1 .. Len(window)
            /\ window'[i].sec = window[Before(i)].sec
            /\ window'[i].origin = window[Before(i)].origin
    BY <1>2, ReadCells
  <2> HIDE DEF last, Gap
  <2>3. ASSUME NEW i \in 2 .. last - 1 PROVE Gap(window'[i - 1], window'[i])
    <3>1. /\ i - 1 \in 1 .. last - 1 /\ i \in 1 .. last - 1
          /\ Before(i) \in 2 .. Len(window) /\ Before(i - 1) = Before(i) - 1
      BY <1>1, <2>1, Constants DEF Before
    <3>2. Gap(window[Before(i) - 1], window[Before(i)])
      BY <1>1, <3>1
    <3>3. Gap(window[Before(i - 1)], window[Before(i)])
      BY <3>1, <3>2
    <3>4. /\ window'[i].sec = window[Before(i)].sec
          /\ window'[i].origin = window[Before(i)].origin
          /\ window'[i - 1].sec = window[Before(i - 1)].sec
          /\ window'[i - 1].origin = window[Before(i - 1)].origin
      BY <2>2, <3>1, Zenon
    <3> QED
      BY <3>3, <3>4, Zenon DEF Gap
  <2>4. ASSUME last > 1 PROVE Gap(window'[last - 1], window'[last])
    <3>1. last - 1 \in 1 .. last - 1
      BY <2>1, <2>4
    <3> DEFINE a == window[Before(last - 1)]
    <3>2. /\ a \in {window[i] : i \in 1 .. Len(window)}
          /\ window'[last - 1].sec = a.sec
          /\ window'[last - 1].origin = a.origin
      BY <2>2, <3>1
    <3> HIDE DEF a
    <3>3. a.origin.file = origin.file /\ a.origin.file < MaxFiles /\ ~a.origin.first
            => Seconds(line) - Base(Seconds(line)) - a.sec = origin.at - a.origin.at
      BY <1>2, <3>2
    <3>4. Seconds(line) \in Int /\ Base(Seconds(line)) \in Int /\ a.sec \in Int
      <4>1. \A i \in 1 .. Len(window) : window[i].sec \in Int
        BY HeldCell
      <4> QED
        BY <1>2, <3>2, <4>1 DEF Base, Types
    <3>5. /\ window'[last].sec = Seconds(line) - Base(Seconds(line))
          /\ window'[last].origin = origin
      BY <2>1
    <3>6. a.origin.file = origin.file /\ a.origin.file < MaxFiles /\ ~a.origin.first
            => window'[last].sec - window'[last - 1].sec = origin.at - a.origin.at
      BY <3>2, <3>3, <3>4, <3>5
    <3> QED
      BY <3>2, <3>5, <3>6, Zenon DEF Gap
  <2>5. ASSUME NEW i \in 2 .. last PROVE Gap(window'[i - 1], window'[i])
    <3>1. CASE i \in 2 .. last - 1
      BY <2>3, <3>1
    <3>2. CASE i = last
      BY <2>1, <2>4, <3>2
    <3> QED
      BY <2>1, <3>1, <3>2
  <2> QED
    BY <2>5, Zenon DEF GapsKept, last, Gap
<1>3. CASE ReadOffset
  <2>1. PICK ns \in Offsets : Read(Printed(ns), Origin(ns))
    BY <1>3 DEF ReadOffset
  <2>2. Origin(ns).at = now /\ Origin(ns).file = files
    BY DEF Origin
  <2>3. /\ Seconds(Printed(ns)) \in Int /\ Offset(Printed(ns)) \in Int
        /\ Items(Printed(ns)) \in Nat /\ Origin(ns) \in Origins
    BY <2>1, OffsetLine
  <2> DEFINE gone == Seconds(Printed(ns)) - Base(Seconds(Printed(ns)))
  <2>4. ASSUME NEW i \in 1 .. Len(window), window[i].origin.file = files,
               ~window[i].origin.first
        PROVE  gone - window[i].sec = now - window[i].origin.at
    <3>1. pc = "read" /\ format' = format /\ base' = base
      BY <2>1 DEF Read
    <3>2. t0 # 0 /\ window[i].sec = window[i].origin.at - Shift
      BY <2>4, <3>1 DEF TimesRead
    <3>3. t0' = t0 /\ gone = now - Shift'
      BY <2>1, <3>2, NewTime
    <3>4. Shift' = Shift
      BY <3>1, <3>3 DEF Shift
    <3>5. now \in Int /\ window[i].origin.at \in Int /\ Shift \in Int
      BY HeldCell, ShiftType DEF Types
    <3> HIDE DEF gone
    <3> QED
      BY <3>2, <3>3, <3>4, <3>5
  <2> HIDE DEF gone
  <2>5. ASSUME NEW a, a \in {window[i] : i \in 1 .. Len(window)},
               a.origin.file = Origin(ns).file, ~a.origin.first
        PROVE  gone - a.sec = Origin(ns).at - a.origin.at
    <3>1. PICK i \in 1 .. Len(window) : a = window[i]
      BY <2>5
    <3> QED
      BY <2>2, <2>4, <2>5, <3>1, Zenon
  <2> QED
    BY <1>2, <2>1, <2>3, <2>5, Zenon DEF gone
<1>4. CASE ReadText
  <2>1. NoOrigin.file = MaxFiles
    BY DEF NoOrigin
  <2>2. MaxFiles \in Nat
    BY Constants
  <2>3. \A a : ~(a.origin.file = NoOrigin.file /\ a.origin.file < MaxFiles)
    BY <2>1, <2>2
  <2> QED
    BY <1>2, <1>4, <2>3, NoOriginType, ReadingText DEF ReadText
<1>5. CASE Close
  <2>1. /\ Len(window') \in {0, Len(window)}
        /\ \A i \in 1 .. Len(window') :
             /\ i \in 1 .. Len(window)
             /\ window'[i].sec = window[i].sec
             /\ window'[i].origin = window[i].origin
    BY <1>5, ClosedCells
  <2>2. ASSUME NEW i \in 2 .. Len(window') PROVE Gap(window'[i - 1], window'[i])
    <3>1. i \in 2 .. Len(window) /\ i \in 1 .. Len(window') /\ i - 1 \in 1 .. Len(window')
      BY <1>1, <2>1
    <3>2. Gap(window[i - 1], window[i])
      BY <1>1, <3>1
    <3> QED
      BY <2>1, <3>1, <3>2, Zenon
  <2> QED
    BY <2>2, Zenon DEF GapsKept
<1>6. CASE Open \/ ReadHeader \/ UNCHANGED vars
  BY <1>6 DEF Open, ReadHeader, vars, GapsKept
<1> QED
  BY <1>3, <1>4, <1>5, <1>6 DEF Next

(* The sure times, from the last two. *)
LEMMA SureTimes ==
    ASSUME Types, TimesRead, pc = "read",
           \/ format.header /\ format.fraction = 0
           \/ format.abs_tref /\ format.fraction # 0,
           NEW i \in DOMAIN window, window[i].origin.file = files
    PROVE  window[i].sec + t0 = window[i].origin.at
<1>1. i \in 1 .. Len(window) /\ t0 \in Int /\ base \in Int
      /\ (format.header => ~format.abs_tref) /\ format \in Formats
  BY CellAt, Constants DEF Types
<1>2. window[i].sec = window[i].origin.at - Shift /\ (format.header => t0 = base)
  BY <1>1 DEF TimesRead, Sure
<1>3. Shift = t0
  BY <1>1, <1>2 DEF Shift
<1>4. window[i].origin.at \in Int
  BY <1>1, HeldCell
<1> QED
  BY <1>1, <1>2, <1>3, <1>4

(* The seconds between two offsets of a file are read as they were, and those
   of a file with t0 or with fractions of absolute seconds are those at which
   they were measured, whatever was read before. *)
THEOREM TimesReadBack == Spec => []TimesKept
<1> DEFINE Inv == Types /\ FilesOrdered /\ TimesRead /\ GapsKept
<1>1. Init => Inv
  BY TypesInit DEF Init, FilesOrdered, TimesRead, GapsKept
<1>2. Inv /\ [Next]_vars => Inv'
  BY TypesStep, FilesStep, TimesReadStep, GapsStep
<1>3. Inv => TimesKept
  BY SureTimes DEF TimesKept
<1> QED
  BY <1>1, <1>2, <1>3, PTL DEF Spec

-----------------------------------------------------------------------------
(* The sorted print.  Since the last one, Left lines were counted and k texts
   were not: older cells were printed, and no more than what these pushed out
   of the buffer is lost. *)
Left == line_nb % Length

AllSeen == \A i \in 1 .. Len(window) : window[i].seen

Pushed(n) == IF n > Length THEN n - Length ELSE 0

Waiting(k) ==
    /\ \A i \in 1 .. Len(window) : i <= Len(window) - (Left + k) => window[i].seen
    /\ lost <= texts - k + Pushed(Left + k)

PrintedInTime ==
    /\ pc = "header" => line_nb = 0
    /\ pc = "read" => Len(window) = Length \/ line_nb <= Len(window)
    /\ pc # "read" \/ ~options.sorted => AllSeen /\ lost <= texts
    /\ pc = "read" /\ options.sorted => \E k \in 0 .. texts : Waiting(k)

LEMMA LeftBounds ==
    ASSUME Types
    PROVE  /\ Left \in 0 .. Length - 1
           /\ (line_nb + 1) % Length = IF Left + 1 = Length THEN 0 ELSE Left + 1
           /\ Left + 1 = Length => Length <= line_nb + 1
<1>1. line_nb \in Nat /\ Length \in Nat /\ 0 < Length
  BY Constants DEF Types
<1>2. /\ Left \in 0 .. Length - 1
      /\ (line_nb + 1) % Length = IF Left + 1 = Length THEN 0 ELSE Left + 1
  BY <1>1, NextRemainder DEF Left
<1>3. Left <= line_nb
  <2>1. CASE line_nb < Length
    BY <1>1, <2>1, SMTT(30) DEF Left
  <2>2. CASE Length <= line_nb
    BY <1>1, <1>2, <2>2
  <2> QED
    BY <1>1, <2>1, <2>2
<1> QED
  BY <1>1, <1>2, <1>3

(* Nothing that waits to be printed has been lost for good: *)
LEMMA WaitingBound ==
    ASSUME Types, NEW k \in 0 .. texts, Waiting(k)
    PROVE  lost <= texts
<1>1. Left \in 0 .. Length - 1 /\ Length \in Nat /\ texts \in Nat /\ lost \in Nat
  BY LeftBounds, Constants DEF Types
<1> QED
  BY <1>1 DEF Waiting, Pushed

(* the oldest offset is, only if enough lines came after the last print. *)
LEMMA OldestLost ==
    ASSUME Types, NEW k \in 0 .. texts, Waiting(k),
           NEW line, NEW origin, Read(line, origin)
    PROVE  /\ lost' \in {lost, lost + 1}
           /\ lost' = lost + 1 => Full(window) /\ Length <= Left + k
<1>1. Left \in 0 .. Length - 1 /\ Length \in Nat /\ 0 < Length /\ k \in Nat
      /\ lost \in Nat
  BY LeftBounds, Constants DEF Types
<1>2. CASE Full(window) /\ ~window[1].seen
  <2>1. Len(window) = Length /\ 1 \in 1 .. Len(window)
    BY <1>1, <1>2 DEF Full
  <2>2. ~(1 <= Len(window) - (Left + k))
    BY <1>2, <2>1 DEF Waiting
  <2> QED
    BY <1>1, <1>2, <2>1, <2>2 DEF Read
<1>3. CASE ~(Full(window) /\ ~window[1].seen)
  BY <1>1, <1>3 DEF Read
<1> QED
  BY <1>2, <1>3

(* A line that does not print leaves one more to wait for. *)
LEMMA WaitingMore ==
    ASSUME Types, NEW k \in 0 .. texts, Waiting(k),
           NEW line, NEW origin \in Origins, Read(line, origin),
           Seconds(line) \in Int, Offset(line) \in Int, Items(line) \in Nat,
           NEW l \in Nat, NEW m \in Nat,
           l + m = Left + k + 1, texts' - m = texts - k
    PROVE  /\ \A i \in 1 .. Len(window') : i <= Len(window') - (l + m) => window'[i].seen
           /\ lost' <= texts' - m + Pushed(l + m)
<1> DEFINE last == Len(window')
<1>1. /\ Left \in 0 .. Length - 1 /\ Length \in Nat /\ 0 < Length /\ k \in Nat
      /\ lost \in Nat /\ texts \in Nat /\ Len(window) \in Nat
  BY LeftBounds, Constants, LenProperties DEF Types
<1>2. /\ last = IF Full(window) THEN Length ELSE Len(window) + 1
      /\ Full(window) => Len(window) = Length
      /\ last \in Nat
  BY <1>1, ReadCells DEF Full
<1>3. \A i \in 1 .. last - 1 : /\ Before(i) \in 1 .. Len(window)
                               /\ window[Before(i)].seen => window'[i].seen
  BY ReadCells
<1> HIDE DEF last
<1>4. ASSUME NEW i \in 1 .. last, i <= last - (l + m) PROVE window'[i].seen
  <2>1. i \in 1 .. last - 1 /\ Before(i) <= Len(window) - (Left + k)
    BY <1>1, <1>2, <1>4 DEF Before
  <2>2. window[Before(i)].seen
    BY <1>3, <2>1 DEF Waiting
  <2> QED
    BY <1>3, <2>1, <2>2
<1>5. lost' <= texts' - m + Pushed(l + m)
  <2>1. /\ lost' \in {lost, lost + 1}
        /\ lost' = lost + 1 => Length <= Left + k
    BY OldestLost
  <2>2. lost <= texts - k + Pushed(Left + k)
    BY DEF Waiting
  <2>3. Pushed(Left + k) <= Pushed(l + m)
        /\ (Length <= Left + k => Pushed(Left + k) + 1 = Pushed(l + m))
        /\ Pushed(Left + k) \in Nat /\ Pushed(l + m) \in Nat
    BY <1>1 DEF Pushed
  <2> QED
    BY <1>1, <2>1, <2>2, <2>3
<1> QED
  BY <1>4, <1>5 DEF last

LEMMA UnsortedRead ==
    ASSUME Types, PrintedInTime, ~options.sorted,
           NEW line, NEW origin \in Origins, Read(line, origin),
           Seconds(line) \in Int, Offset(line) \in Int, Items(line) \in Nat,
           line = Text \/ Items(line) > 0
    PROVE  AllSeen' /\ lost' = lost
<1> DEFINE last == Len(window')
<1>1. /\ last \in Nat \ {0}
      /\ window'[last].seen
  BY ReadCells, Constants
<1>2. \A i \in 1 .. last - 1 : /\ Before(i) \in 1 .. Len(window)
                               /\ window[Before(i)].seen => window'[i].seen
  BY ReadCells
<1>3. AllSeen
  BY DEF PrintedInTime
<1>4. lost' = lost
  <2>1. Full(window) => window[1].seen
    BY <1>3, Constants DEF AllSeen, Full
  <2> QED
    BY <2>1, Zenon DEF Read
<1> HIDE DEF last
<1>5. ASSUME NEW i \in 1 .. last PROVE window'[i].seen
  <2>1. i = last \/ i \in 1 .. last - 1
    BY <1>1
  <2> QED
    BY <1>1, <1>2, <1>3, <2>1, Zenon DEF AllSeen
<1> QED
  BY <1>4, <1>5, Zenon DEF AllSeen, last

LEMMA PrintedOffset ==
    ASSUME Types, PrintedInTime, NEW ns \in Offsets, Read(Printed(ns), Origin(ns)),
           texts' = texts
    PROVE  PrintedInTime'
<1> DEFINE line == Printed(ns)
<1>1. /\ Seconds(line) \in Int /\ Offset(line) \in Int
      /\ Items(line) \in Nat /\ Items(line) > 0 /\ Origin(ns) \in Origins
  BY OffsetLine
<1>2. /\ pc = "read" /\ pc' = pc /\ options' = options /\ line_nb' = line_nb + 1
      /\ Read(line, Origin(ns))
  BY <1>1 DEF Read
<1> HIDE DEF line
<1>3. /\ line_nb \in Nat /\ Length \in Nat /\ 0 < Length /\ texts \in Nat
      /\ Len(window) \in Nat /\ lost \in Nat
      /\ Len(window') = IF Full(window) THEN Length ELSE Len(window) + 1
      /\ Len(window') \in 1 .. Length
  BY <1>1, <1>2, ReadCells, Constants, LenProperties DEF Types
<1>4. Len(window') = Length \/ line_nb' <= Len(window')
  BY <1>2, <1>3 DEF PrintedInTime, Full
<1>5. ASSUME ~options.sorted PROVE AllSeen' /\ lost' <= texts'
  BY <1>1, <1>2, <1>5, UnsortedRead DEF PrintedInTime
<1>6. ASSUME options.sorted PROVE \E m \in 0 .. texts' : Waiting(m)'
  <2>1. PICK k \in 0 .. texts : Waiting(k)
    BY <1>2, <1>6 DEF PrintedInTime
  <2>2. /\ Left \in 0 .. Length - 1
        /\ line_nb' % Length = IF Left + 1 = Length THEN 0 ELSE Left + 1
        /\ Left + 1 = Length => Length <= line_nb'
    BY <1>2, LeftBounds
  <2>3. CASE Left + 1 = Length
    <3>1. Len(window') = Length /\ line_nb' % Length = 0
      BY <1>2, <1>3, <1>4, <2>2, <2>3
    <3>2. \A i \in 1 .. Len(window') : window'[i].seen
      BY <1>1, <1>2, <1>6, <3>1, ReadCells
    <3>3. lost' <= texts
      <4>1. /\ lost' \in {lost, lost + 1}
            /\ lost' = lost + 1 => Length <= Left + k
        BY <1>2, <2>1, OldestLost
      <4>2. lost <= texts - k + Pushed(Left + k)
        BY <2>1 DEF Waiting
      <4> QED
        BY <1>3, <2>1, <2>2, <4>1, <4>2 DEF Pushed
    <3>4. Left' = 0 /\ Pushed(0) = 0 /\ Pushed(0)' = 0
      BY <1>3, <3>1 DEF Left, Pushed
    <3>5. Waiting(0)'
      BY <1>3, <3>2, <3>3, <3>4 DEF Waiting
    <3> QED
      BY <1>3, <3>5
  <2>4. CASE Left + 1 # Length
    <3> DEFINE l == Left + 1
    <3>1. l \in Nat /\ k \in Nat /\ Left' = l /\ l + k = Left + k + 1
          /\ k \in 0 .. texts'
      BY <1>3, <2>2, <2>4 DEF Left
    <3> HIDE DEF l
    <3>2. /\ \A i \in 1 .. Len(window') :
                i <= Len(window') - (l + k) => window'[i].seen
          /\ lost' <= texts' - k + Pushed(l + k)
      BY <1>1, <1>2, <2>1, <3>1, WaitingMore
    <3>3. Waiting(k)'
      BY <3>1, <3>2 DEF Waiting, Pushed
    <3> QED
      BY <3>1, <3>3
  <2> QED
    BY <2>3, <2>4
<1> QED
  BY <1>2, <1>4, <1>5, <1>6 DEF PrintedInTime

LEMMA PrintedText ==
    ASSUME Types, PrintedInTime, Read(Text, NoOrigin), texts' = texts + 1
    PROVE  PrintedInTime'
<1>1. /\ Seconds(Text) \in Int /\ Offset(Text) \in Int
      /\ Items(Text) = 0 /\ Items(Text) \in Nat /\ NoOrigin \in Origins
  BY ReadingText, NoOriginType
<1>2. /\ pc = "read" /\ pc' = pc /\ options' = options /\ line_nb' = line_nb
  BY <1>1 DEF Read
<1>3. /\ line_nb \in Nat /\ Length \in Nat /\ texts \in Nat
      /\ Len(window) \in Nat /\ lost \in Nat
      /\ Len(window') = IF Full(window) THEN Length ELSE Len(window) + 1
  BY <1>1, <1>2, ReadCells, Constants, LenProperties DEF Types
<1>4. Len(window') = Length \/ line_nb' <= Len(window')
  BY <1>2, <1>3 DEF PrintedInTime, Full
<1>5. ASSUME ~options.sorted PROVE AllSeen' /\ lost' <= texts'
  <2>1. AllSeen' /\ lost' = lost
    BY <1>1, <1>5, UnsortedRead
  <2>2. lost <= texts
    BY <1>5 DEF PrintedInTime
  <2> QED
    BY <1>3, <2>1, <2>2
<1>6. ASSUME options.sorted PROVE \E m \in 0 .. texts' : Waiting(m)'
  <2>1. PICK k \in 0 .. texts : Waiting(k)
    BY <1>2, <1>6 DEF PrintedInTime
  <2> DEFINE l == Left
  <2>2. l \in Nat /\ k + 1 \in Nat /\ Left' = l /\ l + (k + 1) = Left + k + 1
        /\ texts' - (k + 1) = texts - k /\ k + 1 \in 0 .. texts'
    BY <1>2, <1>3, LeftBounds DEF Left
  <2> HIDE DEF l
  <2>3. /\ \A i \in 1 .. Len(window') :
              i <= Len(window') - (l + (k + 1)) => window'[i].seen
        /\ lost' <= texts' - (k + 1) + Pushed(l + (k + 1))
    BY <1>1, <2>1, <2>2, WaitingMore
  <2>4. Waiting(k + 1)'
    BY <2>2, <2>3 DEF Waiting, Pushed
  <2> QED
    BY <2>2, <2>4
<1> QED
  BY <1>2, <1>4, <1>5, <1>6 DEF PrintedInTime

LEMMA PrintedStep == Types /\ PrintedInTime /\ [Next]_vars => PrintedInTime'
<1> SUFFICES ASSUME Types, PrintedInTime, [Next]_vars PROVE PrintedInTime'
  OBVIOUS
<1>1. CASE Open
  <2>1. AllSeen /\ lost <= texts /\ Len(window) \in Nat /\ texts \in Nat
        /\ Length \in Nat /\ 0 < Length /\ lost \in Nat
    BY <1>1, Constants, LenProperties DEF Open, PrintedInTime, Types
  <2>2. /\ window' = window /\ lost' = lost /\ texts' = texts /\ line_nb' = 0
        /\ pc' \in {"header", "read"}
    BY <1>1 DEF Open
  <2>3. AllSeen' /\ lost' <= texts'
    BY <2>1, <2>2 DEF AllSeen
  <2>4. Left' = 0
    BY <2>1, <2>2 DEF Left
  <2>5. Pushed(0)' = 0
    BY <2>1 DEF Pushed
  <2>6. Waiting(0)' /\ 0 \in 0 .. texts'
    BY <2>1, <2>2, <2>3, <2>4, <2>5 DEF Waiting, AllSeen
  <2> QED
    BY <2>1, <2>2, <2>3, <2>6 DEF PrintedInTime
<1>2. CASE ReadHeader
  <2>1. /\ window' = window /\ lost' = lost /\ texts' = texts /\ line_nb' = line_nb
        /\ line_nb = 0 /\ pc = "header" /\ pc' = "read" /\ options' = options
    BY <1>2 DEF ReadHeader, PrintedInTime
  <2>2. AllSeen /\ lost <= texts /\ Len(window) \in Nat /\ texts \in Nat
        /\ Length \in Nat /\ 0 < Length /\ lost \in Nat
    BY <2>1, Constants, LenProperties DEF PrintedInTime, Types
  <2>3. AllSeen' /\ lost' <= texts'
    BY <2>1, <2>2 DEF AllSeen
  <2>4. Left' = 0
    BY <2>1, <2>2 DEF Left
  <2>5. Pushed(0)' = 0
    BY <2>2 DEF Pushed
  <2>6. Waiting(0)' /\ 0 \in 0 .. texts'
    BY <2>1, <2>2, <2>3, <2>4, <2>5 DEF Waiting, AllSeen
  <2> QED
    BY <2>1, <2>2, <2>3, <2>6 DEF PrintedInTime
<1>3. CASE ReadOffset
  BY <1>3, PrintedOffset DEF ReadOffset
<1>4. CASE ReadText
  BY <1>4, PrintedText DEF ReadText
<1>5. CASE Close
  <2>1. /\ Len(window') \in {0, Len(window)}
        /\ \A i \in 1 .. Len(window') :
             /\ i \in 1 .. Len(window)
             /\ window[i].seen => window'[i].seen
             /\ options.sorted => window'[i].seen
    BY <1>5, ClosedCells
  <2>2. AllSeen'
    <3>1. options.sorted \/ AllSeen
      BY DEF PrintedInTime
    <3> QED
      BY <2>1, <3>1, Zenon DEF AllSeen
  <2>3. lost <= texts
    <3>1. CASE options.sorted
      BY <1>5, <3>1, WaitingBound DEF Close, PrintedInTime
    <3>2. CASE ~options.sorted
      BY <3>2 DEF PrintedInTime
    <3> QED
      BY <3>1, <3>2
  <2> QED
    BY <1>5, <2>2, <2>3 DEF Close, PrintedInTime
<1>6. CASE UNCHANGED vars
  BY <1>6 DEF vars, PrintedInTime, Waiting, Left, AllSeen, Pushed
<1> QED
  BY <1>1, <1>2, <1>3, <1>4, <1>5, <1>6 DEF Next

(* Printing sorted, no more offsets leave the buffer without being printed
   than there were texts among the lines. *)
THEOREM SortedPrint == Spec => []SortedLosesLittle
<1>1. Init => Types /\ PrintedInTime
  BY TypesInit DEF Init, PrintedInTime, AllSeen
<1>2. Types /\ PrintedInTime /\ [Next]_vars => (Types /\ PrintedInTime)'
  BY TypesStep, PrintedStep
<1>3. Types /\ PrintedInTime => SortedLosesLittle
  BY WaitingBound DEF PrintedInTime, SortedLosesLittle, Types
<1> QED
  BY <1>1, <1>2, <1>3, PTL DEF Spec
=============================================================================
