----------------------------- MODULE StatsFile -----------------------------
(***************************************************************************)
(* The pps_stats program (src/pps_stats.c): it reads offsets that ppsd or  *)
(* itself has printed, in several formats, gives them to pps_stats_update  *)
(* and prints them again, one by one or sorted, a buffer at a time.        *)
(*                                                                         *)
(* A field of a line is <<n>> if it is printed as an integer and <<s, n>>  *)
(* if it is printed as seconds and nanoseconds; the statistics that follow *)
(* an offset are integers.  The buffer is the window that PpsStats         *)
(* implements.  A file is written as it is read; what is said not to be in *)
(* the code is what the properties must know of it.                        *)
(***************************************************************************)
EXTENDS Integers, Sequences

CONSTANTS
    Length,    \* option -c
    Second,    \* 10^9 ns
    Radix,     \* 10: of the digits that are printed
    Offsets,   \* offsets in the files, less than a second
    Epoch,     \* the seconds of the first time reference
    Formats,   \* ways to write a file
    MaxLines,  \* lines of a file
    MaxFiles   \* files on the command line

ASSUME StatsFileAssumption ==
    /\ {Length, Second, Radix, Epoch, MaxLines, MaxFiles} \subseteq Nat \ {0}
    /\ Offsets \subseteq 1 - Second .. Second - 1
    /\ Formats \subseteq [abs_tref : BOOLEAN, abs_toff : BOOLEAN,
                         stats : BOOLEAN,  \* columns after the offset
                         fraction : 0 .. Second - 1,  \* of the references
                         header : BOOLEAN,  \* pps_stats_hdr1 has written t0
                         first : 0 .. Epoch - 1]  \* the first relative time
    /\ \A f \in Formats : f.header => ~f.abs_tref

VARIABLES
    options,       \* -S and -r
    window,        \* the offsets held, the oldest first
    t0,            \* the seconds that their times are relative to
    line_nb,       \* lines of the file that had an offset
    pc,            \* where the program stands
    format,        \* not in the code: how the file is written,
    base,          \* the t0 of the program that wrote it,
    now,           \* the seconds of its next time reference,
    lines, files,  \* the lines and files left,
    texts, lost    \* the lines without offset, and the offsets that left the
                   \* buffer before they were printed

input == <<format, base, now, lines, files>>
vars == <<options, window, t0, line_nb, pc, input, texts, lost>>

(* timespec_norm, of a time that an offset was added to. *)
Norm(sec, nsec) ==
    IF nsec >= Second THEN <<sec + 1, nsec - Second>>
    ELSE IF nsec < 0 /\ sec > 0 THEN <<sec - 1, nsec + Second>>
    ELSE <<sec, nsec>>

(* The fields pps_stats_print1, offset_fprint and pps_stats_print2 print for
   an offset measured now. *)
Printed(ns) ==
    LET t == IF format.abs_tref THEN now ELSE now - base
        tref == IF format.fraction = 0 THEN <<t>> ELSE <<t, format.fraction>>
        toff == IF format.abs_toff THEN Norm(t, format.fraction + ns) ELSE <<ns>>
    IN  IF format.stats THEN <<tref, toff, <<0>> >> ELSE <<tref, toff>>

Text == <<>>

-----------------------------------------------------------------------------
(* %09ld prints at least nine characters and reads at most nine, the sign being
   one of them: a negative number of nine digits is read without the last one,
   which is left in the line. *)
TooWide(nsec) == Second <= Radix * (-nsec)
Scanned(nsec) == IF TooWide(nsec) THEN -((-nsec) \div Radix) ELSE nsec

(* What the first sscanf of pps_stats_sscan converts: it stops at an integer
   where a fraction should follow, and at a digit that was left. *)
Items(line) ==
    CASE line = Text -> 0
      [] line # Text /\ Len(line[1]) = 1 -> 1
      [] line # Text /\ Len(line[1]) = 2 /\ Len(line[2]) = 1 -> 3
      [] OTHER -> IF Len(line) = 2 \/ TooWide(line[2][2]) THEN 4 ELSE 5

(* OffsetsKept: the time stamp is not told from an offset. *)
Offset_Bug(line) ==
    CASE Items(line) \in {1, 3} -> line[2][1]
      [] Items(line) = 5 -> line[3][1]
      [] OTHER -> 0

(* The offset it gives to pps_stats_update: 0 from a text, which it takes for
   an offset, or if the time stamp and its reference have fractions, unless
   other figures follow. *)
Offset(line) ==
    CASE Items(line) = 1 /\ Len(line[2]) = 2 ->
            (line[2][1] - line[1][1]) * Second + Scanned(line[2][2])
      [] Items(line) \in {1, 3} /\ Len(line[2]) = 1 -> line[2][1]
      [] Items(line) = 5 -> line[3][1]
      [] OTHER -> 0

(* TimesKept: the time remains relative. *)
Seconds_Bug(line) == IF Items(line) = 0 THEN 0 ELSE line[1][1]

(* And the seconds: integers are all taken for relative ones. *)
Seconds(line) ==
    CASE Items(line) = 0 -> 0
      [] Items(line) = 1 -> line[1][1] + t0
      [] OTHER -> line[1][1]

Full(w) == Len(w) = Length

(* pps_stats_update: the first time is what the others are relative to. *)
Base(sec) == IF t0 = 0 THEN sec ELSE t0

(* Where the time is relative, a time stamp in the first second of the program
   that wrote it stays negative, and the offset may not fit its field. *)
Cut(ns) == ~format.abs_tref /\ now = base /\ TooWide(ns)

(* What the properties must know of a line: a text has no file. *)
Origin(ns) ==
    [file |-> files, at |-> now, ns |-> ns,
     exact |-> format.abs_toff => format.fraction = 0 /\ ~Cut(ns),
     first |-> t0 = 0 /\ ~(format.abs_tref /\ format.fraction # 0)]
NoOrigin == [file |-> MaxFiles, at |-> 0, ns |-> 0, exact |-> FALSE, first |-> FALSE]

Seen(w, cells) == [i \in DOMAIN w |-> [w[i] EXCEPT !.seen = @ \/ i \in cells]]

(* SortedLosesLittle: the buffer is printed one line too late. *)
Printing_Bug(w, nb) ==
    IF ~options.sorted THEN {Len(w)}
    ELSE IF Full(w) /\ nb % (Length + 1) = 0 THEN DOMAIN w ELSE {}

(* The offsets _do_one prints after the nb-th line: the last one, or all those
   in the buffer. *)
Printing(w, nb) ==
    IF ~options.sorted THEN {Len(w)}
    ELSE IF Full(w) /\ nb % Length = 0 THEN DOMAIN w ELSE {}

-----------------------------------------------------------------------------
Init ==
    /\ options \in [sorted : BOOLEAN, reset : BOOLEAN]
    /\ window = <<>>
    /\ t0 = 0
    /\ line_nb = 0
    /\ pc = "main"
    /\ format \in Formats
    /\ base = 0
    /\ now = Epoch
    /\ lines = 0
    /\ files = MaxFiles
    /\ texts = 0
    /\ lost = 0

(* main opens the next file. *)
Open ==
    /\ pc = "main"
    /\ files > 0
    /\ files' = files - 1
    /\ format' \in Formats
    /\ base' = now - format'.first
    /\ lines' = MaxLines
    /\ line_nb' = 0
    /\ pc' = IF format'.header THEN "header" ELSE "read"
    /\ UNCHANGED <<options, window, t0, now, texts, lost>>

(* The comment "STATS T0=": pps_stats_sscan sets t0, whatever is held. *)
ReadHeader ==
    /\ pc = "header"
    /\ t0' = base
    /\ pc' = "read"
    /\ UNCHANGED <<options, window, line_nb, input, texts, lost>>

(* pps_stats_sscan of a line that is no comment, pps_stats_update, and what
   _do_one prints then.  Only a line that had an item is counted. *)
Read(line, origin) ==
    LET cell == [sec |-> Seconds(line) - Base(Seconds(line)), ns |-> Offset(line),
                 origin |-> origin, seen |-> line = Text]
        w == Append(IF Full(window) THEN Tail(window) ELSE window, cell)
    IN  /\ pc = "read"
        /\ lines > 0
        /\ lines' = lines - 1
        /\ t0' = Base(Seconds(line))
        /\ IF Items(line) > 0
           THEN /\ line_nb' = line_nb + 1
                /\ window' = Seen(w, Printing(w, line_nb'))
           ELSE window' = w /\ UNCHANGED line_nb
        /\ lost' = IF Full(window) /\ ~window[1].seen THEN lost + 1 ELSE lost
        /\ UNCHANGED <<options, pc, format, base, files>>

ReadOffset ==
    /\ \E ns \in Offsets : Read(Printed(ns), Origin(ns))
    /\ now' = now + 1
    /\ UNCHANGED texts

(* What ppsd prints that is neither an offset nor a comment: "clear not
   supported" is the third line of data/ppsd-jetson.txt. *)
ReadText ==
    /\ Read(Text, NoOrigin)
    /\ texts' = texts + 1
    /\ UNCHANGED now

(* The end of the file. *)
Close ==
    /\ pc = "read"
    /\ IF options.reset
       THEN window' = <<>> /\ t0' = 0
       ELSE /\ window' = IF options.sorted
                         THEN Seen(window, DOMAIN window) ELSE window
            /\ UNCHANGED t0
    /\ pc' = "main"
    /\ UNCHANGED <<options, line_nb, input, texts, lost>>

Next == Open \/ ReadHeader \/ ReadOffset \/ ReadText \/ Close

Spec == Init /\ [][Next]_vars

-----------------------------------------------------------------------------
(* Properties. *)

(* An offset that was printed is read as it was, in whatever format and after
   whatever other files, comments and texts.  The exceptions are two kinds of
   time stamps: those whose reference is not a whole second (pps_stats.c:812:
   neither 4 items, nor 5 that are not a reference, a time stamp and an offset),
   and, in the second that times are relative to, those of an offset of minus a
   tenth of a second or less (pps_stats.c:817: "0.-300000000" is read as
   -30000000). *)
OffsetsKept ==
    \A i \in DOMAIN window :
        window[i].origin.exact => window[i].ns = window[i].origin.ns

(* The drift is made of the seconds between two offsets: they are read as they
   were, even between lines that follow another file or another t0.  What was
   read while t0 was 0 is the exception: a whole second of absolute time is not
   told from a relative one, and t0 is then added to the next. *)
GapsKept ==
    \A i \in 2 .. Len(window) :
        LET a == window[i - 1] b == window[i]
        IN  a.origin.file = b.origin.file /\ a.origin.file < MaxFiles
                /\ ~a.origin.first
              => b.sec - a.sec = b.origin.at - a.origin.at

(* And a file with t0 in it, or with fractions of absolute seconds, has its
   offsets at the time they were measured, whatever was read before it. *)
TimesKept ==
    /\ GapsKept
    /\ \/ format.header /\ format.fraction = 0
       \/ format.abs_tref /\ format.fraction # 0
       => \A i \in DOMAIN window :
            pc = "read" /\ window[i].origin.file = files =>
                window[i].sec + t0 = window[i].origin.at

(* Printing sorted, an offset leaves the buffer before it is printed only if
   a text, which is not counted, took a cell: one offset for one text. *)
SortedLosesLittle == lost <= texts
=============================================================================
