------------------------------- MODULE Timeref -------------------------------
(***************************************************************************)
(* The timeref program (src/timeref.c): it asks servers for the time, by   *)
(* SNTP or from GPSD, until one answers, then sets the clock, so that ppsd *)
(* finds it in the right second.                                           *)
(*                                                                         *)
(* A time is modelled by its distance to the true time, which passes while *)
(* the program waits or sleeps; phase keeps where in its second the true   *)
(* time is.  A server may answer, late or not, fail or be silent, whatever *)
(* it did before: servers have no identity.                                *)
(***************************************************************************)
EXTENDS Integers

CONSTANTS
    Second,       \* 10^9 ns
    MaxOffset,    \* option -o: a clock closer than that is not stepped
    FixTimeout,   \* GPSD_TIMEOUT_S: attempts to get a fix
    MaxServers,   \* servers given on the command line
    Processing,   \* between a request's reception and its answer
    Delays,       \* between an answer and its reading
    Garbage,      \* times of reports without a fix, or read long ago
    Skews,        \* how wrong the clock is when the program starts
    MayFail       \* whether setting the clock may be refused

ASSUME TimerefAssumption ==
    /\ {Second, MaxOffset, FixTimeout, MaxServers} \subseteq Nat \ {0}
    /\ Processing \cup Delays \subseteq Nat /\ Delays # {}
    /\ Garbage \cup Skews \subseteq Int
    /\ MayFail \in BOOLEAN

VARIABLES
    pc,                      \* where the program stands
    options,                 \* -s, -f and -c
    servers,                 \* servers left to ask
    looping,                 \* in the loop of option -c
    ret_gpsd, ret_sntp,      \* what the two protocols answered last
    fallback,                \* whether GPSD is asked if SNTP fails
    to,                      \* failed attempts to get a fix
    timeref, timestamp,      \* minus the true time
    off,                     \* off_ns
    skew,                    \* the clock, minus the true time
    phase                    \* the true time, within its second

answers == <<ret_gpsd, ret_sntp>>
times == <<timeref, timestamp, phase>>
vars == <<pc, options, servers, looping, answers, fallback, to, times, off, skew>>

Abs(n) == IF n < 0 THEN -n ELSE n

(* Definitions whose name holds _Bug are seeded bugs: each is a mistake the
   code could hold where the definition that follows stands, and the property
   named catches it. *)

Init ==
    /\ pc = "query"
    /\ options \in [set : BOOLEAN, force : BOOLEAN, cont : BOOLEAN]
    /\ options.force => options.set
    /\ servers \in 0 .. MaxServers - 1
    /\ looping = FALSE
    /\ ret_gpsd = 0 /\ ret_sntp = 0
    /\ fallback = FALSE
    /\ to = 0
    /\ timeref \in Garbage /\ timestamp \in Garbage
    /\ off = 0
    /\ skew \in Skews
    /\ phase = 0

(* OneProtocol: SNTP is always asked first. *)
Query_Bug ==
    /\ pc = "query"
    /\ pc' = "sntp"
    /\ fallback' = (ret_gpsd <= 0 /\ ret_sntp <= 0)
    /\ UNCHANGED <<options, servers, looping, answers, to, times, off, skew>>

(* _once: the protocol that answered is asked again, else both are. *)
Query ==
    /\ pc = "query"
    /\ pc' = IF ret_gpsd > 0 THEN "gpsd" ELSE "sntp"
    /\ fallback' = (ret_gpsd <= 0 /\ ret_sntp <= 0)
    /\ UNCHANGED <<options, servers, looping, answers, to, times, off, skew>>

(* sntp_timeref, on an error. *)
SntpFails ==
    /\ pc = "sntp"
    /\ ret_sntp' = -1
    /\ pc' = IF fallback THEN "gpsd" ELSE "answered"
    /\ UNCHANGED <<options, servers, looping, ret_gpsd, fallback, to, times, off, skew>>

(* A request or an answer is lost, and read never returns. *)
SntpLost ==
    /\ pc = "sntp"
    /\ pc' = "blocked"
    /\ UNCHANGED <<options, servers, looping, answers, fallback, to, times, off, skew>>

(* The two times are the server's: when it received the request, and when it
   answered. *)
SntpAnswers ==
    /\ pc = "sntp"
    /\ ret_sntp' = 1
    /\ phase' \in 0 .. Second - 1
    /\ \E d \in Delays, p \in Processing :
          timeref' = -d /\ timestamp' = -d - p
    /\ pc' = "answered"
    /\ UNCHANGED <<options, servers, looping, ret_gpsd, fallback, to, off, skew>>

(* gps_open *)
GpsdRefuses ==
    /\ pc = "gpsd"
    /\ ret_gpsd' = -1
    /\ pc' = "answered"
    /\ UNCHANGED <<options, servers, looping, ret_sntp, fallback, to, times, off, skew>>

GpsdAccepts ==
    /\ pc = "gpsd"
    /\ to' = 0
    /\ pc' = "fix"
    /\ UNCHANGED <<options, servers, looping, answers, fallback, times, off, skew>>

(* TypeOK: one attempt too many. *)
NoFix_BugOneMore ==
    /\ pc = "fix"
    /\ to' = to + 1
    /\ timeref' \in Garbage
    /\ timestamp' = skew
    /\ IF to = FixTimeout THEN ret_gpsd' = 0 /\ pc' = "answered"
                          ELSE UNCHANGED <<ret_gpsd, pc>>
    /\ UNCHANGED <<options, servers, looping, ret_sntp, fallback, phase, off, skew>>

(* SetWithinASecond: the last attempt counts as a fix. *)
NoFix_BugLast ==
    /\ pc = "fix"
    /\ to' = to + 1
    /\ timeref' \in Garbage
    /\ timestamp' = skew
    /\ IF to' = FixTimeout THEN ret_gpsd' = 1 /\ pc' = "answered"
                           ELSE UNCHANGED <<ret_gpsd, pc>>
    /\ UNCHANGED <<options, servers, looping, ret_sntp, fallback, phase, off, skew>>

(* QueryEnds: failed attempts are not counted. *)
NoFix_BugNoCount ==
    /\ pc = "fix"
    /\ timeref' \in Garbage
    /\ timestamp' = skew
    /\ UNCHANGED <<pc, options, servers, looping, answers, fallback, to, phase, off,
                   skew>>

(* gpsd_get_fix, with no report or a report without a fix, whose time is
   stored nevertheless. *)
NoFix ==
    /\ pc = "fix"
    /\ to' = to + 1
    /\ timeref' \in Garbage
    /\ timestamp' = skew
    /\ IF to' = FixTimeout THEN ret_gpsd' = 0 /\ pc' = "answered"
                           ELSE UNCHANGED <<ret_gpsd, pc>>
    /\ UNCHANGED <<options, servers, looping, ret_sntp, fallback, phase, off, skew>>

(* A fix, of the second in progress. *)
Fix ==
    /\ pc = "fix"
    /\ ret_gpsd' = 1
    /\ phase' \in 0 .. Second - 1
    /\ timeref' = -phase'
    /\ timestamp' = skew
    /\ pc' = "answered"
    /\ UNCHANGED <<options, servers, looping, ret_sntp, fallback, to, off, skew>>

(* The end of _once: off_ns is 0 if nobody has answered.  After SNTP the
   program sleeps to the end of timeref's second. *)
Answered ==
    LET read == IF ret_gpsd > 0 THEN timeref + Second ELSE timeref
        slept == IF ret_sntp > 0 THEN Second - ((phase + read) % Second) ELSE 0
    IN  /\ pc = "answered"
        /\ IF ret_gpsd <= 0 /\ ret_sntp <= 0
           THEN off' = 0 /\ UNCHANGED times
           ELSE /\ off' = timestamp - read
                /\ timeref' = read - slept
                /\ timestamp' = timestamp - slept
                /\ phase' = (phase + slept) % Second
        /\ pc' = IF looping THEN "again" ELSE "first"
        /\ UNCHANGED <<options, servers, looping, answers, fallback, to, skew>>

(* main asks the next server until it has an offset other than 0. *)
Ask ==
    /\ pc = "first"
    /\ off = 0
    /\ IF servers > 0 THEN servers' = servers - 1 /\ pc' = "query"
                      ELSE UNCHANGED servers /\ pc' = "exit"
    /\ UNCHANGED <<options, looping, answers, fallback, to, times, off, skew>>

(* clock_settime with timeref, or adjtimex_set_offset. *)
Moved == IF Abs(off) >= MaxOffset THEN timeref ELSE skew - off

Asked == options.set /\ (Abs(off) >= MaxOffset \/ options.force)

(* Then main sets the clock, if asked to. *)
SetClock ==
    /\ pc = "first"
    /\ off # 0
    /\ \/ Asked /\ skew' = Moved
       \/ (~Asked \/ MayFail) /\ UNCHANGED skew
    /\ looping' = options.cont
    /\ pc' = IF options.cont THEN "query" ELSE "exit"
    /\ UNCHANGED <<options, servers, answers, fallback, to, times, off>>

(* The loop of option -c only asks. *)
Again ==
    /\ pc = "again"
    /\ pc' = IF off # 0 THEN "query" ELSE "exit"
    /\ UNCHANGED <<options, servers, looping, answers, fallback, to, times, off, skew>>

Next ==
    \/ Query \/ SntpFails \/ SntpLost \/ SntpAnswers
    \/ GpsdRefuses \/ GpsdAccepts \/ NoFix \/ Fix
    \/ Answered \/ Ask \/ SetClock \/ Again

Spec == Init /\ [][Next]_vars

(* The program runs: only a lost datagram keeps it waiting. *)
FairSpec == Spec /\ WF_vars(Next)
-----------------------------------------------------------------------------
(* Properties. *)

TypeOK ==
    /\ pc \in {"query", "sntp", "gpsd", "fix", "answered", "first", "again",
               "blocked", "exit"}
    /\ options \in [set : BOOLEAN, force : BOOLEAN, cont : BOOLEAN]
    /\ servers \in 0 .. MaxServers - 1
    /\ looping \in BOOLEAN
    /\ ret_gpsd \in {-1, 0, 1} /\ ret_sntp \in {-1, 0, 1}
    /\ fallback \in BOOLEAN
    /\ to \in 0 .. FixTimeout /\ (pc = "fix" => to < FixTimeout)
    /\ timeref \in Int /\ timestamp \in Int
    /\ off \in Int
    /\ skew \in Int
    /\ phase \in 0 .. Second - 1

(* _once adds a second to GPSD's time (timeref.c:298) and sleeps after SNTP's
   (322), under two conditions: whatever the queries, they never both hold,
   although each remembers a former query. *)
OneProtocol == ~(ret_gpsd > 0 /\ ret_sntp > 0)

(* "to set the system time from GPSD thanks to NMEA sentence, or with a SNTP
   request" (README.md:38): however wrong the clock was, and whichever servers
   failed before, once set it is within a second of the true time, and the
   time SNTP's answer took.  Only -f after SNTP moves it by less than that. *)
SetWithinASecond ==
    [][skew' # skew /\ (ret_gpsd > 0 \/ Abs(off) >= MaxOffset)
            => \E d \in Delays : Abs(skew') <= Second + d]_vars

(* A server answers, or is given up, unless a datagram was lost. *)
QueryEnds == pc = "query" ~> pc \in {"first", "again", "blocked"}

(* "Use `timeref -s` to set the system time from GPSD thanks to NMEA sentence,
   or with a SNTP request.  If times difference is less than 500ms, do
   nothing." (README.md:38-39) *)
SntpSets ==
    [][pc = "first" /\ off # 0 /\ ret_sntp > 0 /\ options.set
        /\ Abs(skew) >= MaxOffset + Second => skew' # skew]_vars
=============================================================================
