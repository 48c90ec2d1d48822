-------------------------- MODULE MCAdjtimexHelper --------------------------
(* AdjtimexHelper on a small instance: the daemon and jfadjtimex, ticks of   *)
(* 3 to 5, a frequency of at most 7 units with 5 units to the ppm, and 3 ppb *)
(* to the ppm.                                                               *)
EXTENDS AdjtimexHelper, TLC

Options == [adj |-> FALSE, set |-> FALSE, ppb |-> 0, nso |-> 0, nsS |-> 0,
            tick_us |-> 0, limits |-> FALSE, cont |-> FALSE]

(* jfadjtimex may be run by an ordinary user, whom the kernel refuses. *)
MCRoots == {{"ppsd"}, Masters}

MCJobs ==
    "ppsd" :>
       {<<adj_tick(-1), Offset("set_offset", -9)>>,
        <<adj_tick_freq(1, -4), Plain("status"), Plain("snapshot")>>}
    @@ "jfadjtimex" :>
       {(* -f 0 -t 4, as README.md:103 has it *)
        Program([Options EXCEPT !.set = TRUE, !.tick_us = BootTick]),
        Program([Options EXCEPT !.limits = TRUE]),
        (* -d 1 -o 3 -S 5 -C, with a second of 4 ns *)
        Program([Options EXCEPT !.adj = TRUE, !.ppb = 1, !.nso = 3, !.nsS = 5,
                                !.cont = TRUE])}
=============================================================================
