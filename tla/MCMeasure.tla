------------------------------ MODULE MCMeasure ------------------------------
(* Packets, settings and idle lines for TLC.                               *)
EXTENDS Measure

P(words, lastkeep, type, match) ==
  [words |-> words, lastkeep |-> lastkeep, type |-> type, match |-> match]

(* The last word of a packet is or follows the one with the stamp, or is   *)
(* too short for it; a packet without a stamp follows one with a stamp,    *)
(* and one that is dropped is between two that pass.                       *)
MCTraces == {<<P(4, 8, "v4", TRUE), P(2, 3, "other", FALSE), P(3, 4, "v6", TRUE)>>}

MCSettings == {[mode |-> "header", word |-> 0, byte |-> 0, width |-> 2],
               [mode |-> "fixed", word |-> 2, byte |-> 2, width |-> 3]}

(* Lines that look like the header of an IPv4 packet.                      *)
MCIdle == {[NoWord EXCEPT !.keep = 8, !.type = "v4", !.match = TRUE]}
=============================================================================
