------------------------------ MODULE MCPacing ------------------------------
(* Traces for TLC.                                                         *)
EXTENDS Pacing

P(words, gap) == [words |-> words, gap |-> gap]

(* Gaps of 1 cycle, shorter than the packet, as long as it, one and two    *)
(* cycles longer.                                                          *)
MCTraces == {<<P(3, 5), P(2, 2), P(2, 4)>>,
             <<P(2, 3), P(3, 2), P(2, 1), P(2, 4)>>}
=============================================================================
