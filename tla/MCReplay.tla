------------------------------ MODULE MCReplay ------------------------------
(* Traces for TLC, with words of 2 bytes and beats of 2 words.             *)
EXTENDS Replay, TLC

Pkt(id, delta, snap, wire) ==
  [id |-> id, delta |-> delta, snap |-> snap, wire |-> wire]

(* One beat: a packet of one partial word.  Two beats: a packet cut to two *)
(* words of three, and padding.  Four beats: a packet of two words, one of *)
(* which nothing was captured, one of two words cut from three, padding.   *)
MCTraceOf ==
  1 :> <<Pkt(1, 1, 1, 1)>>
    @@ 2 :> <<Pkt(1, 0, 3, 5)>>
    @@ 4 :> <<Pkt(1, 1, 3, 3), Pkt(2, 0, 0, 2), Pkt(3, 1, 4, 5)>>
MCSizes == DOMAIN MCTraceOf
=============================================================================
