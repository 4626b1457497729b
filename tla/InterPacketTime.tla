--------------------------- MODULE InterPacketTime ---------------------------
(***************************************************************************)
(* One clock edge of nt_recv_interpackettime.v, which counts the cycles    *)
(* between the first words of packets and puts them into tuser, with the   *)
(* last word, beside what tuser holds already.                             *)
(***************************************************************************)
EXTENDS StampedStream

CONSTANTS GapRange   (* 2^28, the number of values of the counter          *)

ASSUME InterPacketAssumption == GapRange \in Nat \ {0}

VARIABLES
  ip_out,       (* m_axis_tdata, tkeep, tvalid, tlast, tuser               *)
  ip_cntr,      (* cntr_inter_packet_cycles                                *)
  ip_cycles,    (* inter_packet_cycles                                     *)
  ip_active     (* axis_active                                             *)

ipVars == <<ip_out, ip_cntr, ip_cycles, ip_active>>

InterPacketInit ==
  /\ ip_out = NoWord
  /\ ip_cntr = 0 /\ ip_cycles = 0 /\ ip_active = FALSE

CountOn == (ip_cntr + 1) % GapRange

StartsPacket(w) == w.valid /\ ~ip_active

Report(w, cycles) ==
  Taken([w EXCEPT !.tuser = IF w.last THEN [@ EXCEPT !.cycles = cycles] ELSE NoTuser])

InterPacketClock(rst, w, tready) ==
  \/ /\ rst
     /\ ip_out' = NoWord
     /\ ip_cntr' = 0 /\ ip_cycles' = 0 /\ ip_active' = FALSE
  \/ /\ ~rst /\ tready /\ StartsPacket(w)
     /\ ip_out' = Report(w, CountOn)
     /\ ip_cntr' = 0 /\ ip_cycles' = CountOn /\ ip_active' = ~w.last
  \/ /\ ~rst /\ tready /\ ~StartsPacket(w)
     /\ ip_out' = Report(w, ip_cycles)
     /\ ip_cntr' = CountOn /\ ip_active' = (ip_active /\ ~(w.valid /\ w.last))
     /\ UNCHANGED ip_cycles
  \/ /\ ~rst /\ ~tready
     /\ ip_cntr' = CountOn
     /\ UNCHANGED <<ip_out, ip_cycles, ip_active>>
=============================================================================
