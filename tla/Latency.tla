------------------------------- MODULE Latency -------------------------------
(***************************************************************************)
(* The two cores that measure how long a packet takes.                     *)
(*                                                                         *)
(* One clock edge of nt_gen_timestamp_insert.v, which writes the time into *)
(* the packets that pass.                                                  *)
(***************************************************************************)
EXTENDS StampedStream

VARIABLES
  ins_out,          (* m_axis_tdata, tkeep, tvalid, tlast                  *)
  ins_ethertype,
  ins_word_cntr     (* axis_word_cntr                                      *)

insVars == <<ins_out, ins_ethertype, ins_word_cntr>>

InsertInit == ins_out = NoWord /\ ins_ethertype = "other" /\ ins_word_cntr = 0

(* The word at the input is the one to stamp.                              *)
Stamps(w, cfg) ==
  \/ cfg.mode = "header" /\ ins_word_cntr = 2 /\ ins_ethertype = "v6"
  \/ cfg.mode = "header" /\ ins_word_cntr = 3 /\ ins_ethertype = "v4"
  \/ cfg.mode = "fixed" /\ ins_word_cntr = cfg.word /\ w.keep >= cfg.byte + cfg.width

InsertClock(rst, w, tready, cfg, time) ==
  \/ /\ rst
     /\ ins_out' = NoWord /\ ins_ethertype' = "other" /\ ins_word_cntr' = 0
  \/ /\ ~rst /\ tready
     /\ ins_out' = Taken(IF Stamps(w, cfg) THEN [w EXCEPT !.stamp = time % StampRange(cfg)]
                                           ELSE w)
     /\ ins_ethertype' = IF cfg.mode = "header" /\ ins_word_cntr = 1
                           THEN w.type ELSE ins_ethertype
     /\ ins_word_cntr' = IF ~w.valid THEN ins_word_cntr
                         ELSE IF w.last THEN 0 ELSE After(ins_word_cntr, WordRange)
  \/ ~rst /\ ~tready /\ UNCHANGED insVars

-----------------------------------------------------------------------------
(***************************************************************************)
(* One clock edge of nt_recv_latency.v, which takes the stamp out of the   *)
(* packets that pass and puts the time they took into tuser, with the last *)
(* word.                                                                   *)
(***************************************************************************)
VARIABLES
  lat_out,          (* m_axis_tdata, tkeep, tvalid, tlast, tuser           *)
  lat_ethertype,
  lat_word_cntr,    (* axis_word_cntr                                      *)
  lat_latency       (* latency_valid, latency                              *)

latVars == <<lat_out, lat_ethertype, lat_word_cntr, lat_latency>>

LatencyInit ==
  /\ lat_out = NoWord
  /\ lat_ethertype = "other" /\ lat_word_cntr = 0
  /\ lat_latency = NoLatency

(* Both are below range; the time may have begun anew since the stamp.     *)
DifferenceOneShort(time, stamp, range) ==
  IF time >= stamp THEN time - stamp ELSE (range - 1) - stamp + time
Difference(time, stamp, range) ==
  IF time >= stamp THEN time - stamp ELSE (range - 1) - stamp + time + 1

Measured(w, cfg, time) ==
  [valid |-> TRUE,
   value |-> Difference(time % StampRange(cfg), w.stamp, StampRange(cfg))]

HoldsStamp(w, cfg) ==
  \/ cfg.mode = "header" /\ lat_word_cntr = 2 /\ lat_ethertype = "v6"
  \/ cfg.mode = "header" /\ lat_word_cntr = 3 /\ lat_ethertype = "v4"
  \/ cfg.mode = "fixed" /\ lat_word_cntr = cfg.word /\ w.keep >= cfg.byte + cfg.width

(* At this word the module forgets the latency it knows.                   *)
Forgets(cfg) ==
  \/ cfg.mode = "disabled"
  \/ cfg.mode = "header" /\ lat_word_cntr = 1
  \/ cfg.mode = "fixed" /\ lat_word_cntr = cfg.word

(* The latency of the packet as far as it is known with this word.         *)
Known(w, cfg, time) ==
  IF HoldsStamp(w, cfg) THEN Measured(w, cfg, time)
  ELSE IF Forgets(cfg) THEN NoLatency
  ELSE lat_latency

(* Only the last word carries the latency, which is then forgotten.        *)
Reported(w, cfg, time)  == IF w.last THEN Known(w, cfg, time) ELSE NoLatency
AfterWord(w, cfg, time) == IF w.last THEN NoLatency ELSE Known(w, cfg, time)

LatencyClock(rst, w, tready, cfg, time) ==
  \/ /\ rst
     /\ lat_out' = NoWord
     /\ lat_ethertype' = "other" /\ lat_word_cntr' = 0
     /\ lat_latency' = NoLatency
  \/ /\ ~rst /\ tready
     /\ lat_out' = Taken([w EXCEPT !.tuser.latency = Reported(w, cfg, time)])
     /\ lat_latency' = AfterWord(w, cfg, time)
     /\ lat_ethertype' = IF cfg.mode = "header" /\ lat_word_cntr = 1
                           THEN w.type ELSE lat_ethertype
     /\ lat_word_cntr' = IF ~w.valid THEN lat_word_cntr
                         ELSE IF w.last THEN 0 ELSE After(lat_word_cntr, WordRange)
  \/ ~rst /\ ~tready /\ UNCHANGED latVars
=============================================================================
