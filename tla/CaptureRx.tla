----------------------------- MODULE CaptureRx -----------------------------
(***************************************************************************)
(* The receiving side of the capture core, module by module.               *)
(*                                                                         *)
(* One clock edge of nt_recv_capture_rx.v, which stores the first bytes of *)
(* every received packet in a data FIFO and a word of meta data about it   *)
(* in a second FIFO.                                                       *)
(*                                                                         *)
(* A stream word of this cycle is a record [tvalid, tdata, tlast, tkeep,   *)
(* tuser]; tkeep is the number of bytes it enables, and tuser, the time    *)
(* stamps of the packet, is the number of the packet.                      *)
(***************************************************************************)
EXTENDS Integers

CONSTANT
  WordBytes      (* bytes of a stream word: 8                              *)

ASSUME RxAssumption == WordBytes \in Nat \ {0}

VARIABLES
  s_axis_active, (* a packet transmission is under way                     *)
  rx_state,      (* state_fsm_data                                         *)
  rx_len,        (* len_capture and len_wire                               *)
  rx_meta,       (* meta_wr, and the meta data to write with it            *)
  rx_data,       (* fifo_data_wr_en_o and fifo_data_din_o                  *)
  pkt_cnt,       (* pkt_cnt_o                                              *)
  meta_state,    (* state_fsm_meta                                         *)
  rx_meta_o,     (* fifo_meta_wr_en_o and fifo_meta_din_o                  *)
  rx_active,     (* active_o                                               *)
  rx_errs        (* err_meta_fifo_full_o and err_data_fifo_full_o          *)

rxVars == <<s_axis_active, rx_state, rx_len, rx_meta, rx_data, pkt_cnt,
            meta_state, rx_meta_o, rx_active, rx_errs>>

NoLength == [capture |-> 0, wire |-> 0]
NoMeta   == [wr |-> FALSE, tuser |-> 0, len |-> NoLength]

(* After the hardware reset; nothing has been written.                     *)
RxInit(nothing) ==
  /\ s_axis_active = FALSE
  /\ rx_state = "IDLE"
  /\ rx_len = NoLength
  /\ rx_meta = NoMeta
  /\ rx_data = [wr |-> FALSE, din |-> nothing]
  /\ pkt_cnt = 0
  /\ meta_state = "ACTIVE"
  /\ rx_meta_o = NoMeta
  /\ rx_active = FALSE
  /\ rx_errs = [meta |-> FALSE, data |-> FALSE]

(* Both lengths after this word; what is captured is cut at max_len.       *)
WordLen(w) == IF w.tlast THEN w.tkeep ELSE WordBytes

Lengths(w, max_len) ==
  [capture |-> IF rx_len.capture + WordLen(w) > max_len
               THEN max_len ELSE rx_len.capture + WordLen(w),
   wire    |-> rx_len.wire + WordLen(w)]

(***************************************************************************)
(* The FSM that writes packet data.                                        *)
(***************************************************************************)
RxGoto(rst, nxt_state) == rx_state' = IF rst THEN "RST" ELSE nxt_state

(* The data input of the FIFO follows the stream.                          *)
RxWrite(store, w) == rx_data' = [wr |-> store, din |-> w.tdata]

RxWriteNothing(w) ==
  /\ RxWrite(FALSE, w)
  /\ rx_meta' = [rx_meta EXCEPT !.wr = FALSE]

RxRst(rst, w) ==
  /\ rx_state = "RST"
  /\ RxGoto(rst, "IDLE")
  /\ pkt_cnt' = 0
  /\ RxWriteNothing(w)
  /\ UNCHANGED rx_len

RxIdle(rst, active, w) ==
  /\ rx_state = "IDLE"
  /\ RxGoto(rst, IF active THEN "START" ELSE "IDLE")
  /\ RxWriteNothing(w)
  /\ UNCHANGED <<rx_len, pkt_cnt>>

RxStartAtOnce(rst, w) ==
  /\ rx_state = "START"
  /\ RxGoto(rst, "RECORD")
  /\ rx_len' = NoLength
  /\ pkt_cnt' = 0
  /\ RxWriteNothing(w)

(* Not in the middle of a packet.                                          *)
RxStart(rst, w) ==
  /\ rx_state = "START"
  /\ RxGoto(rst, IF s_axis_active THEN "START" ELSE "RECORD")
  /\ rx_len' = NoLength
  /\ pkt_cnt' = 0
  /\ RxWriteNothing(w)

(* Deactivated, and not in the middle of a packet.                         *)
RxStopAtOnce(active) == ~active
RxStop(active)       == ~active /\ ~s_axis_active

RxRecordNothing(rst, active, w) ==
  /\ rx_state = "RECORD"
  /\ RxStop(active) \/ ~w.tvalid
  /\ RxGoto(rst, IF RxStop(active) THEN "IDLE" ELSE "RECORD")
  /\ RxWriteNothing(w)
  /\ UNCHANGED <<rx_len, pkt_cnt>>

RxRecordWord(rst, active, max_len, w, data_full) ==
  /\ rx_state = "RECORD"
  /\ ~RxStop(active)
  /\ w.tvalid
  /\ LET store == rx_len.capture < max_len
     IN  /\ RxWrite(store, w)
         /\ RxGoto(rst, IF store /\ data_full THEN "ERR" ELSE "RECORD")
  /\ IF w.tlast
     THEN /\ rx_meta' = [wr |-> TRUE, tuser |-> w.tuser, len |-> Lengths(w, max_len)]
          /\ rx_len' = NoLength
          /\ pkt_cnt' = pkt_cnt + 1
     ELSE /\ rx_meta' = [rx_meta EXCEPT !.wr = FALSE]
          /\ rx_len' = Lengths(w, max_len)
          /\ UNCHANGED pkt_cnt

(* Until the next reset.                                                   *)
RxErr(rst, w) ==
  /\ rx_state = "ERR"
  /\ RxGoto(rst, "ERR")
  /\ RxWriteNothing(w)
  /\ UNCHANGED <<rx_len, pkt_cnt>>

(***************************************************************************)
(* The FSM that writes meta data, one clock edge after the last word.      *)
(***************************************************************************)
RxMeta(rst, meta_full) ==
  LET write == meta_state = "ACTIVE" /\ rx_meta.wr
  IN  /\ meta_state' = IF rst THEN "ACTIVE"
                       ELSE IF write /\ meta_full THEN "ERR" ELSE meta_state
      /\ rx_meta_o' = IF write THEN rx_meta ELSE [rx_meta_o EXCEPT !.wr = FALSE]

RxOutputs(rst) ==
  /\ rx_active' = (~rst /\ rx_state = "RECORD")
  /\ rx_errs' = [meta |-> ~rst /\ meta_state = "ERR",
                 data |-> ~rst /\ rx_state = "ERR"]

RxClock(rst, active, max_len, w, data_full, meta_full) ==
  /\ s_axis_active' = (~rst /\ IF w.tvalid THEN ~w.tlast ELSE s_axis_active)
  /\ \/ RxRst(rst, w)
     \/ RxIdle(rst, active, w)
     \/ RxStart(rst, w)
     \/ RxRecordNothing(rst, active, w)
     \/ RxRecordWord(rst, active, max_len, w, data_full)
     \/ RxErr(rst, w)
  /\ RxMeta(rst, meta_full)
  /\ RxOutputs(rst)

-----------------------------------------------------------------------------
(***************************************************************************)
(* One clock edge of nt_recv_capture_fifo_merge.v, which joins the meta    *)
(* data and the data of each packet to a record, and of                    *)
(* nt_recv_capture_mem_write_fifo_wrapper.v, which writes the records into *)
(* the memory writer's FIFO and fills up the last beat with padding.       *)
(***************************************************************************)
CONSTANT
  WordsPerBeat    (* words of a beat: 8                                    *)

ASSUME MergeAssumption == WordsPerBeat \in Nat \ {0}

VARIABLES
  mg_state,       (* state of fifo_merge                                   *)
  mg_left,        (* data_word_cnt - data_word_cntr                        *)
  wr_state,       (* state of the wrapper                                  *)
  wr_cntr,        (* fifo_wr_word_cntr                                     *)
  align_done      (* align_done_o                                          *)

mgVars == <<mg_state, mg_left, wr_state, wr_cntr, align_done>>

MergeInit ==
  /\ mg_state = "META"
  /\ mg_left = 0
  /\ wr_state = "PASS_THROUGH"
  /\ wr_cntr = 0
  /\ align_done = FALSE

(* Words that hold the captured bytes.                                     *)
WordCountCut(len) == len \div WordBytes
WordCount(len) ==
  IF len % WordBytes = 0 THEN len \div WordBytes ELSE len \div WordBytes + 1

(* What the merge module reads, and writes, in this cycle.                 *)
TakeMeta(full, meta_empty) == mg_state = "META" /\ ~full /\ ~meta_empty
TakeData(full, data_empty) == mg_state = "DATA" /\ ~full /\ ~data_empty

(* len_capture is the capture length in the meta data at the FIFO output.  *)
MergeClock(rst, take_meta, take_data, len_capture) ==
  /\ mg_left' = IF take_meta THEN WordCount(len_capture)
                ELSE IF take_data THEN mg_left - 1 ELSE mg_left
  /\ mg_state' =
       IF rst THEN "META"
       ELSE IF take_meta /\ WordCount(len_capture) > 0 THEN "DATA"
       ELSE IF take_data /\ mg_left = 1 THEN "META"
       ELSE mg_state

(* The wrapper passes words on, or pads.                                   *)
Passes(wr_en) == wr_state = "PASS_THROUGH" /\ wr_en
Pads          == wr_state = "ALIGN" /\ wr_cntr # 0

NextCntr == IF wr_cntr = WordsPerBeat - 1 THEN 0 ELSE wr_cntr + 1

WrapperClock(rst, wr_en, align) ==
  /\ wr_cntr' = IF wr_state = "RST" THEN 0
                ELSE IF Passes(wr_en) \/ Pads THEN NextCntr ELSE wr_cntr
  /\ align_done' = (wr_state = "ALIGN" /\ wr_cntr = 0)
  /\ wr_state' =
       IF rst THEN "RST"
       ELSE IF wr_state = "PASS_THROUGH" /\ align THEN "ALIGN"
       ELSE IF wr_state = "ALIGN" /\ wr_cntr # 0 THEN "ALIGN"
       ELSE "PASS_THROUGH"
=============================================================================
