-------------------------- MODULE CaptureMemWrite --------------------------
(***************************************************************************)
(* One clock edge of nt_recv_capture_mem_write.v, the state machine that   *)
(* moves captured data from the capture FIFO into a ring buffer in DDR     *)
(* memory in AXI4 bursts.                                                  *)
(*                                                                         *)
(* As in ReplayMemRead the unit is one 64 byte beat, addresses are offsets *)
(* from mem_addr, and the values of the input wires are parameters of the  *)
(* clock step.                                                             *)
(***************************************************************************)
EXTENDS Integers

CONSTANTS
  RingSize,  (* mem_size: beats in the ring buffer                         *)
  BurstLen   (* beats of a full burst: 256, i.e. 'h4000 bytes              *)

(* "Ring buffer size must be > 16384 byte" and a multiple of it.           *)
ASSUME MemWriteAssumption ==
  /\ BurstLen \in Nat \ {0}
  /\ RingSize \in Nat
  /\ RingSize > BurstLen
  /\ RingSize % BurstLen = 0

VARIABLES
  mw_state,     (* state                                                   *)
  addr_wr,      (* addr_wr_o, the ring buffer write pointer                *)
  awaddr,       (* m_axi_awaddr; counts on while the burst is written      *)
  awlen,        (* m_axi_awlen: beats of the burst, minus one              *)
  awvalid,      (* m_axi_awvalid                                           *)
  wvalid,       (* m_axi_wvalid                                            *)
  beats_cntr,   (* beats of the burst that are written                     *)
  flush,        (* a flush has been triggered                              *)
  mw_active     (* active_o                                                *)

mwVars == <<mw_state, addr_wr, awaddr, awlen, awvalid, wvalid, beats_cntr,
            flush, mw_active>>

(* After the hardware reset.                                               *)
MemWriteInit ==
  /\ mw_state = "INACTIVE"
  /\ addr_wr = 0
  /\ awaddr = 0
  /\ awlen = 0
  /\ awvalid = FALSE
  /\ wvalid = FALSE
  /\ beats_cntr = 0
  /\ flush = FALSE
  /\ mw_active = FALSE

(* Faulty variants, here and below: each is one bug this code could have,  *)
(* against which a property is tried.                                      *)
HasSpaceFillsRing(rd) ==
  \/ rd = addr_wr
  \/ rd < addr_wr
  \/ rd > addr_wr /\ rd - addr_wr > BurstLen

(* There is room for a full burst, and the pointers do not become equal by *)
(* it, since equal pointers mean an empty ring.  The distance to the end   *)
(* of the ring is a multiple of the burst length while capturing.          *)
HasSpace(rd) ==
  \/ rd = addr_wr
  \/ rd < addr_wr /\ (rd # 0 \/ addr_wr + BurstLen # RingSize)
  \/ rd > addr_wr /\ rd - addr_wr > BurstLen

(* The slot after a number of beats.                                       *)
Advance(slot, n) == IF slot + n = RingSize THEN 0 ELSE slot + n

(* The length is an 8 bit register, and 256 beats are a full burst.        *)
FinalLenLong(count) == count % BurstLen
FinalLen(count)     == (count + BurstLen - 1) % BurstLen

(***************************************************************************)
(* The FSM.  rst is rst_sw, which forces the state and nothing else;       *)
(* active and flush_i come from the control FSM; prog_empty and count are  *)
(* the FIFO's outputs; awready, wready and bvalid the memory's.            *)
(***************************************************************************)
MwGoto(rst, nxt_state) == mw_state' = IF rst THEN "RST" ELSE nxt_state

MwRst(rst) ==
  /\ mw_state = "RST"
  /\ MwGoto(rst, "INACTIVE")
  /\ addr_wr' = 0
  /\ awvalid' = FALSE /\ wvalid' = FALSE /\ flush' = FALSE
  /\ UNCHANGED <<awaddr, awlen, beats_cntr>>

MwInactive(rst, active, flush_i) ==
  /\ mw_state = "INACTIVE"
  /\ MwGoto(rst, IF flush_i THEN "WAIT_RING_BUFF"
                 ELSE IF active THEN "START" ELSE "INACTIVE")
  /\ flush' = flush_i
  /\ awvalid' = FALSE /\ wvalid' = FALSE
  /\ UNCHANGED <<addr_wr, awaddr, awlen, beats_cntr>>

MwStart(rst) ==
  /\ mw_state = "START"
  /\ MwGoto(rst, "WAIT_RING_BUFF")
  /\ awaddr' = 0
  /\ addr_wr' = 0
  /\ awvalid' = FALSE /\ wvalid' = FALSE /\ flush' = FALSE
  /\ UNCHANGED <<awlen, beats_cntr>>

MwWaitRing(rst, active, rd) ==
  /\ mw_state = "WAIT_RING_BUFF"
  /\ MwGoto(rst, IF ~active /\ ~flush THEN "INACTIVE"
                 ELSE IF HasSpace(rd) THEN "WAIT_FIFO" ELSE "WAIT_RING_BUFF")
  /\ awvalid' = FALSE /\ wvalid' = FALSE
  /\ UNCHANGED <<addr_wr, awaddr, awlen, beats_cntr, flush>>

(* While active only full bursts are written; a flush writes the rest, if  *)
(* there is one and it is less than a full burst.                          *)
BurstReady(active, prog_empty, count) ==
  IF active THEN ~prog_empty ELSE flush /\ prog_empty /\ count > 0

MwWaitFifo(rst, active, prog_empty, count) ==
  /\ mw_state = "WAIT_FIFO"
  /\ awlen' = IF ~prog_empty THEN BurstLen - 1 ELSE FinalLen(count)
  /\ MwGoto(rst, IF BurstReady(active, prog_empty, count) THEN "WRITE_REQ"
                 ELSE IF active THEN "WAIT_FIFO" ELSE "INACTIVE")
  /\ awvalid' = FALSE /\ wvalid' = FALSE /\ flush' = FALSE
  /\ UNCHANGED <<addr_wr, awaddr, beats_cntr>>

MwWriteReq(rst, awready) ==
  /\ mw_state = "WRITE_REQ"
  /\ MwGoto(rst, IF awvalid /\ awready THEN "WRITE" ELSE "WRITE_REQ")
  /\ beats_cntr' = IF awvalid /\ awready THEN 0 ELSE beats_cntr
  /\ awvalid' = ~(awvalid /\ awready)
  /\ wvalid' = FALSE /\ flush' = FALSE
  /\ UNCHANGED <<addr_wr, awaddr, awlen>>

LastBeat == beats_cntr = awlen

MwWrite(rst, wready) ==
  /\ mw_state = "WRITE"
  /\ IF wvalid /\ wready
     THEN /\ beats_cntr' = (beats_cntr + 1) % BurstLen
          /\ awaddr' = Advance(awaddr, 1)
          /\ MwGoto(rst, IF LastBeat THEN "WAIT_WRITE_RESP" ELSE "WRITE")
          /\ wvalid' = ~LastBeat
     ELSE /\ MwGoto(rst, "WRITE")
          /\ wvalid' = TRUE
          /\ UNCHANGED <<beats_cntr, awaddr>>
  /\ awvalid' = FALSE /\ flush' = FALSE
  /\ UNCHANGED <<addr_wr, awlen>>

MwResponseIgnored(rst, bvalid) ==
  /\ mw_state = "WAIT_WRITE_RESP"
  /\ MwGoto(rst, "WAIT_RING_BUFF")
  /\ addr_wr' = Advance(addr_wr, awlen + 1)
  /\ awvalid' = FALSE /\ wvalid' = FALSE /\ flush' = FALSE
  /\ UNCHANGED <<awaddr, awlen, beats_cntr>>

MwResponse(rst, bvalid) ==
  /\ mw_state = "WAIT_WRITE_RESP"
  /\ MwGoto(rst, IF bvalid THEN "WAIT_RING_BUFF" ELSE "WAIT_WRITE_RESP")
  /\ addr_wr' = IF bvalid THEN Advance(addr_wr, awlen + 1) ELSE addr_wr
  /\ awvalid' = FALSE /\ wvalid' = FALSE /\ flush' = FALSE
  /\ UNCHANGED <<awaddr, awlen, beats_cntr>>

MemWriteClock(rst, active, flush_i, rd, prog_empty, count, awready, wready, bvalid) ==
  /\ mw_active' = (~rst /\ mw_state \notin {"RST", "INACTIVE"})
  /\ \/ MwRst(rst)
     \/ MwInactive(rst, active, flush_i)
     \/ MwStart(rst)
     \/ MwWaitRing(rst, active, rd)
     \/ MwWaitFifo(rst, active, prog_empty, count)
     \/ MwWriteReq(rst, awready)
     \/ MwWrite(rst, wready)
     \/ MwResponse(rst, bvalid)
=============================================================================
