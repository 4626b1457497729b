---------------------------- MODULE CaptureRing ----------------------------
(***************************************************************************)
(* The ring buffer path of the capture core: nt_recv_capture_mem_write.v   *)
(* and nt_recv_capture_ctrl.v, the output side of the FIFO between the     *)
(* receiver and the writer, the DDR memory behind the AXI4 write port, the *)
(* registers, and the software that starts and stops a capture and empties *)
(* the ring.                                                               *)
(*                                                                         *)
(* The receiving side, which CaptureReceive models, appears here as a      *)
(* source that fills the FIFO at any pace with the beats of a capture,     *)
(* numbered from 0.  Software is the pair of coroutines packets_write and  *)
(* ring_buff_read of test/nt_recv_capture_top_test.py.                     *)
(***************************************************************************)
EXTENDS CaptureMemWrite, CaptureCtrl, Sequences

CONSTANTS
  Totals,       (* numbers of beats a capture may have                     *)
  TransferMax,  (* RD_TRANSFER_SIZE_MAX of the reader, in beats            *)
  FifoDepth     (* capacity of the FIFO in beats: 1024                     *)

ASSUME CaptureAssumption ==
  /\ Totals \subseteq Nat
  /\ Totals # {}
  /\ TransferMax \in 1 .. RingSize - 1
  /\ FifoDepth \in Nat
  /\ FifoDepth >= BurstLen

VARIABLES
  (* registers of nt_recv_capture_cpuregs.v, and the reset of nt_ctrl_top.v *)
  ctrl_active,  (* ctrl_active                                             *)
  addr_rd,      (* ctrl_addr_rd                                            *)
  rst,          (* rst_sw                                                  *)
  (* the source and the FIFO                                               *)
  total,        (* beats of this capture, its padding included             *)
  fed,          (* beats of it that were pushed into the FIFO              *)
  fifo,         (* the beats in the FIFO                                   *)
  prog_empty,   (* its programmable empty flag, which lags by an edge      *)
  (* the memory and its AXI4 write port                                    *)
  mem,          (* content of the ring buffer                              *)
  aw_ready,     (* awready                                                 *)
  w_ready,      (* wready                                                  *)
  b_valid,      (* bvalid                                                  *)
  w_addr,       (* address of the next beat of the accepted burst          *)
  w_left,       (* beats of it that are not yet transferred                *)
  w_data,       (* transferred beats that are not yet in memory            *)
  w_open,       (* a burst is accepted and not answered                    *)
  (* software                                                              *)
  sw,           (* where it is in its protocol                             *)
  chunk,        (* beats of the transfer in progress                       *)
  got,          (* the beats it has read                                   *)
  (* history                                                               *)
  published     (* beats of this capture that addr_wr has passed           *)

regVars  == <<ctrl_active, addr_rd, rst>>
fifoVars == <<total, fed, fifo, prog_empty>>
axiVars  == <<aw_ready, w_ready, b_valid, w_addr, w_left, w_data, w_open>>
swVars   == <<sw, chunk, got>>
vars == <<mwVars, ctVars, regVars, fifoVars, mem, axiVars, swVars, published>>

Slots       == 0 .. RingSize - 1
NoData      == -1
Least(a, b) == IF a < b THEN a ELSE b

Init ==
  /\ MemWriteInit
  /\ CtrlInit
  /\ ctrl_active = FALSE /\ addr_rd = 0 /\ rst = FALSE
  /\ total \in Totals
  /\ fed = 0 /\ fifo = <<>> /\ prog_empty = TRUE
  /\ mem = [i \in Slots |-> NoData]
  /\ aw_ready = FALSE /\ w_ready = FALSE /\ b_valid = FALSE
  /\ w_addr = 0 /\ w_left = 0 /\ w_data = <<>> /\ w_open = FALSE
  /\ sw = "idle" /\ chunk = 0 /\ got = <<>>
  /\ published = 0

-----------------------------------------------------------------------------
(***************************************************************************)
(* The memory.  It takes one burst at a time and is ready for its beats at *)
(* any later moments; a beat reaches the memory some time after it was     *)
(* transferred, and the response is given when all have.  Addresses count  *)
(* up from the one that was requested: the port knows nothing of the ring. *)
(***************************************************************************)
AxiAcceptAddr ==
  /\ ~w_open /\ ~aw_ready
  /\ aw_ready' = TRUE
  /\ UNCHANGED <<mwVars, ctVars, regVars, fifoVars, mem, w_ready, b_valid,
                 w_addr, w_left, w_data, w_open, swVars, published>>

AxiAcceptData ==
  /\ w_left > 0 /\ ~w_ready
  /\ w_ready' = TRUE
  /\ UNCHANGED <<mwVars, ctVars, regVars, fifoVars, mem, aw_ready, b_valid,
                 w_addr, w_left, w_data, w_open, swVars, published>>

AxiStore ==
  /\ w_data # <<>>
  /\ LET first == w_addr - Len(w_data)
     IN  mem' = [i \in Slots |-> IF i = first THEN Head(w_data) ELSE mem[i]]
  /\ w_data' = Tail(w_data)
  /\ UNCHANGED <<mwVars, ctVars, regVars, fifoVars, aw_ready, w_ready, b_valid,
                 w_addr, w_left, w_open, swVars, published>>

AxiRespond ==
  /\ w_open /\ w_left = 0 /\ w_data = <<>> /\ ~b_valid
  /\ b_valid' = TRUE
  /\ UNCHANGED <<mwVars, ctVars, regVars, fifoVars, mem, aw_ready, w_ready,
                 w_addr, w_left, w_data, w_open, swVars, published>>

(* A beat is transferred: the writer reads the FIFO with it.               *)
Transfer == wvalid /\ w_ready /\ w_left > 0
OutOfFifo == IF fifo = <<>> THEN NoData ELSE Head(fifo)

AxiClock ==
  /\ aw_ready' = (aw_ready /\ ~awvalid)
  /\ w_ready' = (w_ready /\ ~wvalid)
  /\ b_valid' = FALSE
  /\ IF awvalid /\ aw_ready
     THEN w_addr' = awaddr /\ w_left' = awlen + 1
     ELSE IF Transfer THEN w_addr' = w_addr + 1 /\ w_left' = w_left - 1
     ELSE UNCHANGED <<w_addr, w_left>>
  /\ w_data' = IF Transfer THEN Append(w_data, OutOfFifo) ELSE w_data
  /\ w_open' = ((w_open \/ (awvalid /\ aw_ready)) /\ ~b_valid)

(***************************************************************************)
(* The source and the FIFO.  push: a beat is completed.  rx_quiet: the     *)
(* receiver is inactive and its FIFOs are empty; only the padding of the   *)
(* last beat may then be missing.  align_done: nothing is missing.         *)
(***************************************************************************)
SourceMay(push, rx_quiet, align_done) ==
  /\ push => ct_state # "IDLE" /\ fed < total /\ Len(fifo) < FifoDepth
  /\ rx_quiet => fed + 1 >= total
  /\ align_done => fed = total

FifoClock(push) ==
  IF rst
  THEN fifo' = <<>> /\ fed' = 0 /\ prog_empty' = TRUE
  ELSE LET rest == IF wvalid /\ w_ready /\ fifo # <<>> THEN Tail(fifo) ELSE fifo
       IN  /\ fifo' = IF push THEN Append(rest, fed) ELSE rest
           /\ fed' = IF push THEN fed + 1 ELSE fed
           /\ prog_empty' = (Len(fifo) < BurstLen)

(* Software waits for some time after it started the capture (50 cycles in *)
(* the test) before it looks at the write pointer: the writer has left the *)
(* START state by then.                                                    *)
ClockEdge(push, rx_quiet, align_done) ==
  /\ SourceMay(push, rx_quiet, align_done)
  /\ AxiClock
  /\ FifoClock(push)
  /\ MemWriteClock(rst, ct.mem, ct.flush, addr_rd, prog_empty, Len(fifo),
                   aw_ready, w_ready, b_valid)
  /\ CtrlClock(rst, ctrl_active, rx_quiet, align_done, prog_empty, mw_active)
  /\ sw' = IF sw = "started" /\ mw_state = "START" THEN "poll" ELSE sw
  /\ published' = IF mw_state = "WAIT_WRITE_RESP" /\ addr_wr' # addr_wr
                  THEN published + awlen + 1 ELSE published
  /\ UNCHANGED <<regVars, total, mem, chunk, got>>

Clock == \E push, rx_quiet, align_done \in BOOLEAN :
           ClockEdge(push, rx_quiet, align_done)

-----------------------------------------------------------------------------
(***************************************************************************)
(* Software.                                                               *)
(***************************************************************************)

(* Reset the read pointer; the next capture will have total beats.         *)
SwConfigure ==
  /\ sw = "idle"
  /\ addr_rd' = 0
  /\ total' \in Totals
  /\ fed' = 0
  /\ got' = <<>>
  /\ published' = 0
  /\ sw' = "configured"
  /\ UNCHANGED <<mwVars, ctVars, ctrl_active, rst, fifo, prog_empty, mem,
                 axiVars, chunk>>

SwStart ==
  /\ sw = "configured"
  /\ ctrl_active' = TRUE
  /\ sw' = "started"
  /\ UNCHANGED <<mwVars, ctVars, addr_rd, rst, fifoVars, mem, axiVars, chunk,
                 got, published>>

(* Software stops the capture at any time, also before it has read.  Two   *)
(* register writes are more than one clock edge apart.                     *)
SwStop ==
  /\ ctrl_active
  /\ ct_state # "IDLE" \/ rst
  /\ ctrl_active' = FALSE
  /\ UNCHANGED <<mwVars, ctVars, addr_rd, rst, fifoVars, mem, axiVars, swVars,
                 published>>

Outstanding  == total - Len(got)
TransferSize == Least(RingSize - addr_rd, Least(Outstanding, TransferMax))

(* Faulty variant: takes what may not be written yet.                      *)
DoTransferEager == addr_rd # addr_wr

(* Enough is written before the end of the ring, or the writer has wrapped *)
(* around and all of the rest of the ring is.                              *)
DoTransfer ==
  \/ addr_rd < addr_wr /\ addr_wr - addr_rd >= TransferSize
  \/ addr_rd > addr_wr

(* Read the write pointer and decide on a transfer ...                     *)
SwSample ==
  /\ sw = "poll"
  /\ Outstanding > 0
  /\ DoTransfer
  /\ chunk' = TransferSize
  /\ sw' = "read"
  /\ UNCHANGED <<mwVars, ctVars, regVars, fifoVars, mem, axiVars, got,
                 published>>

(* ... read the data, while the core goes on writing ...                   *)
SwRead ==
  /\ sw = "read"
  /\ got' = got \o [i \in 1 .. chunk |-> mem[addr_rd + i - 1]]
  /\ sw' = "release"
  /\ UNCHANGED <<mwVars, ctVars, regVars, fifoVars, mem, axiVars, chunk,
                 published>>

(* ... and give the slots back by writing the read pointer.                *)
SwGiveBack ==
  /\ sw = "release"
  /\ addr_rd' = Advance(addr_rd, chunk)
  /\ sw' = "poll"
  /\ UNCHANGED <<mwVars, ctVars, ctrl_active, rst, fifoVars, mem, axiVars,
                 chunk, got, published>>

(* Everything is read, and the core was stopped and says it is inactive.   *)
(* Software waits after its last transfer (100 cycles in the test), in     *)
(* which the writer comes to rest.                                         *)
SwFinish ==
  /\ sw = "poll"
  /\ Outstanding = 0
  /\ ~ctrl_active
  /\ ~ct.status
  /\ mw_state = "INACTIVE"
  /\ mem' = [i \in Slots |-> NoData]
  /\ sw' = "idle"
  /\ UNCHANGED <<mwVars, ctVars, regVars, fifoVars, axiVars, chunk, got,
                 published>>

(* A reset in the middle of a burst would leave the memory waiting for     *)
(* beats that never come; it is assumed to spare bursts.                   *)
InBurst == mw_state \in {"WRITE_REQ", "WRITE", "WAIT_WRITE_RESP"}

SwReset ==
  /\ ~rst
  /\ ~InBurst
  /\ rst' = TRUE
  /\ sw' = "reset"
  /\ got' = <<>>
  /\ published' = 0
  /\ fed' = 0
  /\ UNCHANGED <<mwVars, ctVars, ctrl_active, addr_rd, total, fifo, prog_empty,
                 mem, axiVars, chunk>>

SwRelease ==
  /\ rst
  /\ ~ctrl_active
  /\ mw_state \in {"RST", "INACTIVE"}
  /\ ct_state = "IDLE" /\ ct = Outputs("IDLE")
  /\ fifo = <<>>
  /\ rst' = FALSE
  /\ mem' = [i \in Slots |-> NoData]
  /\ sw' = "idle"
  /\ UNCHANGED <<mwVars, ctVars, ctrl_active, addr_rd, fifoVars, axiVars,
                 chunk, got, published>>

Software == \/ SwConfigure \/ SwStart \/ SwStop \/ SwSample \/ SwRead
            \/ SwGiveBack \/ SwFinish \/ SwReset \/ SwRelease

Memory == AxiAcceptAddr \/ AxiAcceptData \/ AxiStore \/ AxiRespond

Next == Clock \/ Memory \/ Software

Spec == Init /\ [][Next]_vars

(***************************************************************************)
(* The clock runs; the source completes every beat and then becomes quiet; *)
(* the memory accepts, stores and answers every burst; software empties    *)
(* the ring.  It is never obliged to stop a capture, or to reset the core. *)
(***************************************************************************)
Fairness ==
  /\ WF_vars(Clock)
  /\ WF_vars(\E q, d \in BOOLEAN : ClockEdge(TRUE, q, d))
  /\ WF_vars(\E p, d \in BOOLEAN : ClockEdge(p, TRUE, d))
  /\ WF_vars(\E p, q \in BOOLEAN : ClockEdge(p, q, TRUE))
  /\ WF_vars(AxiAcceptAddr)
  /\ WF_vars(AxiAcceptData)
  /\ WF_vars(AxiStore)
  /\ WF_vars(AxiRespond)
  /\ WF_vars(SwSample \/ SwRead \/ SwGiveBack \/ SwFinish)

FairSpec == Spec /\ Fairness

-----------------------------------------------------------------------------
(* Software reads what was captured, in order, each beat once: no beat is  *)
(* read before it is in memory, or after the core has reused its slot (the *)
(* pointer arithmetic of both sides, and the write pointer waiting for the *)
(* response of the memory).                                                *)
TakenInOrder == \A i \in 1 .. Len(got) : got[i] = i - 1

(* A requested burst lies before the end of the ring, and the FIFO holds   *)
(* every beat of it: the FIFO is never read while it is empty (the lengths *)
(* computed in WAIT_FIFO from two flags that lag).                         *)
BurstIsBacked ==
  mw_state \in {"WRITE_REQ", "WRITE"} =>
    /\ addr_wr + awlen < RingSize
    /\ Len(fifo) >= IF mw_state = "WRITE" THEN awlen - beats_cntr + 1 ELSE awlen + 1

(* Equal pointers mean an empty ring: while captured data is being read,   *)
(* the distance of the pointers is the number of beats software may take.  *)
PointersTellFill ==
  sw \in {"poll", "read", "release"} =>
    LET given == IF sw = "release" THEN Len(got) - chunk ELSE Len(got)
    IN  published - given = IF addr_wr >= addr_rd THEN addr_wr - addr_rd
                                                  ELSE RingSize - addr_rd + addr_wr

(* A capture is running from its start until both machines are at rest.    *)
Busy == ~rst /\ (ctrl_active \/ ct_state # "IDLE" \/ mw_state \notin {"RST", "INACTIVE"})

Stream == INSTANCE CaptureStream WITH
  capturing <- Busy,
  taken     <- got

(* The path implements the abstract stream of captured beats.              *)
StreamSpec == Stream!Spec

(* A stopped capture is read to its end: the shutdown sequence terminates, *)
(* and the writer's wait for space and the reader's wait for data never    *)
(* become a wait for each other.                                           *)
CaptureCompletes == sw = "poll" /\ ~ctrl_active ~> sw \in {"idle", "reset"}
=============================================================================
