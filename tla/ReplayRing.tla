----------------------------- MODULE ReplayRing -----------------------------
(***************************************************************************)
(* The ring buffer path of the replay core: nt_gen_replay_mem_read.v, the  *)
(* DDR memory behind its AXI4 port, the FIFO it fills, the control         *)
(* registers, and the software that writes a trace larger than the ring    *)
(* through it.                                                             *)
(*                                                                         *)
(* A beat of the trace is its number, from 0.  The software's steps        *)
(* interleave with the clock edges; its protocol is that of                *)
(* test/nt_gen_replay_top_test.py, since the driver library is not part    *)
(* of the repository.  Software may reset the core at any time and releases*)
(* the reset once the memory port is quiet.                                *)
(***************************************************************************)
EXTENDS ReplayMemRead, Sequences

CONSTANTS
  Sizes,        (* trace sizes software may configure, in beats            *)
  TransferMax,  (* WR_TRANSFER_SIZE_MAX of the writer, in beats            *)
  FifoDepth,    (* capacity of the FIFO in beats: 1024                     *)
  ProgFull      (* its programmable full threshold: 752                    *)

ASSUME RingAssumption ==
  /\ Sizes \subseteq Nat \ {0}
  /\ Sizes # {}
  /\ TransferMax \in 1 .. RingSize - 1
  /\ FifoDepth \in Nat
  /\ ProgFull \in Nat
  /\ FifoDepth > ProgFull + BurstLen

VARIABLES
  (* registers of nt_gen_replay_cpuregs.v, and the reset of nt_ctrl_top.v  *)
  trace_size,   (* ctrl_trace_size, in beats                               *)
  addr_wr,      (* ctrl_addr_wr                                            *)
  start,        (* ctrl_start, high for one clock edge                     *)
  rst,          (* rst_sw                                                  *)
  (* software                                                              *)
  sw,           (* where it is in its protocol                             *)
  sent,         (* beats it has published through addr_wr                  *)
  chunk,        (* beats of the transfer in progress                       *)
  (* DDR memory and its AXI4 read port                                     *)
  mem,          (* content of the ring buffer                              *)
  axi_addr,     (* address of the next beat of the accepted burst          *)
  axi_left,     (* its beats that are not yet fetched                      *)
  axi_buf,      (* a fetched beat that waits for delivery, or NoBeat       *)
  (* the replay FIFO                                                       *)
  stored,       (* the beats pushed into it since the trace was configured *)
  drained,      (* how many of them have been read out of it               *)
  prog_full     (* its programmable full flag                              *)

regVars  == <<trace_size, addr_wr, start, rst>>
swVars   == <<sw, sent, chunk>>
axiVars  == <<axi_addr, axi_left, axi_buf>>
fifoVars == <<stored, drained, prog_full>>
vars == <<mrVars, regVars, swVars, mem, axiVars, fifoVars>>

NoBeat == [valid |-> FALSE, data |-> NoData, last |-> FALSE]
Beats  == [valid : BOOLEAN, data : Int, last : BOOLEAN]
Slots  == 0 .. RingSize - 1
Least(a, b) == IF a < b THEN a ELSE b

Init ==
  /\ MemReadInit
  /\ trace_size \in Sizes
  /\ addr_wr = 0
  /\ start = FALSE
  /\ rst = FALSE
  /\ sw = "idle"
  /\ sent = 0
  /\ chunk = 0
  /\ mem = [i \in Slots |-> NoData]
  /\ axi_addr = 0
  /\ axi_left = 0
  /\ axi_buf = NoBeat
  /\ stored = <<>>
  /\ drained = 0
  /\ prog_full = FALSE

-----------------------------------------------------------------------------
(***************************************************************************)
(* The memory.  It accepts one burst at a time, reads the memory for each  *)
(* beat at some time after it accepted the burst, and delivers the beats   *)
(* in order.  Addresses count up: the port knows nothing of the ring.      *)
(***************************************************************************)
AxiQuiet == axi_left = 0 /\ ~axi_buf.valid

AxiFetch ==
  /\ axi_left > 0
  /\ ~axi_buf.valid
  /\ axi_buf' = [valid |-> TRUE,
                 data  |-> IF axi_addr \in Slots THEN mem[axi_addr] ELSE NoData,
                 last  |-> axi_left = 1]
  /\ axi_addr' = axi_addr + 1
  /\ axi_left' = axi_left - 1
  /\ UNCHANGED <<mrVars, regVars, swVars, mem, fifoVars>>

AxiClock(arready, deliver) ==
  /\ arready => AxiQuiet
  /\ deliver => axi_buf.valid
  /\ IF arvalid /\ arready
     THEN axi_addr' = araddr /\ axi_left' = arlen + 1
     ELSE UNCHANGED <<axi_addr, axi_left>>
  /\ axi_buf' = IF deliver THEN NoBeat ELSE axi_buf

(***************************************************************************)
(* The FIFO.  A push into a full FIFO is lost.  The programmable full flag *)
(* follows the fill level one clock edge late.  The assemble module drains *)
(* it at any pace.                                                         *)
(***************************************************************************)
Level == Len(stored) - drained

FifoClock(drain) ==
  /\ drain => Level > 0
  /\ IF rst
     THEN stored' = <<>> /\ drained' = 0 /\ prog_full' = FALSE
     ELSE /\ stored' = IF fifo_wr_en /\ Level < FifoDepth
                       THEN Append(stored, fifo_din) ELSE stored
          /\ drained' = IF drain THEN drained + 1 ELSE drained
          /\ prog_full' = (Level >= ProgFull)

(* One edge of clk.                                                        *)
ClockEdge(arready, deliver, drain) ==
  /\ AxiClock(arready, deliver)
  /\ FifoClock(drain)
  /\ MemReadClock(rst, start, addr_wr, trace_size, prog_full, arready,
                  IF deliver THEN axi_buf ELSE NoBeat)
  /\ start' = FALSE
  /\ UNCHANGED <<trace_size, addr_wr, rst, swVars, mem>>

Clock == \E arready, deliver, drain \in BOOLEAN :
           ClockEdge(arready, deliver, drain)

-----------------------------------------------------------------------------
(***************************************************************************)
(* Software.                                                               *)
(***************************************************************************)

(* Write the trace size and reset the write pointer.  The previous trace   *)
(* is gone from the FIFO by now.                                           *)
SwConfigure ==
  /\ sw = "idle"
  /\ trace_size' \in Sizes
  /\ addr_wr' = 0
  /\ sw' = "configured"
  /\ sent' = 0
  /\ stored' = <<>>
  /\ drained' = 0
  /\ UNCHANGED <<mrVars, start, rst, chunk, mem, axiVars, prog_full>>

(* Check that the core is inactive and trigger it.                         *)
SwStart ==
  /\ sw = "configured"
  /\ ~mr_active
  /\ start' = TRUE
  /\ sw' = "started"
  /\ UNCHANGED <<mrVars, trace_size, addr_wr, rst, sent, chunk, mem, axiVars,
                 fifoVars>>

(* Check that it has become active.                                        *)
SwSeeActive ==
  /\ sw = "started"
  /\ mr_active
  /\ sw' = "write"
  /\ UNCHANGED <<mrVars, regVars, sent, chunk, mem, axiVars, fifoVars>>

TransferSize == Least(RingSize - addr_wr,
                      Least(trace_size - sent, TransferMax))

DoTransferFillsRing ==
  \/ addr_rd = addr_wr
  \/ addr_rd < addr_wr
  \/ addr_rd > addr_wr /\ addr_rd - addr_wr > TransferSize

DoTransferOverrun ==
  \/ addr_rd = addr_wr
  \/ addr_rd < addr_wr /\ (addr_rd # 0 \/ addr_wr + TransferSize # RingSize)
  \/ addr_rd > addr_wr /\ addr_rd - addr_wr # TransferSize

(* The pointers must never become equal by a transfer, since equal         *)
(* pointers mean an empty ring.                                            *)
DoTransfer ==
  \/ addr_rd = addr_wr
  \/ addr_rd < addr_wr /\ (addr_rd # 0 \/ addr_wr + TransferSize # RingSize)
  \/ addr_rd > addr_wr /\ addr_rd - addr_wr > TransferSize

(* Read the read pointer and decide on a transfer ...                      *)
SwSample ==
  /\ sw = "write"
  /\ sent < trace_size
  /\ DoTransfer
  /\ chunk' = TransferSize
  /\ sw' = "copy"
  /\ UNCHANGED <<mrVars, regVars, sent, mem, axiVars, fifoVars>>

(* ... write the data, while the core goes on reading ...                  *)
SwCopy ==
  /\ sw = "copy"
  /\ mem' = [i \in Slots |-> IF i \in addr_wr .. addr_wr + chunk - 1
                             THEN sent + (i - addr_wr) ELSE mem[i]]
  /\ sw' = "publish"
  /\ UNCHANGED <<mrVars, regVars, sent, chunk, axiVars, fifoVars>>

(* ... and write the write pointer.                                        *)
SwPublish ==
  /\ sw = "publish"
  /\ addr_wr' = IF addr_wr + chunk = RingSize THEN 0 ELSE addr_wr + chunk
  /\ sent' = sent + chunk
  /\ sw' = "write"
  /\ UNCHANGED <<mrVars, trace_size, start, rst, chunk, mem, axiVars, fifoVars>>

(* Everything has come out and the core is inactive: clear the ring.       *)
SwFinish ==
  /\ sw = "write"
  /\ sent = trace_size
  /\ ~mr_active
  /\ Level = 0
  /\ mem' = [i \in Slots |-> NoData]
  /\ sw' = "idle"
  /\ UNCHANGED <<mrVars, regVars, sent, chunk, axiVars, fifoVars>>

SwReset ==
  /\ ~rst
  /\ rst' = TRUE
  /\ sw' = "reset"
  /\ sent' = 0
  /\ UNCHANGED <<mrVars, trace_size, addr_wr, start, chunk, mem, axiVars,
                 fifoVars>>

(* The reset is held until it has reached every module and the memory has  *)
(* answered what it had accepted.                                          *)
SwRelease ==
  /\ rst
  /\ mr_state = "IDLE"
  /\ ~arvalid
  /\ AxiQuiet
  /\ ~fifo_wr_en
  /\ ~start
  /\ stored = <<>>
  /\ rst' = FALSE
  /\ sw' = "idle"
  /\ mem' = [i \in Slots |-> NoData]
  /\ UNCHANGED <<mrVars, trace_size, addr_wr, start, sent, chunk, axiVars,
                 fifoVars>>

Software == \/ SwConfigure \/ SwStart \/ SwSeeActive \/ SwSample \/ SwCopy
            \/ SwPublish \/ SwFinish \/ SwReset \/ SwRelease

Next == Clock \/ AxiFetch \/ Software

Spec == Init /\ [][Next]_vars

(***************************************************************************)
(* The clock runs, the memory accepts and answers every burst, the packet  *)
(* side drains the FIFO, and software follows its protocol to the end.  It *)
(* is never obliged to start a trace or to reset the core.                 *)
(***************************************************************************)
Fairness ==
  /\ WF_vars(Clock)
  /\ WF_vars(\E deliver, drain \in BOOLEAN : ClockEdge(TRUE, deliver, drain))
  /\ WF_vars(\E arready, drain \in BOOLEAN : ClockEdge(arready, TRUE, drain))
  /\ WF_vars(\E arready, deliver \in BOOLEAN : ClockEdge(arready, deliver, TRUE))
  /\ WF_vars(AxiFetch)
  /\ WF_vars(SwSeeActive \/ SwSample \/ SwCopy \/ SwPublish \/ SwFinish)
  /\ WF_vars(SwRelease)

FairSpec == Spec /\ Fairness

-----------------------------------------------------------------------------
TypeOK ==
  /\ MemReadTypeOK
  /\ trace_size \in Sizes
  /\ addr_wr \in Slots
  /\ start \in BOOLEAN
  /\ rst \in BOOLEAN
  /\ sw \in {"idle", "configured", "started", "write", "copy", "publish",
             "reset"}
  /\ sent \in Nat
  /\ chunk \in 0 .. TransferMax
  /\ mem \in [Slots -> Int]
  /\ axi_addr \in Nat
  /\ axi_left \in 0 .. BurstLen
  /\ axi_buf \in Beats
  /\ stored \in Seq(Int)
  /\ drained \in 0 .. Len(stored)
  /\ prog_full \in BOOLEAN

(* The beats in the FIFO are the trace, in order, each once: no beat is    *)
(* fetched before software wrote it, after software reused its slot, twice *)
(* or from another trace (the ring buffer arithmetic of the WAIT and READ  *)
(* states against that of the writer).                                     *)
StoredInTraceOrder == \A i \in 1 .. Len(stored) : stored[i] = i - 1

(* prog_full leaves room for a whole burst: no push meets a full FIFO,     *)
(* although the flag lags and a beat may be in flight when it is sampled.  *)
FifoNeverOverflows == fifo_wr_en => Level < FifoDepth

(* A burst the core asks for lies before the end of the ring and holds     *)
(* published beats only (the lengths computed in the WAIT state).          *)
BurstIsPublished ==
  ~rst /\ mr_state = "REQ" =>
    /\ araddr + arlen < RingSize
    /\ read_cntr + arlen + 1 <= sent

(* Equal pointers mean an empty ring: while a trace is replayed, the       *)
(* distance of the pointers tells the published beats not yet read.        *)
PointersTellFill ==
  ~rst /\ mr_state # "IDLE" =>
    sent - read_cntr = IF addr_wr >= addr_rd THEN addr_wr - addr_rd
                                             ELSE RingSize - addr_rd + addr_wr

(* A transfer never reuses the slot of a beat that has not been read: the  *)
(* read pointer software decided on is old when the data is written.       *)
NoUnreadOverwritten ==
  [][SwCopy => \A i \in Slots :
       (mem[i] >= read_cntr /\ mem[i] < sent) => mem'[i] = mem[i]]_vars

(***************************************************************************)
(* The invariant behind these properties.                                  *)
(***************************************************************************)
(* A beat counts as delivered when it leaves the AXI port, one clock edge  *)
(* before the FIFO stores it.                                              *)
Handed == IF fifo_wr_en THEN Append(stored, fifo_din) ELSE stored

(* Beats on the input of the FIFO, and beats that wait for delivery.       *)
Pushed  == IF fifo_wr_en THEN 1 ELSE 0
Fetched == IF axi_buf.valid THEN 1 ELSE 0

(* Beats the memory still owes to the core.                                *)
Owed == axi_left + Fetched

(* Beats that are written to memory from read_cntr on, and the distance of *)
(* a slot from the read pointer.                                           *)
Written   == IF sw = "publish" THEN sent + chunk ELSE sent
Offset(i) == IF i >= addr_rd THEN i - addr_rd ELSE i - addr_rd + RingSize

PhaseInv ==
  /\ rst <=> sw = "reset"
  /\ rst => sent = 0
  /\ ~mr_active => /\ mr_state \in {"IDLE", "WAIT"}
                   /\ addr_rd = 0 /\ read_cntr = 0 /\ araddr = 0
  /\ ~rst =>
       /\ mr_state = "IDLE" => ~arvalid /\ AxiQuiet
       /\ mr_state = "IDLE" /\ ~mr_active => ~fifo_wr_en
       /\ sw \in {"idle", "configured"} =>
            mr_state = "IDLE" /\ ~start /\ ~fifo_wr_en
       /\ sw \in {"configured", "started"} =>
            sent = 0 /\ addr_wr = 0 /\ stored = <<>> /\ ~fifo_wr_en
       /\ sw = "started" =>
            /\ addr_rd = 0 /\ read_cntr = 0 /\ araddr = 0
            /\ mr_state = IF start THEN "IDLE" ELSE "WAIT"
            /\ start => ~mr_active
       /\ sw \in {"write", "copy", "publish"} =>
            /\ ~start
            /\ mr_state # "IDLE" => mr_active
            /\ mr_state = "IDLE" =>
                 sw = "write" /\ sent = trace_size /\ Len(Handed) = trace_size

RingInv ==
  ~rst /\ mr_state # "IDLE" =>
    /\ araddr = addr_rd
    /\ read_cntr < trace_size
    /\ Written <= trace_size
    /\ sent - read_cntr = IF addr_wr >= addr_rd THEN addr_wr - addr_rd
                                                ELSE RingSize - addr_rd + addr_wr
    /\ sw \in {"copy", "publish"} =>
         /\ chunk > 0
         /\ addr_wr + chunk <= RingSize
         /\ sent + chunk <= trace_size
         /\ sent + chunk - read_cntr < RingSize
    /\ \A i \in Slots :
         Offset(i) < Written - read_cntr => mem[i] = read_cntr + Offset(i)

BurstInv ==
  ~rst =>
    /\ mr_state = "WAIT" => ~arvalid /\ AxiQuiet
    /\ mr_state = "REQ" =>
         /\ arvalid /\ AxiQuiet
         /\ addr_rd + arlen < RingSize
         /\ read_cntr + arlen + 1 <= sent
    /\ mr_state = "READ" =>
         /\ ~arvalid
         /\ Owed > 0
         /\ addr_rd + Owed <= RingSize
         /\ read_cntr + Owed <= sent
         /\ axi_addr = addr_rd + Fetched
         /\ axi_buf.valid => /\ axi_buf.data = read_cntr
                             /\ axi_buf.last = (axi_left = 0)

FifoInv ==
  /\ StoredInTraceOrder
  /\ Level + Pushed <= FifoDepth
  /\ ~prog_full => Level <= ProgFull
  /\ ~rst =>
       /\ fifo_wr_en => fifo_din = Len(stored)
       /\ mr_state # "IDLE" => Len(Handed) = read_cntr
       /\ mr_state = "REQ" => Level + Pushed + arlen + 1 <= FifoDepth
       /\ mr_state = "READ" => Level + Pushed + Owed <= FifoDepth

IInv == TypeOK /\ PhaseInv /\ RingInv /\ BurstInv /\ FifoInv

(* A beat in the ring that is still to be read lies in its own slot: no    *)
(* slot that software may reuse holds one.  The ring is clear when a trace *)
(* starts.                                                                 *)
SlotInv ==
  ~rst =>
    /\ sw \in {"idle", "configured", "started"} => \A i \in Slots : mem[i] = NoData
    /\ mr_state # "IDLE" =>
         \A i \in Slots : mem[i] >= read_cntr => mem[i] = read_cntr + Offset(i)

(* The whole path implements the abstract stream; under reset nothing is   *)
(* published or delivered.                                                 *)
StreamActive    == ~rst /\ (start \/ mr_state # "IDLE")
StreamDelivered == IF rst THEN <<>> ELSE Handed

Stream == INSTANCE TraceStream WITH
  active    <- StreamActive,
  size      <- trace_size,
  published <- sent,
  delivered <- StreamDelivered

StreamSpec == Stream!Spec

(* A started trace is replayed to its end unless it is reset: the WAIT     *)
(* state and the writer never wait for each other.                         *)
TraceCompletes == sw = "started" ~> sw \in {"idle", "reset"}
=============================================================================
