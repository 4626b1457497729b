--------------------------- MODULE ReplayMemRead ---------------------------
(***************************************************************************)
(* One clock edge of nt_gen_replay_mem_read.v, the state machine that      *)
(* fetches trace data from a ring buffer in DDR memory in AXI4 bursts and  *)
(* pushes it into the replay FIFO.                                         *)
(*                                                                         *)
(* The unit of every address, size and counter is one 64 byte AXI beat     *)
(* ('h40 in the source).  Addresses are offsets from ctrl_mem_addr.  The   *)
(* module is synchronous: all its registers change together at a clock     *)
(* edge, so a step takes the values of its input wires as parameters and   *)
(* the modules that EXTEND this one conjoin it with the clock step of its  *)
(* surroundings.                                                           *)
(***************************************************************************)
EXTENDS Integers

CONSTANTS
  RingSize,  (* ctrl_mem_size: beats in the ring buffer                    *)
  BurstLen   (* beats of a full burst: 256, i.e. 'h4000 bytes              *)

ASSUME MemReadAssumption ==
  /\ RingSize \in Nat \ {0}
  /\ BurstLen \in Nat \ {0}

(* The content of a beat that is not part of the current trace.            *)
NoData == -1

VARIABLES
  mr_state,      (* state                                                  *)
  addr_rd,       (* ctrl_addr_rd_o, the ring buffer read pointer           *)
  read_cntr,     (* read_byte_cntr, in beats                               *)
  araddr,        (* m_axi_araddr                                           *)
  arlen,         (* m_axi_arlen: beats of the burst, minus one             *)
  arvalid,       (* m_axi_arvalid                                          *)
  fifo_wr_en,    (* fifo_wr_en_o                                           *)
  fifo_din,      (* fifo_din_o                                             *)
  mr_active      (* status_active_o                                        *)

mrVars == <<mr_state, addr_rd, read_cntr, araddr, arlen, arvalid,
            fifo_wr_en, fifo_din, mr_active>>

MemReadInit ==
  /\ mr_state = "IDLE"
  /\ addr_rd = 0
  /\ read_cntr = 0
  /\ araddr = 0
  /\ arlen = 0
  /\ arvalid = FALSE
  /\ fifo_wr_en = FALSE
  /\ fifo_din = NoData
  /\ mr_active = FALSE

MemReadTypeOK ==
  /\ mr_state \in {"IDLE", "WAIT", "REQ", "READ"}
  /\ addr_rd \in 0 .. RingSize - 1
  /\ read_cntr \in Nat
  /\ araddr \in 0 .. RingSize - 1
  /\ arlen \in 0 .. BurstLen - 1
  /\ arvalid \in BOOLEAN
  /\ fifo_wr_en \in BOOLEAN
  /\ fifo_din \in Int
  /\ mr_active \in BOOLEAN

(***************************************************************************)
(* The burst the WAIT state would request, given the write pointer and     *)
(* the trace size: 0 means keep waiting.                                   *)
(***************************************************************************)
ToEnd      == RingSize - addr_rd            (* beats to the end of the ring *)
Left(size) == size - read_cntr              (* beats of the trace to read   *)

(* Faulty variants, here and below: each is one bug this code could have,  *)
(* against which a property is tried.                                      *)
FullBurstUnwritten(wr, size) == ToEnd >= BurstLen /\ Left(size) >= BurstLen

FullBurstOneShort(wr, size) ==
  /\ ToEnd >= BurstLen
  /\ Left(size) >= BurstLen
  /\ wr > addr_rd => wr - addr_rd >= BurstLen - 1

(* A full burst fits before the end of the ring and is all trace; a write  *)
(* pointer that has wrapped below the read pointer means it is all there.  *)
FullBurst(wr, size) ==
  /\ ToEnd >= BurstLen
  /\ Left(size) >= BurstLen
  /\ wr > addr_rd => wr - addr_rd >= BurstLen

BurstToEndStrict(wr, size) ==
  /\ ToEnd < BurstLen
  /\ Left(size) > ToEnd
  /\ wr > addr_rd => wr = RingSize

(* The ring ends before a full burst does, and the trace does not end      *)
(* before the ring.                                                        *)
BurstToEnd(wr, size) ==
  /\ ToEnd < BurstLen
  /\ Left(size) >= ToEnd
  /\ wr > addr_rd => wr = RingSize

(* The rest of the trace is shorter than both, and has been written.       *)
LastBurst(wr, size) ==
  /\ Left(size) < BurstLen
  /\ Left(size) < ToEnd
  /\ wr > addr_rd
  /\ wr - addr_rd = Left(size)

Request(wr, size) ==
  IF FullBurst(wr, size) THEN BurstLen
  ELSE IF BurstToEnd(wr, size) THEN ToEnd
  ELSE IF LastBurst(wr, size) THEN Left(size)
  ELSE 0

(* The ring is empty if the pointers are equal, and nothing is requested   *)
(* while the FIFO may not take a whole burst.                              *)
GrantIntoFull(wr, size, full) == IF addr_rd = wr THEN 0 ELSE Request(wr, size)

Grant(wr, size, full) ==
  IF full \/ addr_rd = wr THEN 0 ELSE Request(wr, size)

(* The next slot of the ring, and the last beat of the trace.              *)
NextSlot(slot) == IF slot = RingSize - 1 THEN 0 ELSE slot + 1

TraceEndsLate(size) == read_cntr = size
TraceEnds(size)     == read_cntr + 1 = size

(***************************************************************************)
(* The next state of the FSM.  beat is the AXI read data channel of this   *)
(* cycle, a record [valid, data, last]; full is fifo_prog_full_i.  rst     *)
(* forces the state, and only the state, to IDLE.                          *)
(***************************************************************************)
MrGoto(rst, nxt_state) == mr_state' = IF rst THEN "IDLE" ELSE nxt_state

MrIdle(rst, start) ==
  /\ mr_state = "IDLE"
  /\ MrGoto(rst, IF start THEN "WAIT" ELSE "IDLE")
  /\ araddr' = 0
  /\ read_cntr' = 0
  /\ addr_rd' = 0
  /\ arvalid' = FALSE
  /\ UNCHANGED arlen

MrWait(rst, wr, size, full) ==
  /\ mr_state = "WAIT"
  /\ LET n == Grant(wr, size, full)
     IN  /\ MrGoto(rst, IF n = 0 THEN "WAIT" ELSE "REQ")
         /\ arlen' = IF n = 0 THEN arlen ELSE n - 1
         /\ arvalid' = (n # 0)
  /\ UNCHANGED <<araddr, read_cntr, addr_rd>>

MrReq(rst, arready) ==
  /\ mr_state = "REQ"
  /\ MrGoto(rst, IF arvalid /\ arready THEN "READ" ELSE "REQ")
  /\ arvalid' = ~(arvalid /\ arready)
  /\ UNCHANGED <<araddr, arlen, read_cntr, addr_rd>>

MrRead(rst, size, beat) ==
  /\ mr_state = "READ"
  /\ IF beat.valid
     THEN /\ read_cntr' = read_cntr + 1
          /\ addr_rd' = NextSlot(addr_rd)
          /\ araddr' = NextSlot(araddr)
          /\ MrGoto(rst, IF ~beat.last THEN "READ"
                         ELSE IF TraceEnds(size) THEN "IDLE" ELSE "WAIT")
     ELSE /\ MrGoto(rst, "READ")
          /\ UNCHANGED <<read_cntr, addr_rd, araddr>>
  /\ arvalid' = FALSE
  /\ UNCHANGED arlen

(* Every beat that arrives is pushed into the FIFO one cycle later,        *)
(* whatever the state; the active flag lags the state by one cycle.        *)
MrOutputs(beat) ==
  /\ fifo_wr_en' = beat.valid
  /\ fifo_din' = beat.data
  /\ mr_active' = (mr_state # "IDLE")

MemReadClock(rst, start, wr, size, full, arready, beat) ==
  /\ MrOutputs(beat)
  /\ \/ MrIdle(rst, start)
     \/ MrWait(rst, wr, size, full)
     \/ MrReq(rst, arready)
     \/ MrRead(rst, size, beat)
=============================================================================
