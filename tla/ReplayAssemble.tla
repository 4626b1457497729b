--------------------------- MODULE ReplayAssemble ---------------------------
(***************************************************************************)
(* One clock edge of nt_gen_replay_assemble.v, which reads 8 byte trace    *)
(* words from the replay FIFO, takes a word of meta data in front of every *)
(* packet, and sends the packet's words on an AXI4-Stream interface.       *)
(*                                                                         *)
(* A trace word is a record of the three fields the module can read out of *)
(* it when it takes it for meta data: [delta, snap, wire] for bits 31:0,   *)
(* 42:32 and 58:48.                                                        *)
(***************************************************************************)
EXTENDS Integers

CONSTANT
  WordBytes    (* bytes of a trace word and of a stream word: 8            *)

ASSUME AssembleAssumption == WordBytes \in Nat \ {0}

Word(delta, snap, wire) == [delta |-> delta, snap |-> snap, wire |-> wire]
Zero    == Word(0, 0, 0)        (* 64'h0                                   *)
Padding == Word(-1, -1, -1)     (* 64'hFFFFFFFFFFFFFFFF                    *)

VARIABLES
  as_state,       (* state                                                 *)
  meta,           (* meta_delta_t, meta_len_snap and meta_len_wire         *)
  word_cntr,      (* m_axis_word_cntr                                      *)
  m_axis          (* m_axis_tvalid, tdata, tlast, tkeep (as the number of  *)
                  (* bytes it enables) and tuser                           *)

asVars == <<as_state, meta, word_cntr, m_axis>>

NoOutput == [tvalid |-> FALSE, tdata |-> Zero, tlast |-> FALSE,
             tkeep |-> 0, tuser |-> 0]

AssembleInit ==
  /\ as_state = "IDLE"
  /\ meta = Zero
  /\ word_cntr = 0
  /\ m_axis = NoOutput

(* The words sent so far hold all bytes that are in the trace; with the    *)
(* word that is due now they hold all bytes of the packet.                 *)
(* A variant with a bug to try a property against, as those below.         *)
tx_done_snap_early == (word_cntr + 1) * WordBytes >= meta.snap
tx_done_snap == word_cntr * WordBytes >= meta.snap
tx_done_wire == (word_cntr + 1) * WordBytes >= meta.wire

(* A word is sent if it is zero padding or is there in the FIFO.           *)
do_tx(empty) == as_state = "TX" /\ (tx_done_snap \/ ~empty)

fifo_rd_en(tready) ==
  \/ as_state = "META"
  \/ as_state = "TX" /\ ~tx_done_snap /\ tready

as_active == as_state # "IDLE"

AsGoto(rst, nxt_state) == as_state' = IF rst THEN "IDLE" ELSE nxt_state

AsIdleNoStart(rst, start) ==
  /\ as_state = "IDLE"
  /\ AsGoto(rst, IF start THEN "META" ELSE "IDLE")
  /\ UNCHANGED meta

AsIdle(rst, start) ==
  /\ as_state = "IDLE"
  /\ AsGoto(rst, IF start THEN "START" ELSE "IDLE")
  /\ UNCHANGED meta

(* One cycle for the active flag of the memory reader to rise.             *)
AsStart(rst) ==
  /\ as_state = "START"
  /\ AsGoto(rst, "META")
  /\ UNCHANGED meta

AsMetaEmptyEnds(rst, empty, dout, mem_active) ==
  /\ as_state = "META"
  /\ AsGoto(rst, IF empty THEN "IDLE" ELSE IF dout = Padding THEN "META" ELSE "TX")
  /\ meta' = IF empty \/ dout = Padding THEN meta ELSE dout

AsMeta(rst, empty, dout, mem_active) ==
  /\ as_state = "META"
  /\ \/ /\ empty
        /\ AsGoto(rst, IF mem_active THEN "META" ELSE "IDLE")
        /\ UNCHANGED meta
     \/ /\ ~empty
        /\ dout = Padding
        /\ AsGoto(rst, "META")
        /\ UNCHANGED meta
     \/ /\ ~empty
        /\ dout # Padding
        /\ AsGoto(rst, "TX")
        /\ meta' = dout

AsTx(rst, tready) ==
  /\ as_state = "TX"
  /\ AsGoto(rst, IF tx_done_wire /\ tready THEN "META" ELSE "TX")
  /\ UNCHANGED meta

(* The bytes tkeep enables in the word that is due now.                    *)
Keep == IF tx_done_wire /\ meta.wire % WordBytes # 0
        THEN meta.wire % WordBytes ELSE WordBytes

AsOutput(rst, empty, dout, tready) ==
  IF rst THEN m_axis' = NoOutput /\ word_cntr' = 0
  ELSE IF ~tready THEN UNCHANGED <<m_axis, word_cntr>>
  ELSE /\ m_axis' = [tvalid |-> do_tx(empty),
                     tdata  |-> IF tx_done_snap THEN Zero ELSE dout,
                     tlast  |-> do_tx(empty) /\ tx_done_wire,
                     tkeep  |-> Keep,
                     tuser  |-> IF word_cntr = 0 THEN meta.delta ELSE 0]
       /\ word_cntr' = IF ~do_tx(empty) THEN word_cntr
                       ELSE IF tx_done_wire THEN 0 ELSE word_cntr + 1

(* empty and dout are the FIFO's output; mem_active is mr_active.          *)
AssembleClock(rst, start, empty, dout, mem_active, tready) ==
  /\ AsOutput(rst, empty, dout, tready)
  /\ \/ AsIdle(rst, start)
     \/ AsStart(rst)
     \/ AsMeta(rst, empty, dout, mem_active)
     \/ AsTx(rst, tready)
=============================================================================
