---------------------------- MODULE CaptureCtrl ----------------------------
(***************************************************************************)
(* One clock edge of nt_recv_capture_ctrl.v, which starts the receiver and *)
(* the memory writer of the capture core together and stops them one after *)
(* the other, so that what was received reaches the memory.                *)
(***************************************************************************)
VARIABLES
  ct_state,    (* state                                                    *)
  ct           (* the registered outputs: status_active_o, rx_active_o,    *)
               (* mem_write_active_o, mem_write_flush_o,                   *)
               (* mem_write_fifo_align_o                                   *)

ctVars == <<ct_state, ct>>

(* The outputs, decoded from the state, lag it by one clock edge.          *)
Outputs(s) ==
  [status |-> s # "IDLE",
   rx     |-> s = "ACTIVE",
   mem    |-> s \in {"ACTIVE", "RX_DISABLE", "ALIGN", "WAIT_ALIGN",
                     "WAIT_EMPTY"},
   flush  |-> s = "FLUSH",
   align  |-> s = "ALIGN"]

CtrlInit == ct_state = "IDLE" /\ ct = Outputs("IDLE")

(***************************************************************************)
(* The FSM leaves a state when the condition of the state holds: the       *)
(* activation register; the receiver is inactive and its two FIFOs are     *)
(* empty (rx_quiet); the alignment is done; the memory writer's FIFO holds *)
(* less than a burst (prog_empty); the memory writer is inactive.          *)
(***************************************************************************)
(* A faulty variant: no wait for the FIFO.                                 *)
DrainedUnwatched(prog_empty) == TRUE
Drained(prog_empty)          == prog_empty

CtStep(rst, from, leave, to) ==
  /\ ct_state = from
  /\ ct_state' = IF rst THEN "IDLE" ELSE IF leave THEN to ELSE from

CtrlClock(rst, active, rx_quiet, align_done, prog_empty, mw_busy) ==
  /\ ct' = Outputs(ct_state)
  /\ \/ CtStep(rst, "IDLE", active, "ACTIVE")
     \/ CtStep(rst, "ACTIVE", ~active, "RX_DISABLE")
     \/ CtStep(rst, "RX_DISABLE", rx_quiet, "ALIGN")
     \/ CtStep(rst, "ALIGN", TRUE, "WAIT_ALIGN")
     \/ CtStep(rst, "WAIT_ALIGN", align_done, "WAIT_EMPTY")
     \/ CtStep(rst, "WAIT_EMPTY", Drained(prog_empty), "MEM_DISABLE")
     \/ CtStep(rst, "MEM_DISABLE", ~mw_busy, "FLUSH")
     \/ CtStep(rst, "FLUSH", TRUE, "WAIT_FLUSH1")
     \/ CtStep(rst, "WAIT_FLUSH1", TRUE, "WAIT_FLUSH2")
     \/ CtStep(rst, "WAIT_FLUSH2", ~mw_busy, "IDLE")
=============================================================================
