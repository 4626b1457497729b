------------------------------ MODULE RateCtrl ------------------------------
(***************************************************************************)
(* One clock edge of nt_gen_rate_ctrl.v, which lets the words of a stream  *)
(* pass from its slave to its master interface, or holds them, so that     *)
(* each packet begins as many cycles after the one before as that one has  *)
(* asked for in its tuser.                                                 *)
(***************************************************************************)
EXTENDS Integers

CONSTANTS
  CounterRange,   (* 2^64, the number of values of the counter: what       *)
                  (* n_cycles - 1 is when n_cycles is 0 depends on it      *)
  MaxCycles       (* bound of the model on the counter: it stays there     *)

ASSUME RateCtrlAssumption ==
  /\ CounterRange \in Nat /\ MaxCycles \in Nat
  /\ 1 < MaxCycles /\ MaxCycles < CounterRange - 1

VARIABLES
  rc_state,     (* state                                                   *)
  n_cycles,     (* n_cycles_interpacket                                    *)
  cntr,         (* cntr_cycles_interpacket                                 *)
  warn_timing,
  do_transfer

rcVars == <<rc_state, n_cycles, cntr, warn_timing, do_transfer>>

(* After a reset.                                                          *)
RateCtrlInit ==
  /\ rc_state = "RST"
  /\ n_cycles = 0
  /\ cntr = 0
  /\ warn_timing = FALSE
  /\ do_transfer = FALSE

UpTo(n) == IF n < MaxCycles THEN n ELSE MaxCycles

(* The count at which the next packet is one cycle away.  A variant with a *)
(* bug to try a property against, as those below.                          *)
DueEarly == n_cycles - 2
DueLate  == n_cycles
Due == (n_cycles - 1) % CounterRange

(* s_axis_tvalid and s_axis_tready.                                        *)
Transfer(tvalid, tready) == tvalid /\ tready /\ do_transfer

RcGoto(rst, nxt_state) == rc_state' = IF rst THEN "RST" ELSE nxt_state

RcRst(rst) ==
  /\ rc_state = "RST"
  /\ RcGoto(rst, "IDLE")
  /\ warn_timing' = FALSE
  /\ do_transfer' = FALSE
  /\ cntr' = UpTo(cntr + 1)
  /\ UNCHANGED n_cycles

RcIdle(rst, active) ==
  /\ rc_state = "IDLE"
  /\ RcGoto(rst, IF active THEN "TX_START" ELSE "IDLE")
  /\ do_transfer' = active
  /\ n_cycles' = IF active THEN 1 ELSE n_cycles
  /\ cntr' = IF active THEN 1 ELSE UpTo(cntr + 1)
  /\ UNCHANGED warn_timing

TooLateSilent(tvalid) == FALSE
TooLate(tvalid) == tvalid /\ cntr > n_cycles

(* The first word of a packet passes, whether or not the module is active. *)
RcTxStart(rst, active, tvalid, tuser, tready) ==
  /\ rc_state = "TX_START"
  /\ warn_timing' = (warn_timing \/ TooLate(tvalid))
  /\ do_transfer' = TRUE
  /\ \/ /\ Transfer(tvalid, tready)
        /\ RcGoto(rst, "TX")
        /\ n_cycles' = tuser
        /\ cntr' = 1
     \/ /\ ~Transfer(tvalid, tready)
        /\ RcGoto(rst, IF active THEN "TX_START" ELSE "IDLE")
        /\ cntr' = UpTo(cntr + 1)
        /\ UNCHANGED n_cycles

RcTxForgets(rst, tvalid, tlast, tready) ==
  /\ rc_state = "TX"
  /\ RcGoto(rst, IF Transfer(tvalid, tready) /\ tlast THEN "WAIT" ELSE "TX")
  /\ do_transfer' = ~(Transfer(tvalid, tready) /\ tlast)
  /\ cntr' = UpTo(cntr + 1)
  /\ UNCHANGED <<n_cycles, warn_timing>>

(* The end of a packet.  A module that is not active goes to IDLE only to  *)
(* have the next assignment, which is not its else branch, override that.  *)
RcTx(rst, tvalid, tlast, tready) ==
  /\ rc_state = "TX"
  /\ cntr' = UpTo(cntr + 1)
  /\ UNCHANGED <<n_cycles, warn_timing>>
  /\ \/ /\ ~(Transfer(tvalid, tready) /\ tlast)
        /\ RcGoto(rst, "TX")
        /\ do_transfer' = TRUE
     \/ /\ Transfer(tvalid, tready) /\ tlast
        /\ cntr >= Due
        /\ RcGoto(rst, "TX_START")
        /\ do_transfer' = TRUE
     \/ /\ Transfer(tvalid, tready) /\ tlast
        /\ cntr < Due
        /\ RcGoto(rst, "WAIT")
        /\ do_transfer' = FALSE

RcWait(rst, active) ==
  /\ rc_state = "WAIT"
  /\ cntr' = UpTo(cntr + 1)
  /\ UNCHANGED <<n_cycles, warn_timing>>
  /\ \/ /\ cntr = Due
        /\ RcGoto(rst, "TX_START")
        /\ do_transfer' = TRUE
     \/ /\ cntr # Due
        /\ RcGoto(rst, IF active THEN "WAIT" ELSE "IDLE")
        /\ do_transfer' = FALSE

(* tvalid, tlast and tuser come from the slave side, tready from the       *)
(* master side.                                                            *)
RateCtrlClock(rst, active, tvalid, tlast, tuser, tready) ==
  \/ RcRst(rst)
  \/ RcIdle(rst, active)
  \/ RcTxStart(rst, active, tvalid, tuser, tready)
  \/ RcTx(rst, tvalid, tlast, tready)
  \/ RcWait(rst, active)
=============================================================================
