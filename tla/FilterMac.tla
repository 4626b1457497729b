------------------------------ MODULE FilterMac ------------------------------
(***************************************************************************)
(* One clock edge of nt_recv_filter_mac.v, which lets those packets pass   *)
(* whose destination address, in their first word, matches.                *)
(***************************************************************************)
EXTENDS StampedStream

VARIABLES
  flt_out,      (* m_axis_tdata, tkeep, tvalid, tlast, tuser               *)
  flt_state     (* state                                                   *)

fltVars == <<flt_out, flt_state>>

FilterInit == flt_out = NoWord /\ flt_state = "DO_MATCH"

AtEndUnready(w, tready) == w.valid /\ w.last
AtEndNever(w, tready)   == FALSE
AtEnd(w, tready)        == w.valid /\ tready /\ w.last

(* The first word is judged when it shows, ready or not; its end, if it is *)
(* a whole packet, is then not seen.                                       *)
NextState(w, tready) ==
  CASE flt_state = "DO_MATCH" /\ ~w.valid             -> "DO_MATCH"
    [] flt_state = "DO_MATCH" /\ w.valid /\ w.match   -> "MATCH"
    [] flt_state = "DO_MATCH" /\ w.valid /\ ~w.match  -> "NO_MATCH"
    [] flt_state # "DO_MATCH" /\ AtEnd(w, tready)     -> "DO_MATCH"
    [] flt_state # "DO_MATCH" /\ ~AtEnd(w, tready)    -> flt_state

Passes(w) == w.valid /\ (flt_state = "MATCH" \/ (flt_state = "DO_MATCH" /\ w.match))

FilterClock(rst, w, tready) ==
  \/ /\ rst
     /\ flt_out' = NoWord /\ flt_state' = "DO_MATCH"
  \/ /\ ~rst /\ tready
     /\ flt_out' = IF Passes(w) THEN w ELSE NoWord
     /\ flt_state' = NextState(w, tready)
  \/ /\ ~rst /\ ~tready
     /\ flt_state' = NextState(w, tready)
     /\ UNCHANGED flt_out
=============================================================================
