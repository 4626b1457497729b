------------------------------- MODULE Pacing -------------------------------
(***************************************************************************)
(* nt_gen_rate_ctrl_top.v: the rate control behind its input FIFO, with    *)
(* the stream's slave behind it, the packets of traces before it and the   *)
(* software that switches it on and off (nt_ctrl_top.v).                   *)
(*                                                                         *)
(* A packet is a record of its number of words and the gap it asks for,    *)
(* which only its first word carries.  The FIFO is what its output shows:  *)
(* at any edge the next word may be there, and once there it stays.        *)
(***************************************************************************)
EXTENDS RateCtrl, Sequences

CONSTANTS
  Traces,        (* sequences of packets, for software to choose from      *)
  LetsFinish,    (* TRUE: software switches the module off only when all   *)
                 (* packets of the trace are gone                          *)
  SettleCycles   (* clock cycles between two accesses of software, at      *)
                 (* least: a register access takes longer                  *)

PacketType == [words : Nat \ {0, 1}, gap : 0 .. MaxCycles - 1]

ASSUME PacingAssumption ==
  /\ LetsFinish \in BOOLEAN
  /\ SettleCycles \in Nat /\ SettleCycles > 2
  /\ \A t \in Traces : t \in Seq(PacketType)

VARIABLES
  sw,          (* what software has set: "off", "on" or "reset"            *)
  trace,       (* the packets being sent                                   *)
  sent,        (* packets of it that have left                             *)
  word,        (* words of the next packet that have left                  *)
  shown,       (* the FIFO shows a word that has not been taken            *)
  settled,     (* edges since software has last changed sw                 *)
  since,       (* edges since the last packet began, 0 if none since the   *)
               (* module was switched on                                   *)
  asked,       (* the gap that packet asked for, likewise                  *)
  late,        (* a packet has begun after its time since the reset        *)
  disturbed    (* since the last packet began the slave was not ready, no  *)
               (* word was there, or the packet is longer than its gap     *)

envVars == <<sw, trace, sent, word, shown, settled>>
history == <<since, asked, late, disturbed>>
vars    == <<rcVars, envVars, history>>

Init ==
  /\ RateCtrlInit
  /\ sw = "off"
  /\ trace = <<>>
  /\ sent = 0 /\ word = 0
  /\ shown = FALSE
  /\ settled = 0
  /\ since = 0 /\ asked = 0
  /\ late = FALSE /\ disturbed = FALSE

-----------------------------------------------------------------------------
Finished == sent = Len(trace)
Head1    == trace[sent + 1]
rst      == sw = "reset"
active   == sw = "on"
tlast    == ~Finished /\ word + 1 = Head1.words
tuser    == IF ~Finished /\ word = 0 THEN Head1.gap ELSE 0

Begins(tvalid, tready) == Transfer(tvalid, tready) /\ word = 0

Pass(tvalid, tready) ==
  IF Transfer(tvalid, tready)
  THEN /\ shown' = FALSE
       /\ word' = IF tlast THEN 0 ELSE word + 1
       /\ sent' = IF tlast THEN sent + 1 ELSE sent
  ELSE /\ shown' = tvalid
       /\ UNCHANGED <<word, sent>>

Observe(tvalid, tready) ==
  /\ late' = (rc_state # "RST" /\ (late \/ (Begins(tvalid, tready) /\ asked > 0 /\ since > asked)))
  /\ \/ /\ Begins(tvalid, tready)
        /\ since' = 1
        /\ asked' = Head1.gap
        /\ disturbed' = (Head1.gap < Head1.words)
     \/ /\ ~Begins(tvalid, tready)
        /\ since' = IF since = 0 THEN 0 ELSE UpTo(since + 1)
        /\ UNCHANGED asked
        /\ disturbed' = (disturbed \/ (do_transfer /\ ~(tvalid /\ tready)))

ClockEdge(tvalid, tready) ==
  /\ shown => tvalid
  /\ tvalid => ~Finished
  /\ RateCtrlClock(rst, active, tvalid, tlast, tuser, tready)
  /\ Pass(tvalid, tready)
  /\ Observe(tvalid, tready)
  /\ settled' = IF settled < SettleCycles THEN settled + 1 ELSE settled
  /\ UNCHANGED <<sw, trace>>

-----------------------------------------------------------------------------
(* Software.  It starts the next trace when the last one is gone, before   *)
(* or after it switches the module on.                                     *)
SwWrite(value) == settled = SettleCycles /\ settled' = 0 /\ sw' = value

SwTrace ==
  /\ sw # "reset" /\ settled = SettleCycles
  /\ Finished
  /\ trace' \in Traces
  /\ sent' = 0
  /\ UNCHANGED <<rcVars, sw, word, shown, settled, history>>

SwActivate ==
  /\ sw = "off"
  /\ SwWrite("on")
  /\ disturbed' = FALSE
  /\ UNCHANGED <<rcVars, trace, sent, word, shown, since, asked, late>>

SwDeactivate ==
  /\ sw = "on"
  /\ LetsFinish => Finished
  /\ SwWrite("off")
  /\ since' = 0 /\ asked' = 0
  /\ UNCHANGED <<rcVars, trace, sent, word, shown, late, disturbed>>

(* A reset also empties the FIFO and stops the source of the packets.      *)
SwReset ==
  /\ sw # "reset"
  /\ SwWrite("reset")
  /\ trace' = <<>> /\ sent' = 0 /\ word' = 0 /\ shown' = FALSE
  /\ since' = 0 /\ asked' = 0
  /\ UNCHANGED <<rcVars, late, disturbed>>

(* The enable register keeps its value over a reset; here software clears  *)
(* it first.                                                               *)
SwRelease ==
  /\ sw = "reset"
  /\ SwWrite("off")
  /\ UNCHANGED <<rcVars, trace, sent, word, shown, history>>

Next ==
  \/ \E tvalid, tready \in BOOLEAN : ClockEdge(tvalid, tready)
  \/ SwTrace \/ SwActivate \/ SwDeactivate \/ SwReset \/ SwRelease

Spec == Init /\ [][Next]_vars

(* The clock runs, the FIFO shows the words of a trace, the slave is ready *)
(* again and again, software ends a reset.                                 *)
Fairness ==
  /\ WF_vars(\E tvalid, tready \in BOOLEAN : ClockEdge(tvalid, tready))
  /\ WF_vars(\E tready \in BOOLEAN : ClockEdge(TRUE, tready))
  /\ SF_vars(\E tvalid \in BOOLEAN : ClockEdge(tvalid, TRUE))
  /\ WF_vars(SwRelease)

FairSpec == Spec /\ Fairness

-----------------------------------------------------------------------------
TypeOK ==
  /\ rc_state \in {"RST", "IDLE", "TX_START", "TX", "WAIT"}
  /\ n_cycles \in 0 .. MaxCycles - 1
  /\ cntr \in 0 .. MaxCycles
  /\ warn_timing \in BOOLEAN /\ do_transfer \in BOOLEAN
  /\ sw \in {"off", "on", "reset"}
  /\ trace \in Traces \cup {<<>>}
  /\ sent \in 0 .. Len(trace)
  /\ word \in Nat /\ (~Finished => word < Head1.words)
  /\ shown \in BOOLEAN
  /\ settled \in 0 .. SettleCycles
  /\ since \in 0 .. MaxCycles /\ asked \in 0 .. MaxCycles - 1
  /\ late \in BOOLEAN /\ disturbed \in BOOLEAN

(* A packet that began after its time leaves the warning flag set, until   *)
(* the reset (status_warn_timing_o).                                       *)
LateIsReported == late => warn_timing

(* Switched on, the module either waits for a packet that is due (its      *)
(* counter may have passed the gap only with a cause), sends one, or waits *)
(* for the end of the gap, which is still ahead; the counter is the time   *)
(* since the last packet began.                                            *)
OnInv ==
  \/ /\ settled = 0
     /\ rc_state = "IDLE" /\ ~do_transfer /\ word = 0
     /\ asked = 0 /\ ~disturbed
  \/ /\ settled > 0
     /\ rc_state = "TX_START" /\ do_transfer /\ word = 0
     /\ asked > 0 => n_cycles = asked /\ cntr = since /\ since >= asked
     /\ cntr > n_cycles => disturbed
  \/ /\ settled > 0
     /\ rc_state = "TX" /\ do_transfer /\ word > 0 /\ ~Finished
     /\ n_cycles = asked /\ asked = Head1.gap /\ cntr = since /\ since > 0
     /\ ~disturbed => cntr = word /\ Head1.words <= asked
  \/ /\ settled > 0
     /\ rc_state = "WAIT" /\ ~do_transfer /\ word = 0
     /\ n_cycles = asked /\ cntr = since /\ since > 0 /\ cntr <= Due

(* Switched off, the module is quiet before the next trace can come.       *)
OffInv ==
  /\ rc_state \in {"RST", "IDLE", "TX_START", "WAIT"}
  /\ word = 0 /\ asked = 0 /\ since = 0
  /\ Finished \/ settled = SettleCycles
  /\ rc_state = "RST" => ~do_transfer
  /\ settled > 0 => rc_state \in {"IDLE", "TX_START"}
  /\ settled > 1 => rc_state = "IDLE"
  /\ settled > 2 => ~do_transfer

ResetInv ==
  /\ Finished /\ word = 0 /\ asked = 0 /\ since = 0
  /\ settled > 0 => rc_state = "RST"
  /\ settled > 1 => ~do_transfer

PaceInv ==
  /\ TypeOK
  /\ sw = "on" => OnInv
  /\ sw = "off" => OffInv
  /\ sw = "reset" => ResetInv
  /\ LateIsReported

(* The first word of a packet can pass only when the gap its predecessor   *)
(* asked for is over, counted from that one's first word: whatever stalls  *)
(* and idle cycles came between, the counter never runs ahead and the word *)
(* that begins a packet is never taken for one inside a packet.            *)
NeverEarly ==
  (do_transfer /\ ~Finished /\ word = 0) => since >= asked

(* The flag is raised only with a cause: since the last packet began, the  *)
(* slave was not ready, the FIFO had no word, or the gap was shorter than  *)
(* the packet.  Waiting itself is never too long.                          *)
WarnsWithCause == [][~warn_timing /\ warn_timing' => disturbed]_vars

(* A module that has been switched off lets no packet begin (tready stays  *)
(* low); two cycles later at the latest.                                   *)
InactiveHolds ==
  [][word = 0 /\ word' = 1 => sw = "on" \/ settled < 2]_vars

(* All packets of a trace leave a module that stays switched on.           *)
PaceCompletes == (sw = "on" /\ ~Finished) ~> (sw # "on" \/ Finished)
=============================================================================
