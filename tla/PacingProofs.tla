---------------------------- MODULE PacingProofs ----------------------------
(***************************************************************************)
(* Proofs about Pacing: the gaps are kept and broken gaps are reported, for *)
(* every trace and every length of its packets and gaps, if software       *)
(* switches the module off only between traces.                            *)
(***************************************************************************)
EXTENDS Pacing, SequenceTheorems, TLAPS

LEMMA Sizes ==
  /\ SettleCycles \in Nat /\ SettleCycles > 2
  /\ MaxCycles \in Nat /\ MaxCycles > 1
BY RateCtrlAssumption, PacingAssumption

(* What TypeOK says of the trace and of the packet that is next.           *)
LEMMA TraceType ==
  ASSUME TypeOK
  PROVE  /\ trace \in Seq(PacketType)
         /\ Len(trace) \in Nat /\ sent \in Nat /\ sent <= Len(trace)
<1>1. CASE trace \in Traces
  BY <1>1, PacingAssumption DEF TypeOK
<1>2. CASE trace = <<>>
  BY <1>2 DEF TypeOK
<1> QED
  BY <1>1, <1>2 DEF TypeOK

LEMMA HeadType ==
  ASSUME TypeOK, ~Finished
  PROVE  /\ Head1.words \in Nat /\ Head1.words > 1
         /\ Head1.gap \in 0 .. MaxCycles - 1
         /\ sent < Len(trace)
<1>1. sent + 1 \in 1 .. Len(trace) /\ sent < Len(trace)
  BY TraceType DEF Finished
<1>2. trace[sent + 1] \in PacketType
  BY <1>1, TraceType, ElementOfSeq
<1> QED
  BY <1>1, <1>2 DEF Head1, PacketType

(* The threshold is one less than the gap, and out of reach for a gap of 0. *)
LEMMA DueValue ==
  ASSUME n_cycles \in 0 .. MaxCycles - 1
  PROVE  /\ Due \in Nat
         /\ n_cycles > 0 => Due = n_cycles - 1
         /\ n_cycles = 0 => Due > MaxCycles
<1>1. CASE n_cycles = 0
  <2>1. (-1) % CounterRange = CounterRange - 1
    BY RateCtrlAssumption
  <2> QED
    BY <1>1, <2>1, RateCtrlAssumption DEF Due
<1>2. CASE n_cycles > 0
  BY <1>2, RateCtrlAssumption DEF Due
<1> QED
  BY <1>1, <1>2

LEMMA InitInv == Init => PaceInv
<1> SUFFICES ASSUME Init PROVE PaceInv
  OBVIOUS
<1> USE DEF Init, RateCtrlInit
<1>1. Finished /\ Len(trace) = 0
  BY DEF Finished
<1>2. TypeOK
  <2>1. /\ warn_timing \in BOOLEAN /\ do_transfer \in BOOLEAN /\ shown \in BOOLEAN
        /\ late \in BOOLEAN /\ disturbed \in BOOLEAN
    BY Zenon
  <2> QED
    BY <1>1, <2>1, Sizes DEF TypeOK
<1> QED
  BY <1>1, <1>2 DEF PaceInv, OffInv, LateIsReported

-----------------------------------------------------------------------------
(* The software steps.                                                     *)
LEMMA TraceStep == ASSUME PaceInv, SwTrace PROVE PaceInv'
<1> USE DEF SwTrace, rcVars, history
<1>1. word' = 0 /\ word' = word
  BY DEF PaceInv, TypeOK, OnInv, OffInv
<1>2. trace' \in Seq(PacketType)
  BY PacingAssumption
<1>3. Finished' \/ word' < Head1'.words
  <2> SUFFICES ASSUME ~Finished' PROVE word' < Head1'.words
    OBVIOUS
  <2>1. sent' + 1 \in 1 .. Len(trace')
    BY <1>2 DEF Finished
  <2>2. trace'[sent' + 1] \in PacketType
    BY <1>2, <2>1, ElementOfSeq
  <2> QED
    BY <1>1, <2>2 DEF Head1, PacketType
<1>4. TypeOK'
  BY <1>1, <1>2, <1>3 DEF PaceInv, TypeOK
<1>5. OnInv => OnInv'
  BY DEF OnInv, Due
<1>6. OffInv => OffInv'
  BY DEF OffInv
<1> QED
  BY <1>4, <1>5, <1>6 DEF PaceInv, LateIsReported

LEMMA ActivateStep == ASSUME PaceInv, SwActivate PROVE PaceInv'
<1> USE DEF SwActivate, SwWrite, rcVars
<1>1. TypeOK'
  <2>1. disturbed' \in BOOLEAN
    BY Zenon
  <2> QED
    BY <2>1, Sizes DEF PaceInv, TypeOK, Finished, Head1
<1>2. OnInv'
  BY Sizes DEF PaceInv, OffInv, OnInv
<1> QED
  BY <1>1, <1>2 DEF PaceInv, LateIsReported

LEMMA DeactivateStep ==
  ASSUME LetsFinish, PaceInv, SwDeactivate PROVE PaceInv'
<1> USE DEF SwDeactivate, SwWrite, rcVars
<1>1. TypeOK'
  BY Sizes DEF PaceInv, TypeOK, Finished, Head1
<1>2. Finished' /\ Finished
  BY DEF Finished
<1>3. OffInv'
  BY <1>2 DEF PaceInv, OffInv, OnInv
<1> QED
  BY <1>1, <1>3 DEF PaceInv, LateIsReported

LEMMA ResetStep == ASSUME PaceInv, SwReset PROVE PaceInv'
<1> USE DEF SwReset, SwWrite, rcVars
<1>1. Finished' /\ Len(trace') = 0
  BY DEF Finished
<1>2. TypeOK'
  <2>1. shown' \in BOOLEAN
    BY Zenon
  <2> QED
    BY <1>1, <2>1, Sizes DEF PaceInv, TypeOK
<1> QED
  BY <1>1, <1>2 DEF PaceInv, ResetInv, LateIsReported

LEMMA ReleaseStep == ASSUME PaceInv, SwRelease PROVE PaceInv'
<1> USE DEF SwRelease, SwWrite, rcVars, history
<1>1. TypeOK'
  BY Sizes DEF PaceInv, TypeOK, Finished, Head1
<1>2. OffInv'
  BY Sizes DEF PaceInv, ResetInv, OffInv, Finished
<1> QED
  BY <1>1, <1>2 DEF PaceInv, LateIsReported

-----------------------------------------------------------------------------
(* The clock edge.  First what happens to the stream and to the types of   *)
(* the registers.                                                          *)
LEMMA PassStep ==
  ASSUME TypeOK, NEW tvalid \in BOOLEAN, NEW tready \in BOOLEAN,
         ClockEdge(tvalid, tready)
  PROVE  /\ sent' \in 0 .. Len(trace') /\ word' \in Nat
         /\ ~Finished' => word' < Head1'.words
         /\ shown' \in BOOLEAN
         /\ trace' = trace
         /\ Transfer(tvalid, tready) => ~Finished /\ do_transfer
         /\ ~Transfer(tvalid, tready) => word' = word /\ sent' = sent
<1> USE DEF ClockEdge
<1>1. trace' = trace
  OBVIOUS
<1>2. Transfer(tvalid, tready) => ~Finished /\ do_transfer
  BY DEF Transfer
<1>3. CASE ~Transfer(tvalid, tready)
  <2>1. word' = word /\ sent' = sent /\ shown' = tvalid
    BY <1>3 DEF Pass
  <2> QED
    BY <1>1, <1>2, <1>3, <2>1 DEF TypeOK, Finished, Head1
<1>4. CASE Transfer(tvalid, tready) /\ tlast
  <2>1. word' = 0 /\ sent' = sent + 1 /\ shown' = FALSE
    BY <1>4 DEF Pass
  <2>2. sent < Len(trace) /\ sent \in Nat /\ Len(trace) \in Nat
    BY <1>2, <1>4, HeadType, TraceType
  <2>3. ~Finished' => Head1'.words > 1 /\ Head1'.words \in Nat
    <3> SUFFICES ASSUME ~Finished' PROVE Head1'.words > 1 /\ Head1'.words \in Nat
      OBVIOUS
    <3>1. sent' + 1 \in 1 .. Len(trace)
      BY <1>1, <2>1, <2>2, TraceType DEF Finished
    <3>2. trace[sent' + 1] \in PacketType
      BY <3>1, TraceType, ElementOfSeq
    <3> QED
      BY <1>1, <3>2 DEF Head1, PacketType
  <2>4. shown' \in BOOLEAN
    BY <2>1, Zenon
  <2> QED
    BY <1>1, <1>2, <1>4, <2>1, <2>2, <2>3, <2>4
<1>5. CASE Transfer(tvalid, tready) /\ ~tlast
  <2>1. word' = word + 1 /\ sent' = sent /\ shown' = FALSE
    BY <1>5 DEF Pass
  <2>2. word + 1 < Head1.words /\ Head1' = Head1
    <3>1. ~Finished /\ Head1.words \in Nat /\ word < Head1.words /\ word \in Nat
      BY <1>2, <1>5, HeadType DEF TypeOK
    <3>2. word + 1 # Head1.words
      BY <3>1, <1>5 DEF tlast
    <3> QED
      BY <3>1, <3>2, <1>1, <2>1 DEF Head1
  <2>3. shown' \in BOOLEAN
    BY <2>1, Zenon
  <2> QED
    BY <1>1, <1>2, <1>5, <2>1, <2>2, <2>3 DEF TypeOK
<1> QED
  BY <1>3, <1>4, <1>5

LEMMA RegisterTypes ==
  ASSUME TypeOK, NEW tvalid \in BOOLEAN, NEW tready \in BOOLEAN,
         ClockEdge(tvalid, tready)
  PROVE  /\ rc_state' \in {"RST", "IDLE", "TX_START", "TX", "WAIT"}
         /\ n_cycles' \in 0 .. MaxCycles - 1
         /\ cntr' \in 0 .. MaxCycles
         /\ warn_timing' \in BOOLEAN /\ do_transfer' \in BOOLEAN
         /\ settled' \in 0 .. SettleCycles /\ sw' = sw
         /\ since' \in 0 .. MaxCycles /\ asked' \in 0 .. MaxCycles - 1
         /\ late' \in BOOLEAN /\ disturbed' \in BOOLEAN
<1> USE DEF ClockEdge
<1>1. tuser \in 0 .. MaxCycles - 1
  BY HeadType, Sizes DEF tuser
<1>2. \A k \in Nat : UpTo(k) \in 0 .. MaxCycles
  BY Sizes DEF UpTo
<1>3. 1 \in 0 .. MaxCycles /\ 1 \in 0 .. MaxCycles - 1 /\ cntr + 1 \in Nat /\ since + 1 \in Nat
  BY Sizes DEF TypeOK
<1>4. RateCtrlClock(rst, active, tvalid, tlast, tuser, tready)
  OBVIOUS
<1>5. /\ rc_state' \in {"RST", "IDLE", "TX_START", "TX", "WAIT"}
      /\ n_cycles' \in 0 .. MaxCycles - 1
      /\ cntr' \in 0 .. MaxCycles
  BY <1>1, <1>2, <1>3, <1>4
     DEF TypeOK, RateCtrlClock, RcRst, RcIdle, RcTxStart, RcTx, RcWait, RcGoto
<1>6. warn_timing' \in BOOLEAN
  BY <1>4, Zenon
     DEF TypeOK, RateCtrlClock, RcRst, RcIdle, RcTxStart, RcTx, RcWait
<1>7. do_transfer' \in BOOLEAN
  BY <1>4, Zenon DEF RateCtrlClock, RcRst, RcIdle, RcTxStart, RcTx, RcWait, active
<1>8. settled' \in 0 .. SettleCycles /\ sw' = sw
  BY Sizes DEF TypeOK
<1>9. Observe(tvalid, tready)
  OBVIOUS
<1>10. late' \in BOOLEAN
  BY <1>9, Zenon DEF Observe
<1>11. disturbed' \in BOOLEAN
  <2>1. CASE Begins(tvalid, tready) /\ Head1.gap < Head1.words
    BY <1>9, <2>1 DEF Observe
  <2>2. CASE Begins(tvalid, tready) /\ ~(Head1.gap < Head1.words)
    BY <1>9, <2>2 DEF Observe
  <2>3. CASE ~Begins(tvalid, tready)
    BY <1>9, <2>3, Zenon DEF Observe
  <2> QED
    BY <2>1, <2>2, <2>3
<1>12. Begins(tvalid, tready) => Head1.gap \in 0 .. MaxCycles - 1
  BY HeadType, PassStep DEF Begins
<1>13. since' \in 0 .. MaxCycles /\ asked' \in 0 .. MaxCycles - 1
  BY <1>2, <1>3, <1>9, <1>12 DEF Observe, TypeOK
<1> QED
  BY <1>5, <1>6, <1>7, <1>8, <1>10, <1>11, <1>13

LEMMA ClockTypes ==
  ASSUME TypeOK, NEW tvalid \in BOOLEAN, NEW tready \in BOOLEAN,
         ClockEdge(tvalid, tready)
  PROVE  TypeOK'
BY PassStep, RegisterTypes DEF TypeOK

-----------------------------------------------------------------------------
(* Nothing passes while the module is switched off or reset.               *)
LEMMA ClockReset ==
  ASSUME PaceInv, sw = "reset", NEW tvalid \in BOOLEAN, NEW tready \in BOOLEAN,
         ClockEdge(tvalid, tready)
  PROVE  ResetInv' /\ LateIsReported'
<1>1. ~Transfer(tvalid, tready)
  BY PassStep DEF PaceInv, ResetInv
<1>2. Finished' /\ word' = 0
  BY <1>1, PassStep DEF PaceInv, ResetInv, Finished
<1>3. asked' = 0 /\ since' = 0 /\ (late' => late /\ rc_state # "RST")
  BY <1>1 DEF PaceInv, ResetInv, ClockEdge, Observe, Begins
<1>4. RateCtrlClock(TRUE, FALSE, tvalid, tlast, tuser, tready)
  BY DEF ClockEdge, rst, active
<1>5. rc_state' = "RST"
  BY <1>4 DEF RateCtrlClock, RcRst, RcIdle, RcTxStart, RcTx, RcWait, RcGoto
<1>6. settled' > 1 => ~do_transfer'
  <2>1. settled' > 1 => settled > 0
    BY DEF ClockEdge, PaceInv, TypeOK
  <2>2. rc_state = "RST" => ~do_transfer'
    BY <1>4 DEF RateCtrlClock, RcRst, RcIdle, RcTxStart, RcTx, RcWait
  <2> QED
    BY <2>1, <2>2 DEF PaceInv, ResetInv
<1>7. rc_state # "RST" /\ warn_timing => warn_timing'
  BY <1>4 DEF RateCtrlClock, RcRst, RcIdle, RcTxStart, RcTx, RcWait
<1> QED
  BY <1>2, <1>3, <1>5, <1>6, <1>7 DEF PaceInv, ResetInv, LateIsReported

LEMMA ClockOff ==
  ASSUME PaceInv, sw = "off", NEW tvalid \in BOOLEAN, NEW tready \in BOOLEAN,
         ClockEdge(tvalid, tready)
  PROVE  OffInv' /\ LateIsReported'
<1>1. ~Transfer(tvalid, tready)
  BY PassStep, Sizes DEF PaceInv, OffInv
<1>2. word' = 0 /\ sent' = sent /\ trace' = trace
  BY <1>1, PassStep DEF PaceInv, OffInv
<1>3. asked' = 0 /\ since' = 0 /\ (late' => late /\ rc_state # "RST")
  BY <1>1 DEF PaceInv, OffInv, ClockEdge, Observe, Begins
<1>4. RateCtrlClock(FALSE, FALSE, tvalid, tlast, tuser, tready)
  BY DEF ClockEdge, rst, active
<1>5. rc_state # "RST" /\ warn_timing => warn_timing'
  BY <1>4 DEF RateCtrlClock, RcRst, RcIdle, RcTxStart, RcTx, RcWait
<1>6. /\ rc_state \in {"RST", "IDLE"} => rc_state' = "IDLE" /\ ~do_transfer'
      /\ rc_state = "TX_START" => rc_state' = "IDLE"
      /\ rc_state = "WAIT" => rc_state' \in {"IDLE", "TX_START"}
  BY <1>1, <1>4 DEF RateCtrlClock, RcRst, RcIdle, RcTxStart, RcTx, RcWait, RcGoto
<1>7. /\ Finished' \/ settled' = SettleCycles
      /\ settled' > 0 /\ (settled' > 1 => settled > 0) /\ (settled' > 2 => settled > 1)
  BY <1>2, Sizes DEF PaceInv, TypeOK, OffInv, ClockEdge, Finished
<1> QED
  BY <1>2, <1>3, <1>5, <1>6, <1>7 DEF PaceInv, OffInv, LateIsReported

(* Switched on: one lemma for each state of the module.                    *)
LEMMA ClockWhileIdle ==
  ASSUME PaceInv, sw = "on", NEW tvalid \in BOOLEAN, NEW tready \in BOOLEAN,
         ClockEdge(tvalid, tready), rc_state = "IDLE"
  PROVE  OnInv' /\ LateIsReported'
<1>1. ~do_transfer /\ word = 0 /\ asked = 0 /\ ~disturbed
  BY DEF PaceInv, OnInv
<1>2. ~Transfer(tvalid, tready) /\ word' = 0
  BY <1>1, PassStep DEF PaceInv
<1>3. asked' = 0 /\ (late' => late)
  BY <1>1, <1>2 DEF ClockEdge, Observe, Begins
<1>4. RateCtrlClock(FALSE, TRUE, tvalid, tlast, tuser, tready)
  BY DEF ClockEdge, rst, active
<1>5. /\ rc_state' = "TX_START" /\ do_transfer'
      /\ n_cycles' = 1 /\ cntr' = 1 /\ warn_timing' = warn_timing
  BY <1>4 DEF RateCtrlClock, RcRst, RcIdle, RcTxStart, RcTx, RcWait, RcGoto
<1>6. settled' > 0
  BY Sizes DEF PaceInv, TypeOK, ClockEdge
<1> QED
  BY <1>2, <1>3, <1>5, <1>6 DEF OnInv, PaceInv, LateIsReported

LEMMA ClockWhileDue ==
  ASSUME PaceInv, sw = "on", NEW tvalid \in BOOLEAN, NEW tready \in BOOLEAN,
         ClockEdge(tvalid, tready), rc_state = "TX_START"
  PROVE  OnInv' /\ LateIsReported'
<1>1. /\ do_transfer /\ word = 0
      /\ asked > 0 => n_cycles = asked /\ cntr = since /\ since >= asked
      /\ cntr > n_cycles => disturbed
  BY DEF PaceInv, OnInv
<1>2. RateCtrlClock(FALSE, TRUE, tvalid, tlast, tuser, tready)
  BY DEF ClockEdge, rst, active
<1>3. settled' > 0
  BY Sizes DEF PaceInv, TypeOK, ClockEdge
<1>4. warn_timing \/ TooLate(tvalid) => warn_timing'
  BY <1>2 DEF RateCtrlClock, RcRst, RcIdle, RcTxStart, RcTx, RcWait
<1>5. CASE Transfer(tvalid, tready)
  <2>1. Begins(tvalid, tready) /\ ~Finished
    BY <1>1, <1>5, PassStep DEF Begins, PaceInv
  <2>2. Head1.words \in Nat /\ Head1.words > 1
    BY <2>1, HeadType DEF PaceInv
  <2>3. ~tlast /\ tuser = Head1.gap
    BY <1>1, <2>1, <2>2 DEF tlast, tuser
  <2>4. word' = 1 /\ sent' = sent /\ trace' = trace
    BY <1>1, <1>5, <2>3 DEF ClockEdge, Pass
  <2>5. Head1' = Head1 /\ ~Finished'
    BY <2>1, <2>4 DEF Head1, Finished
  <2>6. /\ since' = 1 /\ asked' = Head1.gap
        /\ disturbed' = (Head1.gap < Head1.words)
        /\ late' => late \/ (asked > 0 /\ since > asked)
    BY <2>1 DEF ClockEdge, Observe
  <2>7. rc_state' = "TX" /\ n_cycles' = Head1.gap /\ cntr' = 1 /\ do_transfer'
    BY <1>2, <1>5, <2>3 DEF RateCtrlClock, RcRst, RcIdle, RcTxStart, RcTx, RcWait, RcGoto
  <2>8. ~disturbed' => Head1.words <= Head1.gap
    <3>1. Head1.gap \in Int
      BY <2>1, HeadType DEF PaceInv
    <3>2. CASE Head1.gap < Head1.words
      BY <2>6, <3>2
    <3>3. CASE ~(Head1.gap < Head1.words)
      BY <2>2, <3>1, <3>3
    <3> QED
      BY <3>2, <3>3
  <2>9. OnInv'
    BY <1>3, <2>4, <2>5, <2>6, <2>7, <2>8 DEF OnInv
  <2>10. asked > 0 /\ since > asked => TooLate(tvalid)
    BY <1>1, <1>5 DEF TooLate, Transfer
  <2> QED
    BY <1>4, <2>6, <2>9, <2>10 DEF LateIsReported, PaceInv
<1>6. CASE ~Transfer(tvalid, tready)
  <2>1. /\ rc_state' = "TX_START" /\ do_transfer'
        /\ n_cycles' = n_cycles /\ cntr' = UpTo(cntr + 1)
    BY <1>2, <1>6 DEF RateCtrlClock, RcRst, RcIdle, RcTxStart, RcTx, RcWait, RcGoto
  <2>2. /\ since' = (IF since = 0 THEN 0 ELSE UpTo(since + 1)) /\ asked' = asked
        /\ disturbed'
        /\ late' => late
    BY <1>1, <1>6 DEF ClockEdge, Observe, Begins, Transfer
  <2>3. word' = 0
    BY <1>1, <1>6, PassStep DEF PaceInv
  <2>4. asked > 0 => cntr' = since' /\ since' >= asked
    BY <1>1, <2>1, <2>2, Sizes DEF UpTo, PaceInv, TypeOK
  <2>5. OnInv'
    BY <1>1, <1>3, <2>1, <2>2, <2>3, <2>4 DEF OnInv
  <2> QED
    BY <1>4, <2>2, <2>5 DEF LateIsReported, PaceInv
<1> QED
  BY <1>5, <1>6

LEMMA ClockWhileSending ==
  ASSUME PaceInv, sw = "on", NEW tvalid \in BOOLEAN, NEW tready \in BOOLEAN,
         ClockEdge(tvalid, tready), rc_state = "TX"
  PROVE  OnInv' /\ LateIsReported'
<1>1. /\ do_transfer /\ word > 0 /\ ~Finished
      /\ n_cycles = asked /\ asked = Head1.gap /\ cntr = since /\ since > 0
      /\ ~disturbed => cntr = word /\ Head1.words <= asked
  BY DEF PaceInv, OnInv
<1>2. RateCtrlClock(FALSE, TRUE, tvalid, tlast, tuser, tready)
  BY DEF ClockEdge, rst, active
<1>3. /\ settled' > 0
      /\ cntr \in 0 .. MaxCycles /\ word \in Nat /\ word < Head1.words
      /\ n_cycles \in 0 .. MaxCycles - 1
  BY <1>1, Sizes DEF PaceInv, TypeOK, ClockEdge
<1>4. Head1.words \in Nat
  BY <1>1, HeadType DEF PaceInv
<1>5. /\ since' = UpTo(since + 1) /\ asked' = asked
      /\ disturbed' = (disturbed \/ (do_transfer /\ ~(tvalid /\ tready)))
      /\ late' => late
  <2>1. since # 0 /\ ~Begins(tvalid, tready)
    BY <1>1, <1>3 DEF Begins
  <2> QED
    BY <2>1 DEF ClockEdge, Observe
<1>6. cntr' = UpTo(cntr + 1) /\ n_cycles' = n_cycles /\ warn_timing' = warn_timing
  BY <1>2 DEF RateCtrlClock, RcRst, RcIdle, RcTxStart, RcTx, RcWait
<1>7. /\ cntr' = since' /\ since' > 0 /\ cntr' \in Nat
      /\ cntr' <= cntr + 1 /\ (cntr < MaxCycles => cntr' = cntr + 1)
  BY <1>1, <1>3, <1>5, <1>6, Sizes DEF UpTo
<1>8. CASE ~Transfer(tvalid, tready)
  <2>1. rc_state' = "TX" /\ do_transfer'
    BY <1>2, <1>8 DEF RateCtrlClock, RcRst, RcIdle, RcTxStart, RcTx, RcWait, RcGoto
  <2>2. word' = word /\ Head1' = Head1 /\ ~Finished' /\ disturbed'
    BY <1>1, <1>5, <1>8, PassStep DEF PaceInv, Head1, Finished, Transfer
  <2> QED
    BY <1>1, <1>3, <1>5, <1>6, <1>7, <2>1, <2>2 DEF OnInv, PaceInv, LateIsReported
<1>9. CASE Transfer(tvalid, tready) /\ ~tlast
  <2>1. rc_state' = "TX" /\ do_transfer'
    BY <1>2, <1>9 DEF RateCtrlClock, RcRst, RcIdle, RcTxStart, RcTx, RcWait, RcGoto
  <2>2. word' = word + 1 /\ sent' = sent /\ trace' = trace
    BY <1>9 DEF ClockEdge, Pass
  <2>3. Head1' = Head1 /\ ~Finished'
    BY <1>1, <2>2 DEF Head1, Finished
  <2>4. disturbed => disturbed'
    BY <1>5, Zenon
  <2>5. ~disturbed => cntr' = word'
    <3>1. ~disturbed => cntr = word /\ word < n_cycles
      BY <1>1, <1>3, <1>4
    <3>2. ~disturbed => cntr < MaxCycles
      BY <1>3, <3>1, Sizes
    <3> QED
      BY <1>7, <2>2, <3>1, <3>2
  <2> QED
    BY <1>1, <1>3, <1>5, <1>6, <1>7, <2>1, <2>2, <2>3, <2>4, <2>5
       DEF OnInv, PaceInv, LateIsReported
<1>10. CASE Transfer(tvalid, tready) /\ tlast
  <2>1. \/ cntr >= Due /\ rc_state' = "TX_START" /\ do_transfer'
        \/ cntr < Due /\ rc_state' = "WAIT" /\ ~do_transfer'
    BY <1>2, <1>10 DEF RateCtrlClock, RcRst, RcIdle, RcTxStart, RcTx, RcWait, RcGoto
  <2>2. word' = 0
    BY <1>10 DEF ClockEdge, Pass
  <2>3. disturbed => disturbed'
    BY <1>5, Zenon
  <2>4. Due \in Nat /\ Due' = Due
    BY <1>3, <1>6, DueValue DEF Due
  <2>5. CASE cntr >= Due
    <3>1. n_cycles > 0 /\ Due = n_cycles - 1
      BY <1>3, <2>5, DueValue, Sizes
    <3>2. cntr' >= n_cycles
      BY <1>3, <1>6, <2>5, <3>1, Sizes DEF UpTo
    <3>3. ~disturbed => cntr' <= n_cycles
      <4>1. word + 1 = Head1.words
        BY <1>10 DEF tlast
      <4> QED
        BY <1>1, <1>3, <1>4, <1>7, <4>1
    <3>4. cntr' > n_cycles => disturbed
      <4>1. cntr' \in Int /\ n_cycles \in Int
        BY <1>3, <1>6, Sizes DEF UpTo
      <4> QED
        BY <3>3, <4>1
    <3> QED
      BY <1>1, <1>3, <1>5, <1>6, <1>7, <2>1, <2>2, <2>3, <2>4, <2>5, <3>2, <3>4
         DEF OnInv, PaceInv, LateIsReported
  <2>6. CASE cntr < Due
    <3>1. cntr' <= Due'
      BY <1>3, <1>7, <2>4, <2>6, <1>6, Sizes DEF UpTo
    <3> QED
      BY <1>1, <1>3, <1>5, <1>6, <1>7, <2>1, <2>2, <2>4, <2>6, <3>1
         DEF OnInv, PaceInv, LateIsReported
  <2> QED
    BY <1>3, <2>4, <2>5, <2>6
<1> QED
  BY <1>8, <1>9, <1>10

LEMMA ClockWhileWaiting ==
  ASSUME PaceInv, sw = "on", NEW tvalid \in BOOLEAN, NEW tready \in BOOLEAN,
         ClockEdge(tvalid, tready), rc_state = "WAIT"
  PROVE  OnInv' /\ LateIsReported'
<1>1. /\ ~do_transfer /\ word = 0
      /\ n_cycles = asked /\ cntr = since /\ since > 0 /\ cntr <= Due
  BY DEF PaceInv, OnInv
<1>2. RateCtrlClock(FALSE, TRUE, tvalid, tlast, tuser, tready)
  BY DEF ClockEdge, rst, active
<1>3. /\ settled' > 0
      /\ cntr \in 0 .. MaxCycles /\ n_cycles \in 0 .. MaxCycles - 1
  BY Sizes DEF PaceInv, TypeOK, ClockEdge
<1>4. ~Transfer(tvalid, tready) /\ word' = 0
  BY <1>1, PassStep DEF PaceInv
<1>5. since' = UpTo(since + 1) /\ asked' = asked /\ (late' => late)
  <2>1. since # 0 /\ ~Begins(tvalid, tready)
    BY <1>1, <1>3, <1>4 DEF Begins
  <2> QED
    BY <2>1 DEF ClockEdge, Observe
<1>6. cntr' = UpTo(cntr + 1) /\ n_cycles' = n_cycles /\ warn_timing' = warn_timing
  BY <1>2 DEF RateCtrlClock, RcRst, RcIdle, RcTxStart, RcTx, RcWait
<1>7. Due \in Nat /\ Due' = Due
  BY <1>3, <1>6, DueValue DEF Due
<1>8. \/ cntr = Due /\ rc_state' = "TX_START" /\ do_transfer'
      \/ cntr # Due /\ rc_state' = "WAIT" /\ ~do_transfer'
  BY <1>2 DEF RateCtrlClock, RcRst, RcIdle, RcTxStart, RcTx, RcWait, RcGoto
<1>9. cntr' = since' /\ since' > 0
  BY <1>1, <1>3, <1>5, <1>6, Sizes DEF UpTo
<1>10. CASE cntr = Due
  <2>1. n_cycles > 0 /\ Due = n_cycles - 1
    BY <1>3, <1>10, DueValue, Sizes
  <2>2. cntr' = n_cycles
    BY <1>3, <1>6, <1>10, <2>1, Sizes DEF UpTo
  <2> QED
    BY <1>1, <1>3, <1>4, <1>5, <1>6, <1>8, <1>9, <1>10, <2>2
       DEF OnInv, PaceInv, LateIsReported
<1>11. CASE cntr # Due
  <2>1. cntr' <= Due'
    BY <1>1, <1>3, <1>6, <1>7, <1>11, Sizes DEF UpTo
  <2> QED
    BY <1>1, <1>3, <1>4, <1>5, <1>6, <1>8, <1>9, <1>11, <2>1
       DEF OnInv, PaceInv, LateIsReported
<1> QED
  BY <1>10, <1>11

LEMMA ClockStep ==
  ASSUME PaceInv, NEW tvalid \in BOOLEAN, NEW tready \in BOOLEAN,
         ClockEdge(tvalid, tready)
  PROVE  PaceInv'
<1>1. TypeOK' /\ sw' = sw /\ sw \in {"off", "on", "reset"}
  BY ClockTypes, RegisterTypes DEF PaceInv, TypeOK
<1>2. CASE sw = "on"
  <2>1. rc_state \in {"IDLE", "TX_START", "TX", "WAIT"}
    BY <1>2 DEF PaceInv, OnInv
  <2>2. OnInv' /\ LateIsReported'
    BY <1>2, <2>1, ClockWhileIdle, ClockWhileDue, ClockWhileSending, ClockWhileWaiting
  <2> QED
    BY <1>1, <1>2, <2>2 DEF PaceInv
<1>3. CASE sw = "off"
  BY <1>1, <1>3, ClockOff DEF PaceInv
<1>4. CASE sw = "reset"
  BY <1>1, <1>4, ClockReset DEF PaceInv
<1> QED
  BY <1>1, <1>2, <1>3, <1>4

LEMMA StutterStep == ASSUME PaceInv, UNCHANGED vars PROVE PaceInv'
BY DEF vars, rcVars, envVars, history, PaceInv, TypeOK, OnInv, OffInv, ResetInv,
       LateIsReported, Finished, Head1, Due

LEMMA NextStep == ASSUME LetsFinish, PaceInv, [Next]_vars PROVE PaceInv'
BY TraceStep, ActivateStep, DeactivateStep, ResetStep, ReleaseStep, ClockStep,
   StutterStep DEF Next

-----------------------------------------------------------------------------
(* The rate control is always in one of the situations of PaceInv, for     *)
(* every trace.                                                            *)
THEOREM PacingInvariant == ASSUME LetsFinish PROVE Spec => []PaceInv
<1>1. PaceInv /\ [Next]_vars => PaceInv'
  BY NextStep
<1> QED
  BY <1>1, InitInv, PTL DEF Spec

(* No packet begins before the gap that its predecessor asked for is over. *)
THEOREM GapsAreKept == ASSUME LetsFinish PROVE Spec => []NeverEarly
<1>1. PaceInv => NeverEarly
  <2> SUFFICES ASSUME PaceInv, do_transfer, ~Finished, word = 0 PROVE since >= asked
    BY DEF NeverEarly
  <2>1. CASE sw = "on"
    BY <2>1 DEF PaceInv, TypeOK, OnInv
  <2>2. CASE sw = "off"
    BY <2>2, Sizes DEF PaceInv, OffInv
  <2>3. CASE sw = "reset"
    BY <2>3 DEF PaceInv, ResetInv
  <2> QED
    BY <2>1, <2>2, <2>3 DEF PaceInv, TypeOK
<1> QED
  BY <1>1, PacingInvariant, PTL

(* A packet that began too late always leaves the warning flag set.        *)
THEOREM LatenessIsReported == ASSUME LetsFinish PROVE Spec => []LateIsReported
<1>1. PaceInv => LateIsReported
  BY DEF PaceInv
<1> QED
  BY <1>1, PacingInvariant, PTL

(* The warning flag is never raised by waiting alone.                      *)
THEOREM WarningsHaveCauses == ASSUME LetsFinish PROVE Spec => WarnsWithCause
<1>1. PaceInv /\ [Next]_vars => [~warn_timing /\ warn_timing' => disturbed]_vars
  <2> SUFFICES ASSUME PaceInv, Next, ~warn_timing, warn_timing' PROVE disturbed
    OBVIOUS
  <2>1. PICK tvalid \in BOOLEAN, tready \in BOOLEAN : ClockEdge(tvalid, tready)
    BY DEF Next, SwTrace, SwActivate, SwDeactivate, SwReset, SwRelease, rcVars
  <2>2. rc_state = "TX_START" /\ TooLate(tvalid)
    BY <2>1 DEF ClockEdge, RateCtrlClock, RcRst, RcIdle, RcTxStart, RcTx, RcWait
  <2>3. ~Finished /\ cntr > n_cycles
    BY <2>1, <2>2 DEF ClockEdge, TooLate
  <2>4. sw = "on"
    BY <2>2, <2>3, Sizes DEF PaceInv, TypeOK, OffInv, ResetInv
  <2> QED
    BY <2>2, <2>3, <2>4 DEF PaceInv, OnInv
<1> QED
  BY <1>1, PacingInvariant, PTL DEF Spec, WarnsWithCause
=============================================================================
