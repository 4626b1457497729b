---------------------------- MODULE ReplayProofs ----------------------------
(***************************************************************************)
(* Proofs about the replay core: the ring buffer path of ReplayRing, for   *)
(* every size of the ring, the burst, the FIFO, the transfers and the      *)
(* traces, and the whole core of Replay, which is shown to implement it.   *)
(***************************************************************************)
EXTENDS Replay, WellFoundedInduction, TLAPS

LEMMA InitIInv == Init => IInv
<1> SUFFICES ASSUME Init PROVE IInv
  OBVIOUS
<1> USE MemReadAssumption, RingAssumption DEF Init, MemReadInit
<1>1. TypeOK
  <2>1. stored \in Seq(Int) /\ drained \in 0 .. Len(stored)
    OBVIOUS
  <2>2. mem \in [Slots -> Int]
    BY DEF NoData
  <2>3. axi_buf \in Beats
    BY DEF NoBeat, NoData, Beats
  <2>4. MemReadTypeOK
    <3>1. arvalid \in BOOLEAN /\ fifo_wr_en \in BOOLEAN /\ mr_active \in BOOLEAN
      BY Zenon
    <3>2. /\ mr_state = "IDLE" /\ addr_rd = 0 /\ read_cntr = 0 /\ araddr = 0
          /\ arlen = 0 /\ fifo_din = NoData
      OBVIOUS
    <3> HIDE DEF Init, MemReadInit
    <3> QED
      BY <3>1, <3>2 DEF MemReadTypeOK, NoData
  <2>5. /\ addr_wr \in Slots /\ chunk \in 0 .. TransferMax
        /\ axi_left \in 0 .. BurstLen
    BY DEF Slots
  <2> QED
    BY <2>1, <2>2, <2>3, <2>4, <2>5 DEF TypeOK
<1>2. PhaseInv
  BY DEF PhaseInv, AxiQuiet, NoBeat
<1>3. RingInv /\ BurstInv
  BY DEF RingInv, BurstInv
<1>4. FifoInv
  BY DEF FifoInv, StoredInTraceOrder, Level, Pushed, Fetched
<1> QED
  BY <1>1, <1>2, <1>3, <1>4 DEF IInv

LEMMA FetchStep == ASSUME IInv, AxiFetch PROVE IInv'
<1> USE MemReadAssumption, RingAssumption
    DEF AxiFetch, mrVars, regVars, swVars, fifoVars
<1>1. TypeOK'
  BY DEF IInv, TypeOK, MemReadTypeOK, Slots, NoData, Beats
<1>2. PhaseInv'
  BY DEF IInv, TypeOK, PhaseInv, AxiQuiet, Beats, Handed
<1>3. RingInv'
  BY DEF IInv, RingInv, Offset, Written
<1>4. BurstInv'
  BY DEF IInv, TypeOK, MemReadTypeOK, BurstInv, RingInv, AxiQuiet, Beats, Owed, Pushed, Fetched, Slots, Offset, Written
<1>5. FifoInv'
  <2>1. Owed' = Owed
    BY DEF IInv, TypeOK, Owed, Pushed, Fetched, Beats
  <2>2. UNCHANGED <<Level, Handed, Pushed>>
    BY DEF Level, Handed, Pushed
  <2> QED
    BY <2>1, <2>2 DEF IInv, FifoInv, StoredInTraceOrder
<1> QED
  BY <1>1, <1>2, <1>3, <1>4, <1>5 DEF IInv

LEMMA ConfigureStep == ASSUME IInv, SwConfigure PROVE IInv'
<1> USE MemReadAssumption, RingAssumption
    DEF SwConfigure, mrVars, regVars, swVars, axiVars, fifoVars
<1>1. TypeOK'
  BY DEF IInv, TypeOK, MemReadTypeOK, Slots
<1>2. PhaseInv'
  BY DEF IInv, TypeOK, PhaseInv, AxiQuiet, Handed
<1>3. RingInv'
  BY DEF IInv, TypeOK, MemReadTypeOK, PhaseInv, RingInv, Offset, Written, Slots
<1>4. BurstInv'
  BY DEF IInv, TypeOK, PhaseInv, BurstInv, Owed, Pushed, Fetched, AxiQuiet
<1>5. FifoInv'
  BY DEF IInv, TypeOK, PhaseInv, FifoInv, StoredInTraceOrder, Level, Pushed, Fetched, Owed, Handed
<1> QED
  BY <1>1, <1>2, <1>3, <1>4, <1>5 DEF IInv

LEMMA StartStep == ASSUME IInv, SwStart PROVE IInv'
<1> USE MemReadAssumption, RingAssumption
    DEF SwStart, mrVars, regVars, swVars, axiVars, fifoVars
<1>1. TypeOK'
  BY DEF IInv, TypeOK, MemReadTypeOK, Slots
<1>2. PhaseInv'
  BY DEF IInv, TypeOK, PhaseInv, AxiQuiet, Handed
<1>3. RingInv'
  BY DEF IInv, TypeOK, MemReadTypeOK, PhaseInv, RingInv, Offset, Written, Slots
<1>4. BurstInv'
  BY DEF IInv, TypeOK, PhaseInv, BurstInv, Owed, Pushed, Fetched, AxiQuiet
<1>5. FifoInv'
  BY DEF IInv, TypeOK, PhaseInv, FifoInv, StoredInTraceOrder, Level, Pushed, Fetched, Owed, Handed
<1> QED
  BY <1>1, <1>2, <1>3, <1>4, <1>5 DEF IInv

LEMMA SeeActiveStep == ASSUME IInv, SwSeeActive PROVE IInv'
<1> USE MemReadAssumption, RingAssumption
    DEF SwSeeActive, mrVars, regVars, swVars, axiVars, fifoVars
<1>1. TypeOK'
  BY DEF IInv, TypeOK, MemReadTypeOK, Slots
<1>2. PhaseInv'
  <2>1. sw = "started" /\ sw' = "write" /\ mr_active
    OBVIOUS
  <2>2. ~rst /\ ~start /\ mr_state # "IDLE"
    BY <2>1 DEF IInv, TypeOK, PhaseInv
  <2>3. Handed' = Handed /\ (AxiQuiet' <=> AxiQuiet)
    BY DEF Handed, AxiQuiet
  <2> QED
    BY <2>1, <2>2, <2>3 DEF IInv, PhaseInv
<1>3. RingInv'
  <2>1. sw = "started" /\ sw' = "write" /\ Written' = Written
    BY DEF Written
  <2> QED
    BY <2>1 DEF IInv, RingInv, Offset
<1>4. BurstInv'
  BY DEF IInv, TypeOK, PhaseInv, BurstInv, Owed, Pushed, Fetched, AxiQuiet
<1>5. FifoInv'
  BY DEF IInv, TypeOK, PhaseInv, FifoInv, StoredInTraceOrder, Level, Pushed, Fetched, Owed, Handed
<1> QED
  BY <1>1, <1>2, <1>3, <1>4, <1>5 DEF IInv

LEMMA SampleStep == ASSUME IInv, SwSample PROVE IInv'
<1> USE MemReadAssumption, RingAssumption
    DEF SwSample, mrVars, regVars, swVars, axiVars, fifoVars
<1>1. TypeOK'
  BY DEF IInv, TypeOK, MemReadTypeOK, Slots, TransferSize, Least
<1>2. PhaseInv'
  BY DEF IInv, TypeOK, PhaseInv, AxiQuiet, Handed
<1>3. RingInv'
  BY DEF IInv, TypeOK, MemReadTypeOK, PhaseInv, RingInv, Offset, Written, Slots, TransferSize, DoTransfer, Least
<1>4. BurstInv'
  BY DEF IInv, TypeOK, PhaseInv, BurstInv, Owed, Pushed, Fetched, AxiQuiet
<1>5. FifoInv'
  BY DEF IInv, TypeOK, PhaseInv, FifoInv, StoredInTraceOrder, Level, Pushed, Fetched, Owed, Handed
<1> QED
  BY <1>1, <1>2, <1>3, <1>4, <1>5 DEF IInv

LEMMA CopyStep == ASSUME IInv, SwCopy PROVE IInv'
<1> USE MemReadAssumption, RingAssumption
    DEF SwCopy, mrVars, regVars, swVars, axiVars, fifoVars
<1>1. TypeOK'
  BY DEF IInv, TypeOK, MemReadTypeOK, Slots
<1>2. PhaseInv'
  BY DEF IInv, TypeOK, PhaseInv, AxiQuiet, Handed
<1>3. RingInv'
  <2> SUFFICES ASSUME ~rst, mr_state # "IDLE" PROVE RingInv'
    BY DEF RingInv
  <2> USE DEF IInv, TypeOK, MemReadTypeOK, RingInv, Written, Slots
  <2>1. ASSUME NEW i \in Slots, Offset(i)' < Written' - read_cntr
        PROVE  mem'[i] = read_cntr + Offset(i)
    <3>1. CASE i \in addr_wr .. addr_wr + chunk - 1
      <4>1. mem'[i] = sent + (i - addr_wr)
        BY <3>1
      <4> QED
        BY <3>1, <4>1 DEF Offset
    <3>2. CASE i \notin addr_wr .. addr_wr + chunk - 1
      <4>1. mem'[i] = mem[i]
        BY <3>2
      <4>2. Offset(i) < sent - read_cntr
        BY <2>1, <3>2 DEF Offset
      <4> QED
        BY <4>1, <4>2 DEF Offset
    <3> QED
      BY <3>1, <3>2
  <2> QED
    BY <2>1 DEF Offset
<1>4. BurstInv'
  BY DEF IInv, TypeOK, PhaseInv, BurstInv, Owed, Pushed, Fetched, AxiQuiet
<1>5. FifoInv'
  BY DEF IInv, TypeOK, PhaseInv, FifoInv, StoredInTraceOrder, Level, Pushed, Fetched, Owed, Handed
<1> QED
  BY <1>1, <1>2, <1>3, <1>4, <1>5 DEF IInv

LEMMA PublishStep == ASSUME IInv, SwPublish PROVE IInv'
<1> USE MemReadAssumption, RingAssumption
    DEF SwPublish, mrVars, regVars, swVars, axiVars, fifoVars
<1>1. TypeOK'
  <2>1. addr_wr' \in Slots
    BY DEF IInv, TypeOK, PhaseInv, RingInv, Slots
  <2> QED
    BY <2>1 DEF IInv, TypeOK, MemReadTypeOK
<1>2. PhaseInv'
  BY DEF IInv, TypeOK, PhaseInv, AxiQuiet, Handed
<1>3. RingInv'
  BY DEF IInv, TypeOK, MemReadTypeOK, PhaseInv, RingInv, Offset, Written, Slots
<1>4. BurstInv'
  BY DEF IInv, TypeOK, MemReadTypeOK, PhaseInv, BurstInv, Owed, Slots, Beats, Pushed, Fetched, AxiQuiet
<1>5. FifoInv'
  BY DEF IInv, TypeOK, PhaseInv, FifoInv, StoredInTraceOrder, Level, Pushed, Fetched, Owed, Handed
<1> QED
  BY <1>1, <1>2, <1>3, <1>4, <1>5 DEF IInv

LEMMA FinishStep == ASSUME IInv, SwFinish PROVE IInv'
<1> USE MemReadAssumption, RingAssumption
    DEF SwFinish, mrVars, regVars, swVars, axiVars, fifoVars
<1>1. TypeOK'
  BY DEF IInv, TypeOK, MemReadTypeOK, Slots, NoData
<1>2. PhaseInv'
  BY DEF IInv, TypeOK, PhaseInv, AxiQuiet, Handed
<1>3. RingInv'
  BY DEF IInv, TypeOK, MemReadTypeOK, PhaseInv, RingInv, Offset, Written, Slots
<1>4. BurstInv'
  BY DEF IInv, TypeOK, PhaseInv, BurstInv, Owed, Pushed, Fetched, AxiQuiet
<1>5. FifoInv'
  <2>1. UNCHANGED <<Level, Handed, Owed>>
    BY DEF Level, Handed, Owed, Fetched
  <2>2. UNCHANGED Pushed
    BY DEF Pushed
  <2> QED
    BY <2>1, <2>2 DEF IInv, FifoInv, StoredInTraceOrder
<1> QED
  BY <1>1, <1>2, <1>3, <1>4, <1>5 DEF IInv

LEMMA ResetStep == ASSUME IInv, SwReset PROVE IInv'
<1> USE MemReadAssumption, RingAssumption
    DEF SwReset, mrVars, regVars, swVars, axiVars, fifoVars
<1>1. TypeOK'
  BY DEF IInv, TypeOK, MemReadTypeOK, Slots
<1>2. PhaseInv'
  BY DEF IInv, TypeOK, PhaseInv, AxiQuiet, Handed
<1>3. RingInv'
  BY DEF IInv, TypeOK, MemReadTypeOK, PhaseInv, RingInv, Offset, Written, Slots
<1>4. BurstInv'
  BY DEF IInv, TypeOK, PhaseInv, BurstInv, Owed, Pushed, Fetched, AxiQuiet
<1>5. FifoInv'
  BY DEF IInv, TypeOK, PhaseInv, FifoInv, StoredInTraceOrder, Level, Pushed, Fetched, Owed, Handed
<1> QED
  BY <1>1, <1>2, <1>3, <1>4, <1>5 DEF IInv

LEMMA ReleaseStep == ASSUME IInv, SwRelease PROVE IInv'
<1> USE MemReadAssumption, RingAssumption
    DEF SwRelease, mrVars, regVars, swVars, axiVars, fifoVars
<1>1. TypeOK'
  <2>1. mem' \in [Slots -> Int]
    BY DEF NoData
  <2> QED
    BY <2>1 DEF IInv, TypeOK, MemReadTypeOK
<1>2. PhaseInv'
  BY DEF IInv, TypeOK, PhaseInv, AxiQuiet, Handed
<1>3. RingInv'
  BY DEF IInv, TypeOK, MemReadTypeOK, PhaseInv, RingInv, Offset, Written, Slots
<1>4. BurstInv'
  BY DEF IInv, TypeOK, PhaseInv, BurstInv, Owed, Pushed, Fetched, AxiQuiet
<1>5. FifoInv'
  BY DEF IInv, TypeOK, PhaseInv, FifoInv, StoredInTraceOrder, Level, Pushed, Fetched, Owed, Handed
<1> QED
  BY <1>1, <1>2, <1>3, <1>4, <1>5 DEF IInv

(* The beats of a request of the WAIT state lie before the end of the ring *)
(* and are published.                                                      *)
LEMMA RequestFits ==
  ASSUME IInv, ~rst, mr_state = "WAIT", addr_rd # addr_wr,
         Request(addr_wr, trace_size) # 0
  PROVE  /\ Request(addr_wr, trace_size) \in 1 .. BurstLen
         /\ addr_rd + Request(addr_wr, trace_size) <= RingSize
         /\ read_cntr + Request(addr_wr, trace_size) <= sent
<1> USE MemReadAssumption, RingAssumption DEF ToEnd, Left, Slots
<1>0. /\ addr_rd \in Slots /\ addr_wr \in Slots
      /\ sent \in Nat /\ read_cntr \in Nat /\ trace_size \in Nat
      /\ read_cntr < trace_size
      /\ sent <= trace_size
      /\ sent - read_cntr = IF addr_wr >= addr_rd THEN addr_wr - addr_rd
                                                  ELSE RingSize - addr_rd + addr_wr
  BY DEF IInv, TypeOK, MemReadTypeOK, RingInv, Written
<1>1. CASE FullBurst(addr_wr, trace_size)
  BY <1>0, <1>1 DEF Request, FullBurst
<1>2. CASE ~FullBurst(addr_wr, trace_size) /\ BurstToEnd(addr_wr, trace_size)
  BY <1>0, <1>2 DEF Request, BurstToEnd
<1>3. CASE ~FullBurst(addr_wr, trace_size) /\ ~BurstToEnd(addr_wr, trace_size)
           /\ LastBurst(addr_wr, trace_size)
  BY <1>0, <1>3 DEF Request, LastBurst
<1> QED
  BY <1>1, <1>2, <1>3 DEF Request

(* Types are preserved by a clock edge.                                    *)
LEMMA ClockTypes ==
  ASSUME IInv, NEW arready \in BOOLEAN, NEW deliver \in BOOLEAN,
         NEW drain \in BOOLEAN, ClockEdge(arready, deliver, drain)
  PROVE  TypeOK'
<1> USE MemReadAssumption, RingAssumption
<1> DEFINE beat == IF deliver THEN axi_buf ELSE NoBeat
<1>0. TypeOK /\ MemReadTypeOK
  BY DEF IInv, TypeOK
<1>1. beat \in Beats
  BY <1>0 DEF TypeOK, Beats, NoBeat, NoData
<1>2. axi_addr' \in Nat /\ axi_left' \in 0 .. BurstLen /\ axi_buf' \in Beats
  BY <1>0 DEF ClockEdge, AxiClock, TypeOK, MemReadTypeOK, Beats, NoBeat, NoData
<1>3. stored' \in Seq(Int) /\ drained' \in 0 .. Len(stored') /\ prog_full' \in BOOLEAN
  <2>1. CASE rst
    <3>1. stored' = <<>> /\ drained' = 0 /\ prog_full' = FALSE
      BY <2>1 DEF ClockEdge, FifoClock
    <3>2. stored' \in Seq(Int) /\ Len(stored') = 0
      BY <3>1
    <3>3. drained' \in 0 .. 0
      BY <3>1
    <3>4. prog_full' \in BOOLEAN
      BY <3>1, Zenon
    <3> QED
      BY <3>2, <3>3, <3>4
  <2>2. CASE ~rst
    <3>1. stored' \in Seq(Int) /\ Len(stored') >= Len(stored)
      <4>1. stored' \in {stored, Append(stored, fifo_din)}
        BY <2>2 DEF ClockEdge, FifoClock
      <4>2. stored \in Seq(Int) /\ fifo_din \in Int
        BY <1>0 DEF TypeOK, MemReadTypeOK
      <4>3. CASE stored' = stored
        BY <4>2, <4>3
      <4>4. CASE stored' = Append(stored, fifo_din)
        BY <4>2, <4>4
      <4> QED
        BY <4>1, <4>3, <4>4
    <3>2. drained' \in 0 .. Len(stored)
      <4>1. drained \in 0 .. Len(stored) /\ Len(stored) \in Nat
        BY <1>0 DEF TypeOK
      <4>2. /\ drain => Len(stored) - drained > 0
            /\ drained' = IF drain THEN drained + 1 ELSE drained
        BY <2>2 DEF ClockEdge, FifoClock, Level
      <4> QED
        BY <4>1, <4>2
    <3>3. prog_full' \in BOOLEAN
      BY <2>2 DEF ClockEdge, FifoClock
    <3> QED
      BY <3>1, <3>2, <3>3, <1>0 DEF TypeOK
  <2> QED
    BY <2>1, <2>2
<1>4. MemReadTypeOK'
  <2>0. MemReadClock(rst, start, addr_wr, trace_size, prog_full, arready, beat)
    BY DEF ClockEdge
  <2>1. fifo_wr_en' \in BOOLEAN /\ fifo_din' \in Int
    BY <1>1, <2>0 DEF MemReadClock, MrOutputs, Beats
  <2>2. mr_active' \in BOOLEAN
    BY <2>0 DEF MemReadClock, MrOutputs
  <2> USE <2>1, <2>2
  <2>3. CASE MrIdle(rst, start)
    <3>1. mr_state' \in {"IDLE", "WAIT", "REQ", "READ"} /\ arvalid' \in BOOLEAN
      BY <2>3, Zenon DEF MrIdle, MrGoto
    <3>2. addr_rd' = 0 /\ read_cntr' = 0 /\ araddr' = 0 /\ arlen' = arlen
      BY <2>3 DEF MrIdle
    <3> QED
      BY <1>0, <3>1, <3>2 DEF MemReadTypeOK
  <2>4. CASE MrWait(rst, addr_wr, trace_size, prog_full)
    <3>1. arlen' \in 0 .. BurstLen - 1
      <4>1. CASE prog_full \/ addr_rd = addr_wr \/ Request(addr_wr, trace_size) = 0
        BY <1>0, <2>4, <4>1 DEF MrWait, Grant, MemReadTypeOK
      <4>2. CASE ~prog_full /\ addr_rd # addr_wr /\ Request(addr_wr, trace_size) # 0
        <5>1. arlen' = Request(addr_wr, trace_size) - 1
          BY <2>4, <4>2 DEF MrWait, Grant
        <5>2. CASE rst
          <6>1. Request(addr_wr, trace_size) \in 1 .. BurstLen
            BY <1>0, <4>2 DEF Request, FullBurst, BurstToEnd, LastBurst, ToEnd,
               Left, TypeOK, MemReadTypeOK, Slots
          <6> QED
            BY <5>1, <6>1
        <5>3. CASE ~rst
          BY <5>1, <5>3, <2>4, <4>2, RequestFits DEF MrWait
        <5> QED
          BY <5>2, <5>3
      <4> QED
        BY <4>1, <4>2
    <3>2. mr_state' \in {"IDLE", "WAIT", "REQ", "READ"} /\ arvalid' \in BOOLEAN
      BY <2>4 DEF MrWait, MrGoto
    <3> QED
      BY <1>0, <2>4, <3>1, <3>2 DEF MrWait, MemReadTypeOK
  <2>5. CASE MrReq(rst, arready)
    BY <1>0, <2>5 DEF MrReq, MrGoto, MemReadTypeOK
  <2>6. CASE MrRead(rst, trace_size, beat)
    <3>1. mr_state' \in {"IDLE", "WAIT", "REQ", "READ"} /\ arvalid' \in BOOLEAN
      <4>1. CASE beat.valid
        BY <2>6, <4>1, Zenon DEF MrRead, MrGoto
      <4>2. CASE ~beat.valid
        BY <2>6, <4>2, Zenon DEF MrRead, MrGoto
      <4> QED
        BY <4>1, <4>2
    <3>2. /\ read_cntr' \in {read_cntr, read_cntr + 1}
          /\ addr_rd' \in {addr_rd, NextSlot(addr_rd)}
          /\ araddr' \in {araddr, NextSlot(araddr)}
          /\ arlen' = arlen
      BY <2>6 DEF MrRead
    <3> QED
      BY <1>0, <3>1, <3>2 DEF MemReadTypeOK, NextSlot
  <2> QED
    BY <2>0, <2>3, <2>4, <2>5, <2>6 DEF MemReadClock
<1>5. trace_size' \in Sizes /\ addr_wr' \in Slots /\ start' \in BOOLEAN
  BY <1>0 DEF ClockEdge, TypeOK
<1>6. UNCHANGED <<rst, sw, sent, chunk, mem>>
  BY DEF ClockEdge, swVars
<1> QED
  BY <1>0, <1>2, <1>3, <1>4, <1>5, <1>6 DEF TypeOK, Slots

(* What a clock edge does to the FIFO: the beat on its input is stored.    *)
LEMMA ClockFifo ==
  ASSUME IInv, ~rst, NEW drain \in BOOLEAN, FifoClock(drain)
  PROVE  /\ stored' = Handed
         /\ Len(stored') = Len(stored) + Pushed
         /\ \E d \in 0 .. 1 : Level' = Level + Pushed - d
         /\ StoredInTraceOrder'
         /\ ~prog_full' => Level' <= ProgFull
         /\ Level + Pushed <= FifoDepth
         /\ Level \in Int /\ Level' \in Int /\ Pushed \in Int /\ FifoDepth \in Int
<1> USE MemReadAssumption, RingAssumption
<1>0. /\ stored \in Seq(Int) /\ Len(stored) \in Nat
      /\ fifo_din \in Int
      /\ drained \in 0 .. Len(stored)
      /\ fifo_wr_en \in BOOLEAN
      /\ fifo_wr_en => fifo_din = Len(stored)
      /\ \A i \in 1 .. Len(stored) : stored[i] = i - 1
      /\ Level + Pushed <= FifoDepth
  BY DEF IInv, TypeOK, MemReadTypeOK, FifoInv, StoredInTraceOrder
<1>1. stored' = Handed
  BY <1>0 DEF FifoClock, Handed, Level, Pushed, Fetched
<1>2. Len(stored') = Len(stored) + Pushed
  BY <1>0, <1>1 DEF Handed, Pushed, Fetched
<1>3. \E d \in 0 .. 1 : drained' = drained + d
  BY <1>0 DEF FifoClock
<1>4. \E d \in 0 .. 1 : Level' = Level + Pushed - d
  BY <1>0, <1>2, <1>3 DEF Level, Pushed
<1>5. StoredInTraceOrder'
  BY <1>0, <1>1 DEF Handed, StoredInTraceOrder
<1>6. ~prog_full' => Level' <= ProgFull
  <2>1. ~prog_full' => ~(Level >= ProgFull)
    BY Zenon DEF FifoClock
  <2>2. Level \in Int /\ Level' \in Int
    BY <1>0, <1>2, <1>3 DEF Level, Pushed, Fetched
  <2> QED
    BY <1>0, <1>4, <2>1, <2>2 DEF Pushed, Fetched
<1>7. Level \in Int /\ Level' \in Int /\ Pushed \in Int /\ FifoDepth \in Int
  BY <1>0, <1>2, <1>3 DEF Level, Pushed
<1> QED
  BY <1>0, <1>1, <1>2, <1>4, <1>5, <1>6, <1>7

(* A beat is delivered in the READ state only, and it is the next one of   *)
(* the trace.                                                              *)
LEMMA ClockBeat ==
  ASSUME IInv, ~rst, NEW arready \in BOOLEAN, NEW deliver \in BOOLEAN,
         NEW drain \in BOOLEAN, ClockEdge(arready, deliver, drain)
  PROVE  /\ mr_state # "READ" => ~deliver
         /\ fifo_wr_en' = deliver
         /\ deliver => /\ axi_buf.valid
                       /\ fifo_din' = read_cntr
                       /\ axi_buf.last = (axi_left = 0)
         /\ axi_buf' = IF deliver THEN NoBeat ELSE axi_buf
         /\ mr_active' = (mr_state # "IDLE")
         /\ UNCHANGED <<rst, sw, sent, chunk, mem, trace_size, addr_wr>>
         /\ start' = FALSE
<1>1. deliver => axi_buf.valid
  BY DEF ClockEdge, AxiClock
<1>2. mr_state \in {"IDLE", "WAIT", "REQ"} => ~axi_buf.valid
  BY DEF IInv, PhaseInv, BurstInv, AxiQuiet
<1>3. mr_state \in {"IDLE", "WAIT", "REQ", "READ"}
  BY DEF IInv, TypeOK, MemReadTypeOK
<1>4. mr_state # "READ" => ~deliver
  BY <1>1, <1>2, <1>3
<1>5. fifo_wr_en' = deliver
  <2>1. CASE deliver
    BY <1>1, <2>1 DEF ClockEdge, MemReadClock, MrOutputs, IInv, TypeOK, Beats
  <2>2. CASE ~deliver
    BY <2>2 DEF ClockEdge, MemReadClock, MrOutputs, NoBeat
  <2> QED
    BY <2>1, <2>2
<1>6. deliver => fifo_din' = read_cntr
  BY <1>1, <1>4 DEF ClockEdge, MemReadClock, MrOutputs, IInv, BurstInv
<1>7. deliver => axi_buf.last = (axi_left = 0)
  BY <1>1, <1>4 DEF IInv, BurstInv
<1>8. axi_buf' = IF deliver THEN NoBeat ELSE axi_buf
  BY DEF ClockEdge, AxiClock
<1>9. mr_active' = (mr_state # "IDLE")
  BY Zenon DEF ClockEdge, MemReadClock, MrOutputs
<1>10. /\ UNCHANGED <<rst, sw, sent, chunk, mem, trace_size, addr_wr>>
       /\ start' = FALSE
  BY DEF ClockEdge, swVars
<1> QED
  BY <1>1, <1>4, <1>5, <1>6, <1>7, <1>8, <1>9, <1>10

(* The core under reset: the state machine stays in, or falls to, IDLE.    *)
LEMMA ClockReset ==
  ASSUME IInv, NEW arready \in BOOLEAN, NEW deliver \in BOOLEAN,
         NEW drain \in BOOLEAN, ClockEdge(arready, deliver, drain), rst
  PROVE  IInv'
<1> USE MemReadAssumption, RingAssumption
    DEF IInv, TypeOK, MemReadTypeOK, ClockEdge, MemReadClock, MrOutputs,
        MrGoto, MrIdle, MrWait, MrReq, MrRead, NextSlot, TraceEnds,
        AxiClock, swVars
<1>1. TypeOK'
  BY ClockTypes
<1>2. PhaseInv'
  BY DEF PhaseInv, FifoClock, AxiQuiet, Handed, NoBeat
<1>3. RingInv'
  BY DEF PhaseInv, RingInv, BurstInv, Offset, Written, Slots, NoBeat
<1>4. BurstInv'
  BY DEF PhaseInv, BurstInv, Owed, Pushed, Fetched, AxiQuiet, NoBeat
<1>5. FifoInv'
  BY DEF PhaseInv, FifoInv, FifoClock, StoredInTraceOrder, Level, Pushed, Fetched, Owed, Handed, NoBeat, BurstInv
<1> QED
  BY <1>1, <1>2, <1>3, <1>4, <1>5

LEMMA ClockIdle ==
  ASSUME IInv, NEW arready \in BOOLEAN, NEW deliver \in BOOLEAN,
         NEW drain \in BOOLEAN, ClockEdge(arready, deliver, drain), ~rst, mr_state = "IDLE"
  PROVE  IInv'
<1>0. TypeOK'
  BY ClockTypes DEF IInv
<1>1. /\ ~deliver /\ ~fifo_wr_en' /\ ~mr_active' /\ ~start' /\ ~rst'
      /\ UNCHANGED <<rst, sw, sent, chunk, mem, trace_size, addr_wr, axi_buf>>
  BY ClockBeat
<1>2. /\ mr_state' = IF start THEN "WAIT" ELSE "IDLE"
      /\ addr_rd' = 0 /\ read_cntr' = 0 /\ araddr' = 0 /\ ~arvalid'
  BY DEF ClockEdge, MemReadClock, MrIdle, MrWait, MrReq, MrRead, MrGoto
<1>3. AxiQuiet /\ UNCHANGED <<axi_addr, axi_left>>
  BY DEF IInv, PhaseInv, ClockEdge, AxiClock
<1>4. AxiQuiet'
  BY <1>1, <1>3 DEF AxiQuiet
<1>5. /\ stored' = Handed
      /\ Len(stored') = Len(stored) + Pushed
      /\ \E d \in 0 .. 1 : Level' = Level + Pushed - d
      /\ StoredInTraceOrder'
      /\ ~prog_full' => Level' <= ProgFull
      /\ Level + Pushed <= FifoDepth
      /\ Level \in Int /\ Level' \in Int /\ Pushed \in Int /\ FifoDepth \in Int
  BY ClockFifo DEF ClockEdge
<1>6. Handed' = stored' /\ Pushed' = 0
  BY <1>1 DEF Handed, Pushed
<1>7. start => sw = "started" /\ stored' = <<>>
  BY <1>5 DEF IInv, TypeOK, PhaseInv, Handed
<1>8. PhaseInv'
  <2>1. sw \in {"configured", "started"} => stored' = <<>>
    BY <1>5 DEF IInv, PhaseInv, Handed
  <2> QED
    BY <1>1, <1>2, <1>3, <1>4, <1>5, <1>6, <1>7, <2>1 DEF IInv, PhaseInv
<1>9. RingInv' /\ BurstInv'
  BY <1>1, <1>2, <1>4, <1>7, <1>0, MemReadAssumption, RingAssumption
     DEF IInv, PhaseInv, RingInv, BurstInv, Offset,
     Written, Slots, TypeOK, MemReadTypeOK
<1>10. FifoInv'
  <2>1. Level' + Pushed' <= FifoDepth
    BY <1>5, <1>6 
  <2>2. mr_state' # "IDLE" => Len(Handed') = read_cntr'
    BY <1>2, <1>6, <1>7
  <2> QED
    BY <1>1, <1>2, <1>5, <2>1, <2>2 DEF FifoInv
<1> QED
  BY <1>0, <1>8, <1>9, <1>10 DEF IInv

LEMMA ClockWait ==
  ASSUME IInv, NEW arready \in BOOLEAN, NEW deliver \in BOOLEAN,
         NEW drain \in BOOLEAN, ClockEdge(arready, deliver, drain), ~rst, mr_state = "WAIT"
  PROVE  IInv'
<1>0. TypeOK'
  BY ClockTypes DEF IInv
<1>1. /\ ~deliver /\ ~fifo_wr_en' /\ mr_active' /\ ~start' /\ ~rst'
      /\ UNCHANGED <<rst, sw, sent, chunk, mem, trace_size, addr_wr, axi_buf>>
  BY ClockBeat
<1> DEFINE n == Grant(addr_wr, trace_size, prog_full)
<1>2. /\ mr_state' = IF n = 0 THEN "WAIT" ELSE "REQ"
      /\ arlen' = IF n = 0 THEN arlen ELSE n - 1
      /\ arvalid' = (n # 0)
      /\ UNCHANGED <<addr_rd, read_cntr, araddr>>
  BY Zenon DEF ClockEdge, MemReadClock, MrIdle, MrWait, MrReq, MrRead, MrGoto
<1>3. n # 0 => /\ n \in 1 .. BurstLen
               /\ addr_rd + n <= RingSize
               /\ read_cntr + n <= sent
               /\ ~prog_full
               /\ addr_rd # addr_wr
  BY RequestFits DEF Grant
<1> HIDE DEF n
<1>4. AxiQuiet /\ ~arvalid /\ UNCHANGED <<axi_addr, axi_left>>
  BY DEF IInv, BurstInv, ClockEdge, AxiClock
<1>5. /\ stored' = Handed
      /\ Len(stored') = Len(stored) + Pushed
      /\ \E d \in 0 .. 1 : Level' = Level + Pushed - d
      /\ StoredInTraceOrder'
      /\ ~prog_full' => Level' <= ProgFull
      /\ Level + Pushed <= FifoDepth
      /\ Level \in Int /\ Level' \in Int /\ Pushed \in Int /\ FifoDepth \in Int
  BY ClockFifo DEF ClockEdge
<1>6. Handed' = stored' /\ Pushed' = 0
  BY <1>1 DEF Handed, Pushed
<1>7. AxiQuiet'
  BY <1>1, <1>4 DEF AxiQuiet
<1>8. PhaseInv'
  <2>1. sw \notin {"idle", "configured"} /\ ~start
    BY DEF IInv, TypeOK, PhaseInv
  <2>2. sw = "started" => stored' = <<>>
    BY <1>5 DEF IInv, PhaseInv, Handed
  <2>3. sw = "started" => n = 0
    BY <1>3 DEF IInv, PhaseInv
  <2> QED
    BY <1>1, <1>2, <2>1, <2>2, <2>3 DEF IInv, PhaseInv
<1>9. RingInv'
  BY <1>1, <1>2, <1>0 DEF IInv, RingInv, Offset, Written
<1>10. BurstInv'
  <2>1. mr_state' \in {"WAIT", "REQ"}
    BY <1>2
  <2>2. mr_state' = "WAIT" => ~arvalid' /\ AxiQuiet'
    BY <1>2, <1>7
  <2>3. mr_state' = "REQ" => arvalid' /\ arlen' = n - 1 /\ n # 0
    BY <1>2
  <2>4. ASSUME mr_state' = "REQ"
        PROVE  addr_rd' + arlen' < RingSize /\ read_cntr' + arlen' + 1 <= sent'
    <3>1. n \in Int /\ addr_rd + n <= RingSize /\ read_cntr + n <= sent
      BY <1>3, <2>3, <2>4
    <3>2. arlen' = n - 1 /\ addr_rd' = addr_rd /\ read_cntr' = read_cntr /\ sent' = sent
      BY <1>1, <1>2, <2>3, <2>4
    <3>3. addr_rd \in Int /\ read_cntr \in Int /\ sent \in Int /\ RingSize \in Int
      BY MemReadAssumption, RingAssumption DEF IInv, TypeOK, MemReadTypeOK, Slots
    <3> QED
      BY <3>1, <3>2, <3>3
  <2> QED
    BY <1>7, <2>1, <2>2, <2>3, <2>4 DEF BurstInv
<1>11. FifoInv'
  <2>1. Level' + Pushed' <= FifoDepth
    BY <1>5, <1>6 
  <2>2. Len(Handed') = read_cntr'
    BY <1>2, <1>5, <1>6 DEF IInv, FifoInv
  <2>3. mr_state' = "REQ" => Level' + Pushed' + arlen' + 1 <= FifoDepth
    <3> SUFFICES ASSUME mr_state' = "REQ"
                 PROVE  Level' + Pushed' + arlen' + 1 <= FifoDepth
      OBVIOUS
    <3>1. n # 0 /\ arlen' = n - 1
      BY <1>2
    <3>2. Level <= ProgFull
      BY <1>3, <3>1 DEF IInv, FifoInv
    <3>3. Level + Pushed + n <= FifoDepth
      BY <1>3, <1>5, <3>1, <3>2, RingAssumption, MemReadAssumption DEF Pushed
    <3> QED
      BY <1>3, <1>5, <1>6, <3>1, <3>3
  <2>4. mr_state' # "READ"
    BY <1>2
  <2> QED
    BY <1>1, <1>5, <2>1, <2>2, <2>3, <2>4 DEF FifoInv
<1> QED
  BY <1>0, <1>8, <1>9, <1>10, <1>11 DEF IInv

LEMMA ClockReq ==
  ASSUME IInv, NEW arready \in BOOLEAN, NEW deliver \in BOOLEAN,
         NEW drain \in BOOLEAN, ClockEdge(arready, deliver, drain), ~rst, mr_state = "REQ"
  PROVE  IInv'
<1>0. TypeOK'
  BY ClockTypes DEF IInv
<1>1. /\ ~deliver /\ ~fifo_wr_en' /\ mr_active' /\ ~start' /\ ~rst'
      /\ UNCHANGED <<rst, sw, sent, chunk, mem, trace_size, addr_wr, axi_buf>>
  BY ClockBeat
<1>2. /\ mr_state' = IF arready THEN "READ" ELSE "REQ"
      /\ arvalid' = ~arready
      /\ UNCHANGED <<addr_rd, read_cntr, araddr, arlen>>
  BY DEF IInv, BurstInv, ClockEdge, MemReadClock, MrIdle, MrWait, MrReq, MrRead, MrGoto
<1>3. AxiQuiet /\ ~axi_buf.valid /\ axi_left = 0
  BY DEF IInv, BurstInv, AxiQuiet
<1>4. IF arready THEN axi_addr' = araddr /\ axi_left' = arlen + 1
                 ELSE UNCHANGED <<axi_addr, axi_left>>
  BY DEF IInv, BurstInv, ClockEdge, AxiClock
<1>5. /\ stored' = Handed
      /\ Len(stored') = Len(stored) + Pushed
      /\ \E d \in 0 .. 1 : Level' = Level + Pushed - d
      /\ StoredInTraceOrder'
      /\ ~prog_full' => Level' <= ProgFull
      /\ Level + Pushed <= FifoDepth
      /\ Level \in Int /\ Level' \in Int /\ Pushed \in Int /\ FifoDepth \in Int
  BY ClockFifo DEF ClockEdge
<1>6. Handed' = stored' /\ Pushed' = 0
  BY <1>1 DEF Handed, Pushed
<1>7. sw \in {"write", "copy", "publish"} /\ ~start
  BY DEF IInv, TypeOK, PhaseInv
<1>8. PhaseInv'
  BY <1>1, <1>2, <1>7 DEF IInv, PhaseInv
<1>9. RingInv'
  BY <1>1, <1>2, <1>0 DEF IInv, RingInv, Offset, Written
<1>10. BurstInv'
  <2>1. CASE arready
    BY <1>0, <1>1, <1>2, <1>3, <1>4, <2>1, MemReadAssumption, RingAssumption DEF BurstInv, IInv, RingInv, TypeOK,
       MemReadTypeOK, Slots, Owed, Pushed, Fetched
  <2>2. CASE ~arready
    BY <1>1, <1>2, <1>3, <1>4, <2>2 DEF BurstInv, IInv, AxiQuiet
  <2> QED
    BY <2>1, <2>2
<1>11. FifoInv'
  <2>1. Level' + Pushed' <= FifoDepth
    BY <1>5, <1>6 
  <2>2. Len(Handed') = read_cntr'
    BY <1>2, <1>5, <1>6 DEF IInv, FifoInv
  <2>3. Level + Pushed + arlen + 1 <= FifoDepth /\ arlen \in Int
    BY DEF IInv, FifoInv, TypeOK, MemReadTypeOK
  <2>5. mr_state' = "REQ" => Level' + Pushed' + arlen' + 1 <= FifoDepth
    BY <1>2, <1>5, <2>3, <1>6
  <2>6. mr_state' = "READ" => Owed' = arlen + 1
    BY <1>1, <1>2, <1>3, <1>4 DEF Owed, Pushed, Fetched, IInv, TypeOK, MemReadTypeOK
  <2>7. mr_state' = "READ" => Level' + Pushed' + Owed' <= FifoDepth
    BY <1>5, <2>3, <1>6, <2>6
  <2> QED
    BY <1>1, <1>5, <2>1, <2>2, <2>5, <2>7 DEF FifoInv
<1> QED
  BY <1>0, <1>8, <1>9, <1>10, <1>11 DEF IInv

LEMMA ClockRead ==
  ASSUME IInv, NEW arready \in BOOLEAN, NEW deliver \in BOOLEAN,
         NEW drain \in BOOLEAN, ClockEdge(arready, deliver, drain), ~rst, mr_state = "READ"
  PROVE  IInv'
<1>0. TypeOK'
  BY ClockTypes DEF IInv
<1>1. /\ fifo_wr_en' = deliver /\ mr_active' /\ ~start' /\ ~rst'
      /\ deliver => axi_buf.valid /\ axi_buf.last = (axi_left = 0)
                    /\ fifo_din' = read_cntr
      /\ axi_buf' = IF deliver THEN NoBeat ELSE axi_buf
      /\ UNCHANGED <<rst, sw, sent, chunk, mem, trace_size, addr_wr>>
  BY ClockBeat
<1>2. /\ ~arvalid' /\ ~arvalid
      /\ UNCHANGED <<arlen, axi_addr, axi_left>>
  BY DEF IInv, BurstInv, ClockEdge, AxiClock, MemReadClock, MrIdle, MrWait, MrReq, MrRead
<1>3. sw \in {"write", "copy", "publish"} /\ ~start
  BY DEF IInv, TypeOK, PhaseInv
<1>4. /\ stored' = Handed
      /\ Len(stored') = Len(stored) + Pushed
      /\ \E d \in 0 .. 1 : Level' = Level + Pushed - d
      /\ StoredInTraceOrder'
      /\ ~prog_full' => Level' <= ProgFull
      /\ Level \in Int /\ Level' \in Int /\ Pushed \in Int /\ FifoDepth \in Int
  BY ClockFifo DEF ClockEdge
<1>5. CASE ~deliver
  <2>1. UNCHANGED <<mr_state, addr_rd, read_cntr, araddr, axi_buf>>
    BY <1>1, <1>5 DEF ClockEdge, MemReadClock, MrIdle, MrWait, MrReq, MrRead, MrGoto, NoBeat
  <2>2. Handed' = stored' /\ Pushed' = 0
    BY <1>1, <1>5 DEF Handed, Pushed
  <2>3. PhaseInv'
    BY <1>1, <1>2, <1>3, <2>1 DEF IInv, PhaseInv
  <2>4. RingInv'
    BY <1>1, <2>1 DEF IInv, RingInv, Offset, Written
  <2>5. BurstInv'
    BY <1>1, <1>2, <2>1 DEF IInv, BurstInv, Owed, Fetched
  <2>6. FifoInv'
    <3>1. Level + Pushed + Owed <= FifoDepth /\ Owed \in Nat
      BY DEF IInv, FifoInv, TypeOK, Owed, Fetched
    <3>2. Owed' = Owed
      BY <1>2, <2>1 DEF Owed, Fetched
    <3>3. Level' + Pushed' + Owed' <= FifoDepth
      BY <1>4, <2>2, <3>1, <3>2
    <3>4. Level' + Pushed' <= FifoDepth
      BY <1>4, <2>2, <3>1
    <3>5. Len(Handed') = read_cntr'
      BY <1>4, <2>1, <2>2 DEF IInv, FifoInv
    <3> QED
      BY <1>1, <1>4, <1>5, <2>1, <3>3, <3>4, <3>5 DEF FifoInv
  <2> QED
    BY <1>0, <2>3, <2>4, <2>5, <2>6 DEF IInv
<1>6. CASE deliver
  <2>1. /\ read_cntr' = read_cntr + 1
        /\ addr_rd' = IF addr_rd = RingSize - 1 THEN 0 ELSE addr_rd + 1
        /\ araddr' = IF araddr = RingSize - 1 THEN 0 ELSE araddr + 1
        /\ mr_state' = IF axi_left # 0 THEN "READ"
                       ELSE IF read_cntr + 1 = trace_size THEN "IDLE" ELSE "WAIT"
    BY <1>1, <1>6 DEF ClockEdge, MemReadClock, MrIdle, MrWait, MrReq, MrRead,
       MrGoto, NextSlot, TraceEnds
  <2>2. ~axi_buf'.valid /\ fifo_wr_en' /\ fifo_din' = read_cntr
    BY <1>1, <1>6 DEF NoBeat
  <2>3. /\ Owed = axi_left + 1 /\ Owed' = axi_left
        /\ Pushed' = 1
    BY <1>1, <1>2, <1>6, <2>2 DEF Owed, Pushed, Fetched, IInv, TypeOK
  <2>4. /\ addr_rd \in 0 .. RingSize - 1 /\ addr_wr \in 0 .. RingSize - 1
        /\ RingSize \in Nat
        /\ read_cntr \in Nat /\ sent \in Nat /\ trace_size \in Nat
        /\ axi_left \in Nat
        /\ araddr = addr_rd
        /\ read_cntr < trace_size
        /\ Written <= trace_size
        /\ addr_rd + axi_left + 1 <= RingSize
        /\ read_cntr + axi_left + 1 <= sent
        /\ axi_addr = addr_rd + 1
    BY <1>1, <1>6, <2>3, MemReadAssumption, RingAssumption
       DEF IInv, TypeOK, MemReadTypeOK, RingInv, BurstInv, Slots, Fetched
  <2>5. /\ chunk \in Nat
        /\ sw \in {"copy", "publish"} => chunk > 0 /\ sent + chunk <= trace_size
    BY RingAssumption DEF IInv, TypeOK, RingInv
  <2>6. Len(Handed') = read_cntr + 1
    <3>1. Len(stored') = read_cntr
      BY <1>4 DEF IInv, FifoInv
    <3>2. Handed' = Append(stored', fifo_din')
      BY <2>2 DEF Handed
    <3>3. stored' \in Seq(Int)
      BY <1>0 DEF TypeOK
    <3> QED
      BY <3>1, <3>2, <3>3
  <2>7. mr_state' = "IDLE" => sw = "write" /\ sent = trace_size
                              /\ read_cntr + 1 = trace_size /\ axi_left = 0
    BY <1>3, <2>1, <2>4, <2>5 DEF Written
  <2>8. PhaseInv'
    <3>1. AxiQuiet' <=> axi_left = 0
      BY <1>2, <2>2 DEF AxiQuiet
    <3> QED
      BY <1>1, <1>2, <1>3, <2>6, <2>7, <3>1 DEF IInv, PhaseInv
  <2>9. mr_state' # "IDLE" => read_cntr + 1 < trace_size
    BY <2>1, <2>4, <2>5, <1>3 DEF Written
  <2>10. RingInv'
    <3> SUFFICES ASSUME mr_state' # "IDLE" PROVE RingInv'
      BY DEF RingInv
    <3>1. araddr' = addr_rd' /\ read_cntr' < trace_size'
      BY <1>1, <2>1, <2>4, <2>9
    <3>2. Written' = Written /\ Written \in Nat
      BY <1>1, <2>4, <2>5 DEF Written
    <3>3. sent - read_cntr = IF addr_wr >= addr_rd THEN addr_wr - addr_rd
                                                   ELSE RingSize - addr_rd + addr_wr
      BY DEF IInv, RingInv
    <3>4. sent' - read_cntr' = IF addr_wr' >= addr_rd' THEN addr_wr' - addr_rd'
                                                       ELSE RingSize - addr_rd' + addr_wr'
      BY <1>1, <2>1, <2>4, <3>3
    <3>5. sw \in {"copy", "publish"} =>
             /\ chunk > 0
             /\ addr_wr + chunk <= RingSize
             /\ sent + chunk <= trace_size
             /\ sent + chunk - read_cntr < RingSize
      BY DEF IInv, RingInv
    <3>6. sw' \in {"copy", "publish"} => sent' + chunk' - read_cntr' < RingSize
      BY <1>1, <2>1, <2>4, <2>5, <3>5
    <3>7. Written - read_cntr <= RingSize
      BY <2>4, <2>5, <3>3, <3>5 DEF Written
    <3>8. ASSUME NEW i \in Slots, Offset(i)' < Written' - read_cntr'
          PROVE  mem'[i] = read_cntr' + Offset(i)'
      <4>1. Offset(i) = Offset(i)' + 1
        BY <2>1, <2>4, <3>2, <3>7, <3>8 DEF Offset, Slots
      <4>2. Offset(i) < Written - read_cntr /\ Offset(i) \in Int
        BY <2>1, <2>4, <3>2, <3>8, <4>1 DEF Offset, Slots
      <4>3. mem[i] = read_cntr + Offset(i)
        BY <4>2 DEF IInv, RingInv
      <4> QED
        BY <1>1, <2>1, <2>4, <4>1, <4>3 DEF Offset, Slots
    <3> QED
      BY <1>1, <2>4, <3>1, <3>2, <3>4, <3>5, <3>6, <3>8 DEF RingInv
  <2>11. BurstInv'
    <3>1. mr_state' = "WAIT" => AxiQuiet'
      BY <1>2, <2>1, <2>2 DEF AxiQuiet
    <3>2. mr_state' = "READ" => /\ axi_left > 0
                                /\ addr_rd' = addr_rd + 1
      BY <2>1, <2>4
    <3>3. mr_state' = "READ" => axi_addr' = addr_rd' + Fetched'
      BY <1>2, <2>2, <2>4, <3>2 DEF Fetched
    <3> QED
      BY <1>1, <1>2, <2>1, <2>2, <2>3, <2>4, <3>1, <3>2, <3>3 DEF BurstInv
  <2>12. FifoInv'
    <3>1. Level + Pushed + axi_left + 1 <= FifoDepth /\ axi_left \in Int
      <4>1. Level + Pushed + Owed <= FifoDepth
        BY DEF IInv, FifoInv
      <4> QED
        BY <1>4, <2>3, <2>4, <4>1
    <3>2. Level' + Pushed' + Owed' <= FifoDepth
      BY <1>4, <2>3, <3>1
    <3>3. Level' + Pushed' <= FifoDepth
      BY <1>4, <2>3, <2>4, <3>1
    <3>4. fifo_din' = Len(stored')
      BY <1>4, <2>2 DEF IInv, FifoInv
    <3> QED
      BY <1>1, <1>4, <2>1, <2>6, <3>2, <3>3, <3>4 DEF FifoInv
  <2> QED
    BY <1>0, <2>8, <2>10, <2>11, <2>12 DEF IInv
<1> QED
  BY <1>5, <1>6

LEMMA NextStep == ASSUME IInv, [Next]_vars PROVE IInv'
<1>1. CASE Clock
  <2>1. PICK arready \in BOOLEAN, deliver \in BOOLEAN, drain \in BOOLEAN :
             ClockEdge(arready, deliver, drain)
    BY <1>1 DEF Clock
  <2>2. mr_state \in {"IDLE", "WAIT", "REQ", "READ"}
    BY DEF IInv, TypeOK, MemReadTypeOK
  <2> QED
    BY <2>1, <2>2, ClockReset, ClockIdle, ClockWait, ClockReq, ClockRead
<1>2. CASE AxiFetch
  BY <1>2, FetchStep
<1>3. CASE Software
  BY <1>3, ConfigureStep, StartStep, SeeActiveStep, SampleStep, CopyStep,
     PublishStep, FinishStep, ResetStep, ReleaseStep DEF Software
<1>4. CASE UNCHANGED vars
  <2>1. UNCHANGED <<Level, Handed, Pushed, Fetched, Owed, Written>>
    BY <1>4 DEF vars, mrVars, regVars, swVars, axiVars, fifoVars, Level, Handed,
       Pushed, Fetched, Owed, Written
  <2>2. UNCHANGED <<mrVars, regVars, swVars, mem, axiVars, fifoVars>>
    BY <1>4 DEF vars
  <2>3. TypeOK'
    BY <2>2 DEF IInv, TypeOK, MemReadTypeOK, mrVars, regVars, swVars, axiVars, fifoVars
  <2>4. PhaseInv'
    BY <2>1, <2>2 DEF IInv, PhaseInv, AxiQuiet, mrVars, regVars, swVars, axiVars, fifoVars
  <2>5. RingInv'
    BY <2>1, <2>2 DEF IInv, RingInv, Offset, mrVars, regVars, swVars
  <2>6. BurstInv'
    BY <2>1, <2>2 DEF IInv, BurstInv, AxiQuiet, mrVars, regVars, swVars, axiVars
  <2>7. FifoInv'
    BY <2>1, <2>2 DEF IInv, FifoInv, StoredInTraceOrder, mrVars, regVars, fifoVars
  <2> QED
    BY <2>3, <2>4, <2>5, <2>6, <2>7 DEF IInv
<1> QED
  BY <1>1, <1>2, <1>3, <1>4 DEF Next

-----------------------------------------------------------------------------
(* The inductive invariant holds in every reachable state.                 *)
THEOREM RingInvariant == Spec => []IInv
BY InitIInv, NextStep, PTL DEF Spec

(* Type correctness of the ring buffer path.                               *)
THEOREM RingTypes == Spec => []TypeOK
<1>1. IInv => TypeOK
  BY DEF IInv
<1> QED
  BY <1>1, RingInvariant, PTL

(* The FIFO receives the trace in order and without a loss or a repeat,    *)
(* for every ring, burst, transfer and trace size.                         *)
THEOREM TraceOrder == Spec => []StoredInTraceOrder
<1>1. IInv => StoredInTraceOrder
  BY DEF IInv, FifoInv
<1> QED
  BY <1>1, RingInvariant, PTL

(* The programmable full threshold protects the FIFO whenever it leaves    *)
(* room for a burst and one beat: RingAssumption is what is needed.        *)
THEOREM NoOverflow == Spec => []FifoNeverOverflows
<1>1. IInv => FifoNeverOverflows
  <2> SUFFICES ASSUME IInv, fifo_wr_en PROVE Level < FifoDepth
    BY DEF FifoNeverOverflows
  <2>1. Level + Pushed <= FifoDepth /\ Pushed = 1
    BY DEF IInv, FifoInv, Pushed
  <2>2. Level \in Int /\ FifoDepth \in Int
    BY RingAssumption DEF IInv, TypeOK, Level
  <2> QED
    BY <2>1, <2>2
<1> QED
  BY <1>1, RingInvariant, PTL

(* Every requested burst stays inside the ring and reads published data.   *)
THEOREM BurstsArePublished == Spec => []BurstIsPublished
<1>1. IInv => BurstIsPublished
  BY DEF IInv, TypeOK, MemReadTypeOK, RingInv, BurstInv, BurstIsPublished
<1> QED
  BY <1>1, RingInvariant, PTL

(* The two pointers always tell how much of the trace waits in the ring.   *)
THEOREM PointersSound == Spec => []PointersTellFill
<1>1. IInv => PointersTellFill
  BY DEF IInv, RingInv, PointersTellFill
<1> QED
  BY <1>1, RingInvariant, PTL

-----------------------------------------------------------------------------
(* Steps that touch neither the ring nor the read pointer.                 *)
LEMMA SlotsKept ==
  ASSUME SlotInv, UNCHANGED <<rst, mem, mr_state, addr_rd, read_cntr>>,
         sw' \in {"idle", "configured", "started"} =>
           sw \in {"idle", "configured", "started"}
  PROVE  SlotInv'
BY DEF SlotInv, Offset

(* A copy puts the beats it writes into their slots.                       *)
LEMMA SlotsCopied == ASSUME IInv, SlotInv, SwCopy PROVE SlotInv'
<1>1. /\ ~rst /\ rst' = rst /\ sw' = "publish" /\ mr_state # "IDLE"
      /\ UNCHANGED <<mr_state, addr_rd, read_cntr>>
  BY DEF IInv, PhaseInv, SwCopy, regVars, mrVars
<1>2. /\ RingSize \in Nat /\ addr_rd \in Slots /\ addr_wr \in Slots
      /\ sent \in Nat /\ read_cntr \in Nat /\ chunk \in Nat
      /\ sent - read_cntr = IF addr_wr >= addr_rd THEN addr_wr - addr_rd
                                                  ELSE RingSize - addr_rd + addr_wr
      /\ addr_wr + chunk <= RingSize
      /\ sent + chunk - read_cntr < RingSize
  BY <1>1, MemReadAssumption, RingAssumption
     DEF IInv, TypeOK, MemReadTypeOK, RingInv, SwCopy, Slots
<1>3. ASSUME NEW i \in Slots, mem'[i] >= read_cntr
      PROVE  mem'[i] = read_cntr + Offset(i)
  <2>1. CASE i \in addr_wr .. addr_wr + chunk - 1
    <3>1. mem'[i] = sent + (i - addr_wr)
      BY <2>1 DEF SwCopy
    <3> QED
      BY <1>2, <2>1, <3>1 DEF Offset, Slots
  <2>2. CASE i \notin addr_wr .. addr_wr + chunk - 1
    <3>1. mem'[i] = mem[i]
      BY <2>2 DEF SwCopy
    <3> QED
      BY <1>1, <1>3, <3>1 DEF SlotInv
  <2> QED
    BY <2>1, <2>2
<1> QED
  BY <1>1, <1>3 DEF SlotInv, Offset

(* A delivered beat moves the read pointer and the counter together.       *)
LEMMA SlotsClocked ==
  ASSUME IInv, SlotInv, NEW arready \in BOOLEAN, NEW deliver \in BOOLEAN,
         NEW drain \in BOOLEAN, ClockEdge(arready, deliver, drain)
  PROVE  SlotInv'
<1>1. UNCHANGED <<rst, sw, mem>>
  BY DEF ClockEdge, swVars
<1>2. CASE rst
  BY <1>1, <1>2 DEF SlotInv
<1>3. CASE ~rst /\ mr_state = "IDLE"
  <2>1. mr_state' = IF start THEN "WAIT" ELSE "IDLE"
    BY <1>3 DEF ClockEdge, MemReadClock, MrIdle, MrWait, MrReq, MrRead, MrGoto
  <2>2. start => sw = "started"
    BY <1>3 DEF IInv, TypeOK, PhaseInv
  <2>3. read_cntr' \in Nat
    BY <1>3 DEF ClockEdge, MemReadClock, MrIdle, MrWait, MrReq, MrRead
  <2>4. start => \A i \in Slots : mem'[i] < read_cntr'
    BY <1>1, <1>3, <2>2, <2>3 DEF SlotInv, NoData
  <2>5. \A i \in Slots : mem'[i] \in Int
    BY <1>1 DEF IInv, TypeOK
  <2>6. start => \A i \in Slots : ~(mem'[i] >= read_cntr')
    BY <2>3, <2>4, <2>5
  <2> QED
    BY <1>1, <1>3, <2>1, <2>6 DEF SlotInv
<1>4. CASE ~rst /\ mr_state # "IDLE"
  <2>1. \/ UNCHANGED <<addr_rd, read_cntr>>
        \/ /\ read_cntr' = read_cntr + 1
           /\ addr_rd' = NextSlot(addr_rd)
    BY <1>4 DEF ClockEdge, MemReadClock, MrIdle, MrWait, MrReq, MrRead
  <2>2. CASE UNCHANGED <<addr_rd, read_cntr>>
    BY <1>1, <1>4, <2>2 DEF SlotInv, Offset
  <2>3. CASE read_cntr' = read_cntr + 1 /\ addr_rd' = NextSlot(addr_rd)
    <3>1. /\ RingSize \in Nat /\ addr_rd \in Slots /\ read_cntr \in Nat
          /\ \A i \in Slots : mem[i] \in Int
      BY MemReadAssumption, RingAssumption DEF IInv, TypeOK, MemReadTypeOK, Slots
    <3>2. ASSUME NEW i \in Slots, mem[i] >= read_cntr + 1
          PROVE  mem[i] = read_cntr + 1 + Offset(i)'
      <4>1. mem[i] = read_cntr + Offset(i)
        BY <1>4, <3>1, <3>2 DEF SlotInv
      <4>2. Offset(i) # 0
        BY <3>1, <3>2, <4>1
      <4>3. Offset(i) = Offset(i)' + 1
        BY <2>3, <3>1, <4>2 DEF Offset, NextSlot, Slots
      <4>4. addr_rd' \in Int
        BY <2>3, <3>1 DEF NextSlot, Slots
      <4>5. Offset(i)' \in Int
        BY <3>1, <4>4 DEF Offset, Slots
      <4> QED
        BY <3>1, <4>1, <4>3, <4>5
    <3> QED
      BY <1>1, <1>4, <2>3, <3>2 DEF SlotInv, Offset
  <2> QED
    BY <2>1, <2>2, <2>3
<1> QED
  BY <1>2, <1>3, <1>4

LEMMA SlotsStep == ASSUME IInv, SlotInv, [Next]_vars PROVE SlotInv'
<1> USE DEF mrVars, regVars, swVars, axiVars, fifoVars
<1>1. CASE Clock
  BY <1>1, SlotsClocked DEF Clock
<1>2. CASE AxiFetch \/ UNCHANGED vars
  BY <1>2, SlotsKept DEF AxiFetch, vars
<1>3. CASE SwConfigure \/ SwStart \/ SwSeeActive \/ SwSample \/ SwPublish
  BY <1>3, SlotsKept DEF SwConfigure, SwStart, SwSeeActive, SwSample, SwPublish
<1>4. CASE SwCopy
  BY <1>4, SlotsCopied
<1>5. CASE SwFinish
  <2>1. mr_state' = "IDLE" \/ rst'
    BY <1>5 DEF SwFinish, IInv, PhaseInv, TypeOK, FifoInv, RingInv, Written
  <2> QED
    BY <1>5, <2>1 DEF SwFinish, SlotInv
<1>6. CASE SwReset
  BY <1>6 DEF SwReset, SlotInv
<1>7. CASE SwRelease
  BY <1>7 DEF SwRelease, SlotInv
<1> QED
  BY <1>1, <1>2, <1>3, <1>4, <1>5, <1>6, <1>7 DEF Next, Software

(* A transfer decided on an old read pointer never reuses the slot of a    *)
(* beat that is still to be read, whatever the core read in the meantime.  *)
THEOREM UnreadKept == Spec => NoUnreadOverwritten
<1>1. Init => SlotInv
  BY DEF Init, MemReadInit, SlotInv
<1>2. Spec => [](IInv /\ SlotInv)
  BY <1>1, InitIInv, NextStep, SlotsStep, PTL DEF Spec
<1> DEFINE Kept == \A i \in Slots :
                     (mem[i] >= read_cntr /\ mem[i] < sent) => mem'[i] = mem[i]
<1>3. ASSUME IInv, SlotInv, SwCopy PROVE Kept
  <2>1. ~rst /\ mr_state # "IDLE"
    BY <1>3 DEF IInv, PhaseInv, SwCopy
  <2>2. /\ RingSize \in Nat /\ addr_rd \in Slots /\ addr_wr \in Slots
        /\ sent \in Nat /\ read_cntr \in Nat /\ chunk \in Nat
        /\ sent - read_cntr = IF addr_wr >= addr_rd THEN addr_wr - addr_rd
                                                    ELSE RingSize - addr_rd + addr_wr
        /\ sent + chunk - read_cntr < RingSize
    BY <1>3, <2>1, MemReadAssumption, RingAssumption
       DEF IInv, TypeOK, MemReadTypeOK, RingInv, SwCopy, Slots
  <2>3. ASSUME NEW i \in Slots, mem[i] >= read_cntr, mem[i] < sent
        PROVE  i \notin addr_wr .. addr_wr + chunk - 1
    <3>1. mem[i] = read_cntr + Offset(i)
      BY <1>3, <2>1, <2>3 DEF SlotInv
    <3> QED
      BY <2>2, <2>3, <3>1 DEF Offset, Slots
  <2> QED
    BY <1>3, <2>3 DEF SwCopy
<1>4. IInv /\ SlotInv /\ [Next]_vars => [SwCopy => Kept]_vars
  BY <1>3
<1> QED
  BY <1>2, <1>4, PTL DEF Spec, NoUnreadOverwritten

-----------------------------------------------------------------------------
(* Steps the abstract stream does not see.                                 *)
LEMMA StreamStutter ==
  ASSUME UNCHANGED <<StreamActive, trace_size, sent, StreamDelivered>>
  PROVE  [Stream!Next]_(Stream!svars)
BY DEF Stream!svars

(* A clock edge delivers a beat or is not seen.                            *)
LEMMA StreamClock ==
  ASSUME IInv, NEW arready \in BOOLEAN, NEW deliver \in BOOLEAN,
         NEW drain \in BOOLEAN, ClockEdge(arready, deliver, drain)
  PROVE  [Stream!Next]_(Stream!svars)
<1>1. UNCHANGED <<trace_size, sent, rst>>
  BY DEF ClockEdge, swVars
<1>2. CASE rst
  <2>1. UNCHANGED <<StreamActive, StreamDelivered>>
    BY <1>1, <1>2 DEF StreamActive, StreamDelivered
  <2> QED
    BY <1>1, <2>1, StreamStutter
<1>3. CASE ~rst /\ ~deliver
  <2>1. ~fifo_wr_en' /\ ~start'
    BY <1>3, ClockBeat
  <2>2. stored' = Handed
    BY <1>3, ClockFifo DEF ClockEdge
  <2>3. StreamDelivered' = StreamDelivered
    BY <1>1, <1>3, <2>1, <2>2 DEF StreamDelivered, Handed
  <2>4. mr_state # "IDLE" => ~start
    BY <1>3 DEF IInv, TypeOK, PhaseInv
  <2>5. mr_state' # "IDLE" <=> start \/ mr_state # "IDLE"
    <3>1. CASE mr_state = "IDLE"
      BY <1>3, <3>1 DEF ClockEdge, MemReadClock, MrIdle, MrWait, MrReq, MrRead, MrGoto
    <3>2. CASE mr_state \in {"WAIT", "REQ"}
      BY <1>3, <3>2 DEF ClockEdge, MemReadClock, MrIdle, MrWait, MrReq, MrRead, MrGoto
    <3>3. CASE mr_state = "READ"
      BY <1>3, <3>3 DEF ClockEdge, MemReadClock, MrIdle, MrWait, MrReq, MrRead, MrGoto, NoBeat
    <3> QED
      BY <3>1, <3>2, <3>3 DEF IInv, TypeOK, MemReadTypeOK
  <2>6. StreamActive' <=> StreamActive
    BY <1>1, <2>1, <2>5 DEF StreamActive
  <2>7. StreamActive' = StreamActive
    BY <2>6 DEF StreamActive
  <2> QED
    BY <1>1, <2>3, <2>7, StreamStutter
<1>4. CASE ~rst /\ deliver
  <2>1. /\ mr_state = "READ" /\ fifo_wr_en' /\ ~start' /\ axi_buf.valid
        /\ fifo_din' = read_cntr /\ axi_buf.last = (axi_left = 0)
    BY <1>4, ClockBeat
  <2>2. stored' = Handed
    BY <1>4, ClockFifo DEF ClockEdge
  <2>3. Len(Handed) = read_cntr
    BY <1>4, <2>1 DEF IInv, FifoInv
  <2>4. Handed' = Append(Handed, Len(Handed))
    BY <2>1, <2>2, <2>3 DEF Handed
  <2>5. mr_state' = IF axi_left # 0 THEN "READ"
                    ELSE IF read_cntr + 1 = trace_size THEN "IDLE" ELSE "WAIT"
    BY <1>4, <2>1 DEF ClockEdge, MemReadClock, MrIdle, MrWait, MrReq, MrRead,
       MrGoto, TraceEnds
  <2>6. /\ read_cntr \in Nat /\ sent \in Nat /\ trace_size \in Nat /\ axi_left \in Nat
        /\ read_cntr + axi_left + 1 <= sent
    BY <1>4, <2>1, RingAssumption
       DEF IInv, TypeOK, MemReadTypeOK, BurstInv, Owed, Fetched
  <2>7. sent <= trace_size
    BY <1>4, <2>1, <2>6, RingAssumption DEF IInv, TypeOK, RingInv, Written
  <2>8. mr_state' # "IDLE" <=> Len(Handed) + 1 # trace_size
    BY <2>3, <2>5, <2>6, <2>7
  <2>9. StreamActive /\ Len(StreamDelivered) < sent
    BY <1>4, <2>1, <2>3, <2>6 DEF StreamActive, StreamDelivered
  <2>10. StreamDelivered' = Append(StreamDelivered, Len(StreamDelivered))
    BY <1>1, <1>4, <2>4 DEF StreamDelivered
  <2>11. StreamActive' <=> Len(StreamDelivered) + 1 # trace_size
    BY <1>1, <1>4, <2>1, <2>8 DEF StreamActive, StreamDelivered
  <2>12. StreamActive' = (Len(StreamDelivered) + 1 # trace_size)
    BY <2>11 DEF StreamActive
  <2>13. Stream!Deliver
    BY <1>1, <2>9, <2>10, <2>12 DEF Stream!Deliver
  <2> QED
    BY <2>13 DEF Stream!Next
<1> QED
  BY <1>2, <1>3, <1>4

(* Every step of the ring buffer path is one of the abstract stream, or is *)
(* not seen: configuring, starting, publishing and resetting are, and so   *)
(* is the clock edge that delivers a beat.                                 *)
LEMMA StreamStep == ASSUME IInv, [Next]_vars PROVE [Stream!Next]_(Stream!svars)
<1>1. CASE Clock
  BY <1>1, StreamClock DEF Clock
<1>2. CASE AxiFetch \/ SwSeeActive \/ SwSample \/ SwCopy \/ SwFinish \/ UNCHANGED vars
  <2>1. UNCHANGED <<mr_state, fifo_wr_en, fifo_din, trace_size, start, rst, sent, stored>>
    BY <1>2 DEF AxiFetch, SwSeeActive, SwSample, SwCopy, SwFinish, vars, mrVars,
       regVars, swVars, fifoVars
  <2>2. UNCHANGED <<StreamActive, StreamDelivered>>
    BY <2>1 DEF StreamActive, StreamDelivered, Handed
  <2> QED
    BY <2>1, <2>2, StreamStutter
<1>3. CASE SwConfigure
  <2>1. ~rst /\ mr_state = "IDLE" /\ ~start /\ ~fifo_wr_en
    BY <1>3 DEF IInv, PhaseInv, SwConfigure
  <2>2. UNCHANGED <<rst, mr_state, start, fifo_wr_en>> /\ stored' = <<>>
        /\ sent' = 0 /\ trace_size' \in Sizes
    BY <1>3 DEF SwConfigure, mrVars
  <2>3. ~StreamActive /\ UNCHANGED StreamActive /\ StreamDelivered' = <<>>
    BY <2>1, <2>2 DEF StreamActive, StreamDelivered, Handed
  <2>4. Stream!Configure
    BY <2>2, <2>3 DEF Stream!Configure
  <2> QED
    BY <2>4 DEF Stream!Next
<1>4. CASE SwStart
  <2>1. ~rst /\ mr_state = "IDLE" /\ ~start /\ ~fifo_wr_en /\ sent = 0 /\ stored = <<>>
    BY <1>4 DEF IInv, PhaseInv, SwStart
  <2>2. UNCHANGED <<rst, mr_state, fifo_wr_en, stored, sent, trace_size>> /\ start' = TRUE
    BY <1>4 DEF SwStart, mrVars, fifoVars
  <2>3. /\ ~StreamActive /\ StreamActive' = TRUE
        /\ StreamDelivered = <<>> /\ UNCHANGED StreamDelivered
    BY <2>1, <2>2 DEF StreamActive, StreamDelivered, Handed
  <2>4. Stream!Start
    BY <2>1, <2>2, <2>3 DEF Stream!Start
  <2> QED
    BY <2>4 DEF Stream!Next
<1>5. CASE SwPublish
  <2>1. ~rst /\ mr_state # "IDLE"
    BY <1>5 DEF IInv, PhaseInv, SwPublish
  <2>2. /\ sent' = sent + chunk
        /\ UNCHANGED <<rst, mr_state, fifo_wr_en, fifo_din, stored, start, trace_size>>
    BY <1>5 DEF SwPublish, mrVars, fifoVars
  <2>3. StreamActive /\ UNCHANGED <<StreamActive, StreamDelivered>>
    BY <2>1, <2>2 DEF StreamActive, StreamDelivered, Handed
  <2>4. Len(StreamDelivered) = read_cntr
    BY <2>1 DEF StreamDelivered, IInv, FifoInv
  <2>5. /\ chunk > 0 /\ sent + chunk <= trace_size
        /\ sent + chunk - read_cntr < RingSize
        /\ chunk \in Nat /\ sent \in Nat
    BY <1>5, <2>1, RingAssumption DEF IInv, RingInv, TypeOK, SwPublish
  <2>6. sent' > sent /\ sent' <= trace_size /\ sent' - Len(StreamDelivered) < RingSize
    BY <2>2, <2>4, <2>5
  <2>7. Stream!Publish
    BY <2>2, <2>3, <2>6 DEF Stream!Publish
  <2> QED
    BY <2>7 DEF Stream!Next
<1>6. CASE SwReset
  <2>1. rst' = TRUE /\ sent' = 0 /\ trace_size' = trace_size
    BY <1>6 DEF SwReset
  <2>2. StreamActive' = FALSE /\ StreamDelivered' = <<>>
    BY <2>1 DEF StreamActive, StreamDelivered
  <2>3. Stream!Reset
    BY <2>1, <2>2 DEF Stream!Reset
  <2> QED
    BY <2>3 DEF Stream!Next
<1>7. CASE SwRelease
  <2>1. rst /\ ~rst' /\ mr_state' = "IDLE" /\ ~start' /\ ~fifo_wr_en' /\ stored' = <<>>
        /\ UNCHANGED <<trace_size, sent>>
    BY <1>7 DEF SwRelease, mrVars, fifoVars
  <2>2. UNCHANGED <<StreamActive, StreamDelivered>>
    BY <2>1 DEF StreamActive, StreamDelivered, Handed
  <2> QED
    BY <2>1, <2>2, StreamStutter
<1> QED
  BY <1>1, <1>2, <1>3, <1>4, <1>5, <1>6, <1>7 DEF Next, Software

(* The ring buffer path implements the abstract stream: whatever software  *)
(* publishes comes out once and in order, and the core stops by itself.    *)
THEOREM RingImplementsStream == Spec => StreamSpec
<1>1. Init => Stream!Init
  <2> SUFFICES ASSUME Init PROVE Stream!Init
    OBVIOUS
  <2>1. StreamActive = FALSE /\ StreamDelivered = <<>>
    BY DEF Init, MemReadInit, StreamActive, StreamDelivered, Handed
  <2> QED
    BY <2>1 DEF Init, Stream!Init
<1>2. IInv /\ [Next]_vars => [Stream!Next]_(Stream!svars)
  BY StreamStep
<1> QED
  BY <1>1, <1>2, RingInvariant, PTL DEF Spec, StreamSpec, Stream!Spec


-----------------------------------------------------------------------------
(***************************************************************************)
(* The whole core.                                                         *)
(***************************************************************************)
(* A clock edge of the core is one of its ring buffer path: the assembler  *)
(* takes a beat when it reads the last word of it.                         *)
LEMMA CoreClock ==
  ASSUME NEW arready \in BOOLEAN, NEW deliver \in BOOLEAN, NEW tready \in BOOLEAN,
         RpClock(arready, deliver, tready)
  PROVE  Clock
<1> DEFINE drain == Pop(tready) /\ sub = WordsPerBeat - 1
<1>1. ClockEdge(arready, deliver, drain)
  BY DEF RpClock
<1>2. drain \in BOOLEAN
  OBVIOUS
<1> QED
  BY <1>1, <1>2 DEF Clock

(* Whatever the packet assembly does at the far end of the FIFO, the path  *)
(* before it is that of ReplayRing: every behaviour of the whole core is   *)
(* one of the ring buffer path, whose FIFO was drained at any pace.        *)
THEOREM CoreImplementsRing == RpSpec => Spec
<1>1. RpInit => Init
  BY DEF RpInit
<1>2. [RpNext]_allVars => [Next]_vars
  <2> SUFFICES ASSUME [RpNext]_allVars PROVE [Next]_vars
    OBVIOUS
  <2>1. CASE \E arready, deliver, tready \in BOOLEAN : RpClock(arready, deliver, tready)
    BY <2>1, CoreClock DEF Next
  <2>2. CASE RpFetch
    BY <2>2 DEF RpFetch, Next
  <2>3. CASE RpConfigure \/ RpStart \/ RpSeeActive \/ RpWrite \/ RpFinish
             \/ RpReset \/ RpRelease
    BY <2>3 DEF RpConfigure, RpStart, RpSeeActive, RpWrite, RpFinish, RpReset,
       RpRelease, Next, Software
  <2>4. CASE UNCHANGED allVars
    BY <2>4 DEF allVars
  <2> QED
    BY <2>1, <2>2, <2>3, <2>4 DEF RpNext
<1> QED
  BY <1>1, <1>2, PTL DEF RpSpec, Spec

(* What is proved of the ring buffer path holds in the whole core: the     *)
(* FIFO receives the trace in order and never overflows, bursts read what  *)
(* is published, the pointers are sound.                                   *)
THEOREM CoreIsSafe ==
  RpSpec => [](StoredInTraceOrder /\ FifoNeverOverflows /\ BurstIsPublished
               /\ PointersTellFill)
BY CoreImplementsRing, TraceOrder, NoOverflow, BurstsArePublished,
   PointersSound, PTL

(* The whole core implements the abstract stream of published beats, and   *)
(* software does not overwrite what it has not read.                       *)
THEOREM CoreImplementsStream == RpSpec => StreamSpec /\ NoUnreadOverwritten
BY CoreImplementsRing, RingImplementsStream, UnreadKept, PTL

-----------------------------------------------------------------------------
(***************************************************************************)
(* What the whole core sends.  Of a packet no more is captured than it has *)
(* bytes, and it has one at least (pcap_import refuses others).            *)
(***************************************************************************)
Packet == {p \in [id : Nat, delta : Nat, snap : Nat, wire : Nat \ {0}] : p.snap <= p.wire}

GoodTraces == \A s \in Sizes : TraceOf[s] \in Seq(Packet)

(* The first k of a sequence of sequences, one after the other.            *)
Upto(seqs, k) ==
  LET flat[i \in 0 .. Len(seqs)] == IF i = 0 THEN <<>> ELSE flat[i - 1] \o seqs[i]
  IN  flat[k]

(* The words of the first k packets in the trace, and on the stream.       *)
WordSeqs == [i \in DOMAIN Trace |-> Format!PacketWords(Trace[i])]
OutSeqs  == [i \in DOMAIN Trace |-> Format!PacketStream(Trace[i])]
WordsOf(k) == Upto(WordSeqs, k)
OutOf(k)   == Upto(OutSeqs, k)

WordType == [delta : Int, snap : Int, wire : Int]
OutType  == [tvalid : BOOLEAN, tdata : WordType, tlast : BOOLEAN, tkeep : Int, tuser : Int]

(* The words that were read, and the words that were sent.                 *)
ReadWords == drained * WordsPerBeat + sub
SoFar     == out \o Pending

(* The FIFO's output side.                                                 *)
SideInv ==
  /\ as_state \in {"IDLE", "START", "META", "TX"}
  /\ sub \in 0 .. WordsPerBeat - 1
  /\ shown \in 0 .. Len(stored) /\ drained <= shown
  /\ sub # 0 => drained < shown
  /\ word_cntr \in Nat

(* What is sent is words.                                                  *)
OutInv ==
  /\ out \in Seq(OutType)
  /\ m_axis.tvalid \in BOOLEAN
  /\ m_axis.tvalid => m_axis \in OutType

(* Nothing is left of a trace before the next.                             *)
RestInv ==
  /\ stored = <<>> => as_state # "TX" /\ ~m_axis.tvalid /\ word_cntr = 0
  /\ sw \in {"idle", "configured"} =>
       as_state = "IDLE" /\ ~m_axis.tvalid /\ word_cntr = 0 /\ sub = 0
  /\ sw = "configured" => out = <<>>

(* Packet k is being sent, and its meta data and w words of it were read;  *)
(* or the first k packets were sent, and their words were read, after the  *)
(* last of them some padding, too.                                         *)
Sending(k) ==
  /\ as_state = "TX" /\ k \in 1 .. Len(Trace)
  /\ meta = WordSeqs[k][1]
  /\ word_cntr < Format!WordsFor(Trace[k].wire)
  /\ ReadWords = Len(WordsOf(k - 1)) + 1 + Least(word_cntr, Format!WordsFor(Trace[k].snap))
  /\ SoFar = OutOf(k - 1) \o SubSeq(OutSeqs[k], 1, word_cntr)

Between(k) ==
  /\ as_state # "TX" /\ k \in 0 .. Len(Trace)
  /\ word_cntr = 0
  /\ \/ ReadWords = Len(WordsOf(k))
     \/ k = Len(Trace) /\ ReadWords >= Len(WordsOf(k))
  /\ SoFar = OutOf(k)

Running == sw \in {"started", "write", "copy", "publish"}

SentInv == Running => \E k \in 0 .. Len(Trace) : Sending(k) \/ Between(k)

CoreInv == SideInv /\ OutInv /\ RestInv /\ SentInv

(* The assembler is inactive only before and after everything.             *)
EndInv ==
  ~rst =>
    /\ start => as_state = "IDLE"
    /\ sw = "started" /\ ~start => \/ as_state = "START"
                                   \/ as_state = "META" /\ mr_active
    /\ sw \in {"write", "copy", "publish"} /\ as_state = "IDLE" =>
         /\ sw = "write" /\ mr_state = "IDLE" /\ ~mr_active
         /\ ~hidden => Level = 0

-----------------------------------------------------------------------------
(***************************************************************************)
(* Words and bytes.                                                        *)
(***************************************************************************)
LEMMA Units == WordBytes \in Nat \ {0} /\ WordsPerBeat \in Nat \ {0}
BY AssembleAssumption, ReplayAssumption

LEMMA Division ==
  ASSUME NEW b \in Nat \ {0}, NEW n \in Nat
  PROVE  /\ n = b * (n \div b) + (n % b) /\ n \div b \in Nat
         /\ n % b \in Nat /\ n % b < b
OBVIOUS

LEMMA Product ==
  ASSUME NEW b \in Nat \ {0}, NEW s \in Nat, NEW t \in Nat, s < t
  PROVE  s * b \in Nat /\ t * b \in Nat /\ s * b + b <= t * b
<1>1. (s + 1) * b <= t * b /\ s * b \in Nat /\ t * b \in Nat
  OBVIOUS
<1>2. (s + 1) * b = s * b + b
  OBVIOUS
<1> QED
  BY <1>1, <1>2

(* A number lies in its own multiple.                                      *)
LEMMA Quotient ==
  ASSUME NEW b \in Nat \ {0}, NEW n \in Nat, NEW q \in Nat, NEW r \in Nat,
         n = q * b + r, r < b
  PROVE  n \div b = q /\ n % b = r
<1> DEFINE d == n \div b  e == n % b
<1>1. n = b * d + e /\ d \in Nat /\ e \in Nat /\ e < b
  BY Division
<1> HIDE DEF d, e
<1>2. b * d = d * b /\ d * b \in Nat /\ q * b \in Nat
  BY <1>1
<1>3. ~(d < q)
  <2> SUFFICES ASSUME d < q PROVE FALSE
    OBVIOUS
  <2>1. d * b + b <= q * b
    BY <1>1, Product
  <2> QED
    BY <2>1, <1>1, <1>2
<1>4. ~(q < d)
  <2> SUFFICES ASSUME q < d PROVE FALSE
    OBVIOUS
  <2>1. q * b + b <= d * b
    BY <1>1, Product
  <2> QED
    BY <2>1, <1>1, <1>2
<1>5. q = d
  BY <1>1, <1>3, <1>4
<1>6. r = e
  BY <1>1, <1>2, <1>5
<1> QED
  BY <1>5, <1>6 DEF d, e

(* The number of words is the number that begins within the bytes.         *)
LEMMA WordsBegin ==
  ASSUME NEW n \in Nat
  PROVE  /\ Format!WordsFor(n) \in Nat
         /\ \A s \in Nat : s * WordBytes \in Nat
                           /\ (s < Format!WordsFor(n) <=> s * WordBytes < n)
<1> DEFINE b == WordBytes  x == n + b - 1  d == x \div b  r == x % b
<1>b. b \in Nat \ {0} /\ x \in Nat
  BY Units
<1>1. /\ x = b * d + r /\ d \in Nat /\ r \in Nat /\ r < b
  BY <1>b, Division
<1>2. Format!WordsFor(n) = d
  BY DEF Format!WordsFor
<1>3. x = n + b - 1
  OBVIOUS
<1> HIDE DEF b, d, r, x
<1>4. ASSUME NEW s \in Nat PROVE s * b \in Nat /\ (s < d <=> s * b < n)
  <2>1. s * b \in Nat /\ b * d = d * b /\ d * b \in Nat
    BY <1>1, <1>b
  <2>2. CASE s < d
    <3>1. s * b + b <= d * b
      BY <2>2, <1>b, <1>1, Product
    <3> QED
      BY <3>1, <2>1, <2>2, <1>1, <1>3, <1>b
  <2>3. CASE ~(s < d)
    <3>1. d * b <= s * b
      BY <2>3, <1>b, <1>1, <2>1, Product
    <3> QED
      BY <3>1, <2>1, <2>3, <1>1, <1>3, <1>b
  <2> QED
    BY <2>2, <2>3
<1> QED
  BY <1>1, <1>2, <1>4 DEF b

(* No more words are captured of a packet than it has; it has one at least.*)
LEMMA PacketIs ==
  ASSUME NEW p \in Packet
  PROVE  /\ Format!WordsFor(p.snap) \in Nat
         /\ Format!WordsFor(p.wire) \in Nat \ {0}
         /\ Format!WordsFor(p.snap) <= Format!WordsFor(p.wire)
         /\ p.id \in Nat /\ p.delta \in Nat /\ p.snap \in Nat /\ p.wire \in Nat
<1> DEFINE s == Format!WordsFor(p.snap)  w == Format!WordsFor(p.wire)
<1>1. /\ p.id \in Nat /\ p.delta \in Nat /\ p.snap \in Nat
      /\ p.wire \in Nat \ {0} /\ p.snap <= p.wire
  BY DEF Packet
<1>2. /\ s \in Nat /\ w \in Nat
      /\ \A i \in Nat : i * WordBytes \in Nat /\ (i < s <=> i * WordBytes < p.snap)
      /\ \A i \in Nat : i * WordBytes \in Nat /\ (i < w <=> i * WordBytes < p.wire)
  BY <1>1, WordsBegin
<1> HIDE DEF s, w
<1>3. w # 0
  <2>1. 0 < w <=> 0 * WordBytes < p.wire
    BY <1>2
  <2>2. 0 * WordBytes = 0
    BY Units
  <2> QED
    BY <1>1, <1>2, <2>1, <2>2
<1>4. s <= w
  <2> SUFFICES ASSUME ~(s <= w) PROVE FALSE
    OBVIOUS
  <2>1. w < s /\ ~(w < w)
    BY <1>2
  <2>2. w * WordBytes < p.snap /\ ~(w * WordBytes < p.wire) /\ w * WordBytes \in Nat
    BY <1>2, <2>1
  <2> QED
    BY <1>1, <2>2
<1> QED
  BY <1>1, <1>2, <1>3, <1>4 DEF s, w

(* The bytes of the last word.                                             *)
LEMMA LastBytes ==
  ASSUME NEW n \in Nat, NEW w \in Nat, w * WordBytes < n, n <= (w + 1) * WordBytes
  PROVE  (IF n % WordBytes # 0 THEN n % WordBytes ELSE WordBytes) = n - w * WordBytes
<1> DEFINE b == WordBytes  r == n - w * b
<1>1. /\ b \in Nat \ {0} /\ w * b \in Nat /\ (w + 1) * b = w * b + b
      /\ w * b < n /\ n <= (w + 1) * b
  BY Units
<1>2. r \in Nat /\ r # 0 /\ r <= b /\ n = w * b + r
  BY <1>1
<1> HIDE DEF b, r
<1>3. CASE r < b
  <2>1. n % b = r
    BY <1>1, <1>2, <1>3, Quotient
  <2> QED
    BY <1>2, <2>1 DEF b, r
<1>4. CASE r = b
  <2>1. n = (w + 1) * b + 0 /\ w + 1 \in Nat /\ 0 < b
    BY <1>1, <1>2, <1>4
  <2>2. n % b = 0
    BY <1>1, <2>1, Quotient
  <2> QED
    BY <1>4, <2>2 DEF b, r
<1> QED
  BY <1>1, <1>2, <1>3, <1>4

-----------------------------------------------------------------------------
(***************************************************************************)
(* Sequences one after the other.                                          *)
(***************************************************************************)
(* Induction, as a fact about sets of numbers.                             *)
LEMMA Below == IsWellFoundedOn({z \in Nat \X Nat : z[1] < z[2]}, Nat)
BY NatLessThanWellFounded, Zenon DEF OpToRel

LEMMA Induction ==
  ASSUME NEW S \in SUBSET Nat, 0 \in S, \A n \in S : n + 1 \in S
  PROVE  S = Nat
<1> DEFINE T == Nat \ S
           R == {z \in Nat \X Nat : z[1] < z[2]}
<1> SUFFICES ASSUME T # {} PROVE FALSE
  OBVIOUS
<1>1. IsWellFoundedOn(R, Nat)
  BY Below
<1>2. T \subseteq Nat
  OBVIOUS
<1>3. PICK x \in T : \A y \in T : ~ (<<y, x>> \in R)
  <2> HIDE DEF T, R
  <2> QED
    BY <1>1, <1>2, WFMin
<1>4. x - 1 \notin T
  <2>1. x \in Nat /\ x # 0
    BY <1>3
  <2>2. <<x - 1, x>> \in R
    BY <2>1
  <2> QED
    BY <1>3, <2>2
<1>5. x - 1 \in S
  BY <1>4
<1> QED
  BY <1>5, <1>3

LEMMA JoinIs ==
  ASSUME NEW S, NEW a \in Seq(S), NEW b \in Seq(S)
  PROVE  /\ a \o b \in Seq(S) /\ Len(a \o b) = Len(a) + Len(b)
         /\ \A i \in 1 .. Len(a) : (a \o b)[i] = a[i]
         /\ \A i \in Len(a) + 1 .. Len(a) + Len(b) : (a \o b)[i] = b[i - Len(a)]
OBVIOUS

(* The sequence that flattening a sequence of sequences goes through.      *)
Joined(seqs, flat) ==
  flat = [i \in 1 .. Len(seqs) |-> IF i = 1 THEN seqs[i] ELSE flat[i - 1] \o seqs[i]]

LEMMA JoinedIs ==
  ASSUME NEW seqs, Len(seqs) \in Nat
  PROVE  \E flat : Joined(seqs, flat)
<1> DEFINE Until(n, g) == g = [i \in 1 .. n |-> IF i = 1 THEN seqs[i] ELSE g[i - 1] \o seqs[i]]
           S == {n \in Nat : \E g : Until(n, g)}
<1>1. 0 \in S
  <2> DEFINE g == [i \in 1 .. 0 |-> i]
  <2>1. Until(0, g)
    OBVIOUS
  <2> QED
    BY <2>1
<1>2. ASSUME NEW n \in S PROVE n + 1 \in S
  <2>1. PICK g : Until(n, g)
    OBVIOUS
  <2> DEFINE h == [i \in 1 .. n + 1 |->
                     IF i = n + 1 THEN IF i = 1 THEN seqs[i] ELSE g[i - 1] \o seqs[i]
                     ELSE g[i]]
             k == [i \in 1 .. n + 1 |-> IF i = 1 THEN seqs[i] ELSE h[i - 1] \o seqs[i]]
  <2>2. ASSUME NEW i \in 1 .. n + 1 PROVE h[i] = k[i]
    <3>1. CASE i = n + 1
      <4>1. i # 1 => i - 1 \in 1 .. n + 1 /\ i - 1 # n + 1
        BY <3>1
      <4>2. i # 1 => h[i - 1] = g[i - 1]
        BY <4>1
      <4> QED
        BY <3>1, <4>2
    <3>2. CASE i # n + 1
      <4>1. i \in 1 .. n /\ (i # 1 => i - 1 \in 1 .. n + 1 /\ i - 1 # n + 1)
        BY <3>2
      <4>2. h[i] = g[i] /\ (i # 1 => h[i - 1] = g[i - 1])
        BY <3>2, <4>1
      <4>3. g[i] = IF i = 1 THEN seqs[i] ELSE g[i - 1] \o seqs[i]
        BY <2>1, <4>1
      <4> QED
        BY <4>2, <4>3
    <3> QED
      BY <3>1, <3>2
  <2>3. h = k
    BY <2>2
  <2>4. Until(n + 1, h)
    BY <2>3
  <2> HIDE DEF h, Until
  <2>5. n + 1 \in Nat /\ \E f : Until(n + 1, f)
    BY <2>4
  <2> QED
    BY <2>5
<1>3. S = Nat
  <2> HIDE DEF S
  <2>1. S \in SUBSET Nat
    BY DEF S
  <2> QED
    BY <2>1, <1>1, <1>2, Induction
<1>4. \E g : Until(Len(seqs), g)
  BY <1>3
<1> QED
  BY <1>4 DEF Joined

LEMMA FlattenIs ==
  ASSUME NEW seqs, Len(seqs) \in Nat, Len(seqs) # 0
  PROVE  \E flat : Joined(seqs, flat) /\ Format!FlattenSeq(seqs) = flat[Len(seqs)]
<1> DEFINE flat == CHOOSE g : Joined(seqs, g)
<1>1. Joined(seqs, flat)
  BY JoinedIs
<1>2. Format!FlattenSeq(seqs) = flat[Len(seqs)]
  BY DEF Format!FlattenSeq, Joined
<1> QED
  BY <1>1, <1>2

(* Upto goes through the same sequence, from the empty one on.             *)
LEMMA UptoIs ==
  ASSUME NEW X, NEW seqs \in Seq(Seq(X))
  PROVE  /\ Upto(seqs, 0) = <<>>
         /\ \A k \in 1 .. Len(seqs) : Upto(seqs, k) = Upto(seqs, k - 1) \o seqs[k]
<1> DEFINE n == Len(seqs)
           Begins(g) == g = [i \in 0 .. n |-> IF i = 0 THEN <<>> ELSE g[i - 1] \o seqs[i]]
           flat == CHOOSE g : Begins(g)
<1>1. n \in Nat /\ \A i \in 1 .. n : seqs[i] \in Seq(X)
  OBVIOUS
<1>2. \E g : Begins(g)
  <2>1. PICK f : Joined(seqs, f)
    BY <1>1, JoinedIs
  <2> DEFINE g == [i \in 0 .. n |-> IF i = 0 THEN <<>> ELSE f[i]]
             h == [i \in 0 .. n |-> IF i = 0 THEN <<>> ELSE g[i - 1] \o seqs[i]]
  <2>2. ASSUME NEW i \in 0 .. n PROVE g[i] = h[i]
    <3>1. CASE i = 0
      BY <3>1
    <3>2. CASE i # 0
      <4>1. i \in 1 .. n /\ i - 1 \in 0 .. n /\ (i # 1 => i - 1 \in 1 .. n)
        BY <1>1, <3>2
      <4>2. f[i] = IF i = 1 THEN seqs[i] ELSE f[i - 1] \o seqs[i]
        BY <2>1, <4>1 DEF Joined
      <4>3. g[i] = f[i] /\ h[i] = g[i - 1] \o seqs[i]
        BY <3>2, <4>1
      <4>4. CASE i = 1
        <5>1. g[i - 1] = <<>>
          BY <4>1, <4>4
        <5>2. seqs[i] = <<>> \o seqs[i]
          BY <1>1, <4>1
        <5> QED
          BY <4>2, <4>3, <4>4, <5>1, <5>2
      <4>5. CASE i # 1
        <5>1. g[i - 1] = f[i - 1]
          BY <4>1, <4>5
        <5> QED
          BY <4>2, <4>3, <4>5, <5>1
      <4> QED
        BY <4>4, <4>5
    <3> QED
      BY <3>1, <3>2
  <2>3. g = h
    BY <2>2
  <2> QED
    BY <2>3
<1>3. Begins(flat)
  <2> HIDE DEF Begins
  <2> QED
    BY <1>2
<1>4. \A k \in 0 .. n : Upto(seqs, k) = flat[k]
  BY DEF Upto
<1> HIDE DEF flat
<1>5. \A k \in 0 .. n : flat[k] = IF k = 0 THEN <<>> ELSE flat[k - 1] \o seqs[k]
  BY <1>3
<1>6. flat[0] = <<>> /\ Upto(seqs, 0) = flat[0]
  BY <1>1, <1>4, <1>5
<1>7. ASSUME NEW k \in 1 .. n PROVE Upto(seqs, k) = Upto(seqs, k - 1) \o seqs[k]
  <2>1. k \in 0 .. n /\ k - 1 \in 0 .. n /\ k # 0
    BY <1>1
  <2>2. flat[k] = flat[k - 1] \o seqs[k]
    BY <1>5, <2>1
  <2> QED
    BY <1>4, <2>1, <2>2
<1> QED
  BY <1>6, <1>7

(* Sequences that grow by sequences, and alike.                            *)
LEMMA GrownType ==
  ASSUME NEW X, NEW n \in Nat, NEW q, NEW g, g[0] = <<>>,
         \A i \in 1 .. n : q[i] \in Seq(X),
         \A i \in 1 .. n : g[i] = g[i - 1] \o q[i]
  PROVE  \A k \in 0 .. n : g[k] \in Seq(X) /\ Len(g[k]) \in Nat
<1> DEFINE S == {d \in Nat : d <= n => g[d] \in Seq(X)}
<1>1. 0 \in S
  <2>1. g[0] \in Seq(X)
    OBVIOUS
  <2> QED
    BY <2>1
<1>2. ASSUME NEW d \in S PROVE d + 1 \in S
  <2>0. d \in Nat /\ (d <= n => g[d] \in Seq(X))
    OBVIOUS
  <2> SUFFICES ASSUME d + 1 <= n PROVE g[d + 1] \in Seq(X)
    BY <2>0
  <2>1. PICK i \in 1 .. n : i = d + 1 /\ i - 1 = d
    BY <2>0
  <2>2. g[i] = g[i - 1] \o q[i] /\ q[i] \in Seq(X)
    OBVIOUS
  <2>3. g[i - 1] \in Seq(X)
    BY <2>0, <2>1
  <2> QED
    BY <2>1, <2>2, <2>3
<1>3. S = Nat
  <2> HIDE DEF S
  <2>1. S \in SUBSET Nat
    BY DEF S
  <2> QED
    BY <2>1, <1>1, <1>2, Induction
<1>4. ASSUME NEW k \in 0 .. n PROVE g[k] \in Seq(X)
  <2>1. k \in Nat /\ k <= n
    OBVIOUS
  <2>2. k \in S
    BY <1>3, <2>1
  <2> QED
    BY <2>1, <2>2
<1> QED
  BY <1>4

Grown(n, q, g) == \A i \in 2 .. n : g[i] = g[i - 1] \o q[i]

LEMMA GrownSame ==
  ASSUME NEW n \in Nat, NEW q, NEW f, NEW g, f[1] = g[1], Grown(n, q, f), Grown(n, q, g)
  PROVE  \A k \in 1 .. n : f[k] = g[k]
<1> DEFINE S == {d \in Nat : d + 1 <= n => f[d + 1] = g[d + 1]}
<1>1. 0 \in S
  OBVIOUS
<1>2. ASSUME NEW d \in S PROVE d + 1 \in S
  <2>0. d \in Nat /\ (d + 1 <= n => f[d + 1] = g[d + 1])
    OBVIOUS
  <2> SUFFICES ASSUME d + 1 + 1 <= n PROVE f[d + 1 + 1] = g[d + 1 + 1]
    BY <2>0
  <2>1. PICK i \in 2 .. n : i = d + 1 + 1 /\ i - 1 = d + 1
    BY <2>0
  <2>2. f[i] = f[i - 1] \o q[i] /\ g[i] = g[i - 1] \o q[i]
    BY DEF Grown
  <2>3. f[i - 1] = g[i - 1]
    BY <2>0, <2>1
  <2> QED
    BY <2>1, <2>2, <2>3
<1>3. S = Nat
  <2> HIDE DEF S
  <2>1. S \in SUBSET Nat
    BY DEF S
  <2> QED
    BY <2>1, <1>1, <1>2, Induction
<1>4. ASSUME NEW k \in 1 .. n PROVE f[k] = g[k]
  <2>1. k - 1 \in Nat /\ k - 1 + 1 = k /\ k <= n
    OBVIOUS
  <2>2. k - 1 \in S
    BY <1>3, <2>1
  <2> QED
    BY <2>1, <2>2
<1> QED
  BY <1>4

LEMMA UptoType ==
  ASSUME NEW X, NEW seqs \in Seq(Seq(X)), NEW k \in 0 .. Len(seqs)
  PROVE  Upto(seqs, k) \in Seq(X) /\ Len(Upto(seqs, k)) \in Nat
<1> DEFINE n == Len(seqs)
           g == [i \in 0 .. n |-> Upto(seqs, i)]
<1>1. n \in Nat /\ \A i \in 1 .. n : seqs[i] \in Seq(X)
  OBVIOUS
<1>2. /\ Upto(seqs, 0) = <<>>
      /\ \A i \in 1 .. n : Upto(seqs, i) = Upto(seqs, i - 1) \o seqs[i]
  BY UptoIs
<1> HIDE DEF n
<1>3. g[0] = <<>>
  BY <1>1, <1>2
<1>6. ASSUME NEW i \in 1 .. n PROVE g[i] = g[i - 1] \o seqs[i]
  <2>1. i \in 0 .. n /\ i - 1 \in 0 .. n
    BY <1>1
  <2> QED
    BY <1>2, <2>1
<1> HIDE DEF g
<1>4. \A i \in 0 .. n : g[i] \in Seq(X) /\ Len(g[i]) \in Nat
  BY <1>1, <1>3, <1>6, GrownType
<1>5. k \in 0 .. n
  BY DEF n
<1> QED
  BY <1>4, <1>5 DEF g

LEMMA UptoFlat ==
  ASSUME NEW X, NEW seqs \in Seq(Seq(X))
  PROVE  Format!FlattenSeq(seqs) = Upto(seqs, Len(seqs))
<1> DEFINE n == Len(seqs)
           g == [i \in 0 .. n |-> Upto(seqs, i)]
<1>1. n \in Nat /\ \A i \in 1 .. n : seqs[i] \in Seq(X)
  OBVIOUS
<1>2. /\ Upto(seqs, 0) = <<>>
      /\ \A i \in 1 .. n : Upto(seqs, i) = Upto(seqs, i - 1) \o seqs[i]
  BY UptoIs
<1>3. CASE n = 0
  <2>1. seqs = <<>> /\ Format!FlattenSeq(seqs) = seqs
    BY <1>3 DEF Format!FlattenSeq
  <2> QED
    BY <1>2, <1>3, <2>1
<1>4. CASE n # 0
  <2>1. PICK f : Joined(seqs, f) /\ Format!FlattenSeq(seqs) = f[n]
    BY <1>1, <1>4, FlattenIs
  <2>2. \A i \in 1 .. n : f[i] = IF i = 1 THEN seqs[i] ELSE f[i - 1] \o seqs[i]
    BY <2>1 DEF Joined
  <2> HIDE DEF n
  <2>3. f[1] = g[1]
    <3>1. 1 \in 1 .. n /\ 1 \in 0 .. n /\ 1 - 1 = 0
      BY <1>1, <1>4
    <3>2. f[1] = seqs[1] /\ Upto(seqs, 1) = Upto(seqs, 1 - 1) \o seqs[1]
      BY <1>2, <2>2, <3>1
    <3>3. <<>> \o seqs[1] = seqs[1]
      BY <1>1, <3>1
    <3> QED
      BY <1>2, <3>1, <3>2, <3>3
  <2>4. ASSUME NEW i \in 2 .. n PROVE f[i] = f[i - 1] \o seqs[i]
    <3>1. i \in 1 .. n /\ i # 1
      BY <1>1
    <3> QED
      BY <2>2, <3>1
  <2>5. ASSUME NEW i \in 2 .. n PROVE g[i] = g[i - 1] \o seqs[i]
    <3>1. i \in 1 .. n /\ i \in 0 .. n /\ i - 1 \in 0 .. n
      BY <1>1
    <3> QED
      BY <1>2, <3>1
  <2> HIDE DEF g
  <2>6. \A i \in 1 .. n : f[i] = g[i]
    <3>1. Grown(n, seqs, f) /\ Grown(n, seqs, g)
      BY <2>4, <2>5 DEF Grown
    <3> QED
      BY <1>1, <2>3, <3>1, GrownSame
  <2>7. n \in 1 .. n /\ n \in 0 .. n
    BY <1>1, <1>4
  <2>8. f[n] = g[n] /\ g[n] = Upto(seqs, n)
    BY <2>6, <2>7 DEF g
  <2> QED
    BY <2>1, <2>8 DEF n
<1> QED
  BY <1>3, <1>4

(* What is there stays where it is.                                        *)
Begins(s, t) == Len(s) <= Len(t) /\ \A i \in 1 .. Len(s) : t[i] = s[i]

Grows(X, n, q, g) ==
  /\ \A k \in 0 .. n : g[k] \in Seq(X)
  /\ \A k \in 1 .. n : q[k] \in Seq(X) /\ g[k] = g[k - 1] \o q[k]

LEMMA JoinBegins ==
  ASSUME NEW X, NEW a \in Seq(X), NEW b \in Seq(X), NEW s \in Seq(X), Begins(s, a)
  PROVE  Begins(s, a \o b)
<1>1. /\ Len(a \o b) = Len(a) + Len(b) /\ Len(a) \in Nat /\ Len(b) \in Nat /\ Len(s) \in Nat
      /\ \A l \in 1 .. Len(a) : (a \o b)[l] = a[l]
  BY JoinIs
<1> QED
  BY <1>1 DEF Begins

LEMMA JoinPart ==
  ASSUME NEW X, NEW a \in Seq(X), NEW b \in Seq(X), NEW u \in Seq(X), Begins(a \o b, u),
         NEW i \in 1 .. Len(b)
  PROVE  Len(a) + i \in 1 .. Len(u) /\ u[Len(a) + i] = b[i]
<1> DEFINE c == a \o b
<1>1. /\ Len(c) = Len(a) + Len(b) /\ Len(a) \in Nat /\ Len(b) \in Nat /\ Len(u) \in Nat
      /\ \A l \in Len(a) + 1 .. Len(a) + Len(b) : c[l] = b[l - Len(a)]
  BY JoinIs
<1> HIDE DEF c
<1> DEFINE l == Len(a) + i
<1>2. l \in Len(a) + 1 .. Len(a) + Len(b) /\ l - Len(a) = i
  BY <1>1
<1> HIDE DEF l
<1>3. c[l] = b[i] /\ l \in 1 .. Len(c)
  <2>1. c[l] = b[l - Len(a)] /\ l \in Len(a) + 1 .. Len(c)
    BY <1>1, <1>2
  <2> QED
    BY <1>1, <1>2, <2>1
<1>4. u[l] = b[i] /\ l \in 1 .. Len(u)
  BY <1>1, <1>3 DEF Begins, c
<1> QED
  BY <1>4 DEF l

LEMMA GrownBegins ==
  ASSUME NEW X, NEW n \in Nat, NEW q, NEW g, Grows(X, n, q, g),
         NEW k \in 0 .. n, NEW j \in k .. n
  PROVE  Begins(g[k], g[j])
<1> DEFINE S == {d \in Nat : k + d <= n => Begins(g[k], g[k + d])}
<1>1. 0 \in S
  <2>1. g[k] \in Seq(X) /\ k + 0 = k
    BY DEF Grows
  <2> QED
    BY <2>1 DEF Begins
<1>2. ASSUME NEW d \in S PROVE d + 1 \in S
  <2>0. d \in Nat /\ (k + d <= n => Begins(g[k], g[k + d]))
    OBVIOUS
  <2> SUFFICES ASSUME k + (d + 1) <= n PROVE Begins(g[k], g[k + (d + 1)])
    BY <2>0
  <2>1. PICK i \in 1 .. n : i = k + (d + 1) /\ i - 1 = k + d /\ i - 1 \in 0 .. n
    BY <2>0
  <2>2. g[i] = g[i - 1] \o q[i] /\ q[i] \in Seq(X) /\ g[i - 1] \in Seq(X) /\ g[k] \in Seq(X)
    BY <2>1 DEF Grows
  <2>3. Begins(g[k], g[i - 1])
    BY <2>0, <2>1
  <2>5. Begins(g[k], g[i])
    BY <2>2, <2>3, JoinBegins
  <2> QED
    BY <2>1, <2>5
<1>3. S = Nat
  <2> HIDE DEF S
  <2>1. S \in SUBSET Nat
    BY DEF S
  <2> QED
    BY <2>1, <1>1, <1>2, Induction
<1>4. PICK d \in Nat : d = j - k /\ k + d = j /\ j <= n
  OBVIOUS
<1>5. d \in S
  BY <1>3
<1> QED
  BY <1>4, <1>5

LEMMA UptoGrows ==
  ASSUME NEW X, NEW seqs \in Seq(Seq(X))
  PROVE  Grows(X, Len(seqs), seqs, [k \in 0 .. Len(seqs) |-> Upto(seqs, k)])
<1> DEFINE n == Len(seqs)
           g == [i \in 0 .. n |-> Upto(seqs, i)]
<1>1. n \in Nat /\ \A i \in 1 .. n : seqs[i] \in Seq(X)
  OBVIOUS
<1>2. \A i \in 1 .. n : Upto(seqs, i) = Upto(seqs, i - 1) \o seqs[i]
  BY UptoIs
<1>3. \A i \in 0 .. n : Upto(seqs, i) \in Seq(X)
  BY UptoType
<1> HIDE DEF n
<1>4. ASSUME NEW i \in 1 .. n PROVE seqs[i] \in Seq(X) /\ g[i] = g[i - 1] \o seqs[i]
  <2>1. i \in 0 .. n /\ i - 1 \in 0 .. n
    BY <1>1
  <2> QED
    BY <1>1, <1>2, <2>1
<1>5. \A i \in 0 .. n : g[i] \in Seq(X)
  BY <1>3
<1> HIDE DEF g
<1>6. Grows(X, n, seqs, g)
  BY <1>4, <1>5 DEF Grows
<1> QED
  BY <1>6 DEF n, g

LEMMA UptoBegins ==
  ASSUME NEW X, NEW seqs \in Seq(Seq(X)), NEW k \in 0 .. Len(seqs),
         NEW j \in k .. Len(seqs)
  PROVE  Begins(Upto(seqs, k), Upto(seqs, j))
<1> DEFINE n == Len(seqs)
           g == [i \in 0 .. n |-> Upto(seqs, i)]
<1>1. n \in Nat /\ Grows(X, n, seqs, g) /\ k \in 0 .. n /\ j \in k .. n /\ j \in 0 .. n
  BY UptoGrows
<1>2. g[k] = Upto(seqs, k) /\ g[j] = Upto(seqs, j)
  BY <1>1
<1> HIDE DEF n, g
<1>3. Begins(g[k], g[j])
  BY <1>1, GrownBegins
<1> QED
  BY <1>2, <1>3

(* Where a part of it lies.                                                *)
LEMMA UptoPart ==
  ASSUME NEW X, NEW seqs \in Seq(Seq(X)), NEW k \in 1 .. Len(seqs),
         NEW i \in 1 .. Len(seqs[k])
  PROVE  /\ Len(Upto(seqs, k - 1)) + i \in 1 .. Len(Upto(seqs, Len(seqs)))
         /\ Upto(seqs, Len(seqs))[Len(Upto(seqs, k - 1)) + i] = seqs[k][i]
<1> DEFINE n == Len(seqs)
           a == Upto(seqs, k - 1)
           b == seqs[k]
           c == Upto(seqs, k)
           u == Upto(seqs, n)
<1>0. n \in Nat /\ b \in Seq(X)
  OBVIOUS
<1>1. k \in 0 .. n /\ k - 1 \in 0 .. n /\ n \in k .. n
  BY <1>0
<1>2. a \in Seq(X) /\ c \in Seq(X) /\ c = a \o b
  <2>1. c = a \o b
    BY UptoIs
  <2>2. a \in Seq(X) /\ c \in Seq(X)
    BY <1>1, UptoType
  <2> QED
    BY <2>1, <2>2
<1>3. u \in Seq(X) /\ Len(u) \in Nat
  <2>1. n \in 0 .. n
    BY <1>0
  <2> QED
    BY <2>1, UptoType
<1>4. Begins(c, u)
  BY <1>1, UptoBegins
<1> HIDE DEF n, a, b, c, u
<1>5. i \in 1 .. Len(b)
  BY DEF b
<1>6. Len(a) + i \in 1 .. Len(u) /\ u[Len(a) + i] = b[i]
  BY <1>0, <1>2, <1>3, <1>4, <1>5, JoinPart
<1> QED
  BY <1>6 DEF n, a, b, u

-----------------------------------------------------------------------------
(***************************************************************************)
(* The words of a trace.                                                   *)
(***************************************************************************)
(* A sequence given by its elements.                                       *)
LEMMA ListIs ==
  ASSUME NEW X, NEW n \in Nat, NEW f \in [1 .. n -> X]
  PROVE  f \in Seq(X) /\ Len(f) = n
OBVIOUS

LEMMA PayloadIs ==
  ASSUME NEW p \in Packet, NEW i \in Nat
  PROVE  Format!Payload(p, i) \in WordType
<1>1. p.id \in Nat /\ 10 * p.id + i \in Int /\ WordBytes \in Int
  BY PacketIs, Units
<1> QED
  BY <1>1 DEF Format!Payload, Format!TraceWord, WordType

(* In the trace, a word of meta data and the payload.                      *)
LEMMA PacketWordsAre ==
  ASSUME NEW p \in Packet
  PROVE  LET ws == Format!PacketWords(p)
         IN  /\ ws \in Seq(WordType) /\ Len(ws) = 1 + Format!WordsFor(p.snap)
             /\ ws[1] = Format!TraceWord(p.delta, p.snap, p.wire)
             /\ \A i \in 1 .. Format!WordsFor(p.snap) : ws[1 + i] = Format!Payload(p, i)
<1> DEFINE n == Format!WordsFor(p.snap)
           a == <<Format!TraceWord(p.delta, p.snap, p.wire)>>
           b == [i \in 1 .. n |-> Format!Payload(p, i)]
<1>1. n \in Nat /\ p.delta \in Nat /\ p.snap \in Nat /\ p.wire \in Nat
  BY PacketIs
<1>2. Format!PacketWords(p) = a \o b
  BY DEF Format!PacketWords
<1>3. a \in Seq(WordType) /\ Len(a) = 1 /\ a[1] = Format!TraceWord(p.delta, p.snap, p.wire)
  BY <1>1 DEF Format!TraceWord, WordType
<1>4. b \in Seq(WordType) /\ Len(b) = n /\ \A i \in 1 .. n : b[i] = Format!Payload(p, i)
  <2>1. \A i \in 1 .. n : Format!Payload(p, i) \in WordType
    BY <1>1, PayloadIs
  <2> HIDE DEF n
  <2>2. b \in [1 .. n -> WordType]
    BY <2>1
  <2> QED
    BY <1>1, <2>2, ListIs
<1> HIDE DEF n, a, b
<1>5. /\ a \o b \in Seq(WordType) /\ Len(a \o b) = 1 + n
      /\ (a \o b)[1] = a[1]
      /\ \A i \in 2 .. 1 + n : (a \o b)[i] = b[i - 1]
  <2>1. /\ a \o b \in Seq(WordType) /\ Len(a \o b) = Len(a) + Len(b)
        /\ \A i \in 1 .. Len(a) : (a \o b)[i] = a[i]
        /\ \A i \in Len(a) + 1 .. Len(a) + Len(b) : (a \o b)[i] = b[i - Len(a)]
    BY <1>3, <1>4, JoinIs
  <2>2. 1 + 1 = 2 /\ 1 \in 1 .. 1
    OBVIOUS
  <2> QED
    BY <1>3, <1>4, <2>1, <2>2
<1>6. ASSUME NEW i \in 1 .. n PROVE (a \o b)[1 + i] = Format!Payload(p, i)
  <2>1. PICK j \in 2 .. 1 + n : j = 1 + i /\ j - 1 = i
    BY <1>1
  <2>2. (a \o b)[j] = b[j - 1] /\ b[i] = Format!Payload(p, i)
    BY <1>4, <1>5
  <2> QED
    BY <2>1, <2>2
<1> QED
  BY <1>2, <1>3, <1>5, <1>6 DEF n

(* On the stream, the words of the packet.                                 *)
LEMMA PacketStreamIs ==
  ASSUME NEW p \in Packet
  PROVE  LET os == Format!PacketStream(p)
             n == Format!WordsFor(p.wire)
         IN  /\ os \in Seq(OutType) /\ Len(os) = n
             /\ \A i \in 1 .. n : os[i] =
                  [tvalid |-> TRUE,
                   tdata  |-> IF i <= Format!WordsFor(p.snap) THEN Format!Payload(p, i)
                              ELSE Format!TraceWord(0, 0, 0),
                   tlast  |-> i = n,
                   tkeep  |-> IF i = n THEN p.wire - (n - 1) * WordBytes ELSE WordBytes,
                   tuser  |-> IF i = 1 THEN p.delta ELSE 0]
<1> DEFINE n == Format!WordsFor(p.wire)
           f == Format!PacketStream(p)
           o(i) == [tvalid |-> TRUE,
                    tdata  |-> IF i <= Format!WordsFor(p.snap) THEN Format!Payload(p, i)
                               ELSE Format!TraceWord(0, 0, 0),
                    tlast  |-> i = n,
                    tkeep  |-> IF i = n THEN p.wire - (n - 1) * WordBytes ELSE WordBytes,
                    tuser  |-> IF i = 1 THEN p.delta ELSE 0]
<1>1. n \in Nat /\ p.delta \in Nat /\ p.wire \in Nat /\ WordBytes \in Nat
  BY PacketIs, Units
<1>2. f = [i \in 1 .. n |-> o(i)]
  BY DEF Format!PacketStream
<1>3. ASSUME NEW i \in 1 .. n PROVE o(i) \in OutType
  <2> HIDE DEF n
  <2>1. Format!Payload(p, i) \in WordType /\ Format!TraceWord(0, 0, 0) \in WordType
    BY <1>1, PayloadIs DEF Format!TraceWord, WordType
  <2>2. (n - 1) * WordBytes \in Int /\ p.wire - (n - 1) * WordBytes \in Int
    BY <1>1
  <2>3. (i = n) \in BOOLEAN
    OBVIOUS
  <2> HIDE DEF WordType
  <2>4. (IF i <= Format!WordsFor(p.snap) THEN Format!Payload(p, i)
         ELSE Format!TraceWord(0, 0, 0)) \in WordType
    BY <2>1
  <2>5. (IF i = n THEN p.wire - (n - 1) * WordBytes ELSE WordBytes) \in Int
    BY <1>1, <2>2
  <2>6. (IF i = 1 THEN p.delta ELSE 0) \in Int
    BY <1>1
  <2> QED
    BY <2>3, <2>4, <2>5, <2>6, Zenon DEF OutType
<1> HIDE DEF o
<1>4. f \in [1 .. n -> OutType] /\ \A i \in 1 .. n : f[i] = o(i)
  <2> HIDE DEF f, n
  <2> QED
    BY <1>2, <1>3
<1>5. f \in Seq(OutType) /\ Len(f) = n
  <2> HIDE DEF f, n
  <2> QED
    BY <1>1, <1>4, ListIs
<1> QED
  BY <1>4, <1>5 DEF o

(* The packets of the trace that is replayed.                              *)
LEMMA TraceIs ==
  ASSUME GoodTraces, trace_size \in Sizes
  PROVE  /\ Len(Trace) \in Nat /\ DOMAIN Trace = 1 .. Len(Trace)
         /\ \A k \in 1 .. Len(Trace) : Trace[k] \in Packet
         /\ WordSeqs \in Seq(Seq(WordType)) /\ Len(WordSeqs) = Len(Trace)
         /\ OutSeqs \in Seq(Seq(OutType)) /\ Len(OutSeqs) = Len(Trace)
         /\ \A k \in 1 .. Len(Trace) : /\ WordSeqs[k] = Format!PacketWords(Trace[k])
                                       /\ OutSeqs[k] = Format!PacketStream(Trace[k])
<1>1. Trace \in Seq(Packet)
  BY DEF GoodTraces, Trace
<1>2. /\ Len(Trace) \in Nat /\ DOMAIN Trace = 1 .. Len(Trace)
      /\ \A k \in 1 .. Len(Trace) : Trace[k] \in Packet
  BY <1>1
<1>3. \A k \in 1 .. Len(Trace) : /\ Format!PacketWords(Trace[k]) \in Seq(WordType)
                                 /\ Format!PacketStream(Trace[k]) \in Seq(OutType)
  BY <1>2, PacketWordsAre, PacketStreamIs
<1>4. WordSeqs \in [1 .. Len(Trace) -> Seq(WordType)]
  BY <1>2, <1>3 DEF WordSeqs
<1>5. OutSeqs \in [1 .. Len(Trace) -> Seq(OutType)]
  BY <1>2, <1>3 DEF OutSeqs
<1>6. WordSeqs \in Seq(Seq(WordType)) /\ Len(WordSeqs) = Len(Trace)
  BY <1>2, <1>4, ListIs
<1>7. OutSeqs \in Seq(Seq(OutType)) /\ Len(OutSeqs) = Len(Trace)
  BY <1>2, <1>5, ListIs
<1>8. \A k \in 1 .. Len(Trace) : /\ WordSeqs[k] = Format!PacketWords(Trace[k])
                                 /\ OutSeqs[k] = Format!PacketStream(Trace[k])
  BY <1>2 DEF WordSeqs, OutSeqs
<1> QED
  BY <1>2, <1>6, <1>7, <1>8

(* The words of the packets, and ones up to the end of the last beat.      *)
LEMMA TraceWordsAre ==
  ASSUME GoodTraces, trace_size \in Sizes
  PROVE  LET t == Format!TraceWords(Trace)
             w == WordsOf(Len(Trace))
         IN  /\ w \in Seq(WordType) /\ t \in Seq(WordType) /\ Begins(w, t)
             /\ \A i \in Len(w) + 1 .. Len(t) : t[i] = Padding
             /\ Len(t) = trace_size * WordsPerBeat
<1> DEFINE t == Format!TraceWords(Trace)
           w == WordsOf(Len(Trace))
           b == WordsPerBeat
           m == Len(w)
           k == (b - (m % b)) % b
           ones == [i \in 1 .. k |-> Format!TraceWord(-1, -1, -1)]
<1>1. /\ WordSeqs \in Seq(Seq(WordType)) /\ Len(WordSeqs) = Len(Trace) /\ Len(Trace) \in Nat
  BY TraceIs
<1>2. w = Format!FlattenSeq(WordSeqs)
  BY <1>1, UptoFlat DEF WordsOf
<1>3. w \in Seq(WordType) /\ m \in Nat
  <2>1. Len(Trace) \in 0 .. Len(WordSeqs)
    BY <1>1
  <2> QED
    BY <1>1, <2>1, UptoType DEF WordsOf
<1>4. t = w \o ones
  BY <1>2 DEF Format!TraceWords, WordSeqs
<1>b. b \in Nat \ {0} /\ trace_size \in Nat
  BY Units, RingAssumption
<1>5. trace_size = Len(t) \div b
  BY ReplayAssumption DEF Trace, Format!TraceBeats
<1> HIDE DEF w, t, b
<1>6. k \in Nat /\ (m + k) % b = 0
  <2> DEFINE q == m \div b  r == m % b
  <2>1. m = b * q + r /\ q \in Nat /\ r \in Nat /\ r < b
    BY <1>b, <1>3, Division
  <2>2. k = (b - r) % b
    OBVIOUS
  <2> HIDE DEF q, r, k, m
  <2>3. b * q = q * b /\ q * b \in Nat /\ (q + 1) * b = q * b + b
    BY <1>b, <2>1
  <2>4. CASE r = 0
    <3>1. b - r = 1 * b + 0 /\ b - r \in Nat
      BY <1>b, <2>4
    <3>2. k = 0
      BY <1>b, <2>2, <3>1, Quotient
    <3>3. m + k = q * b + 0 /\ m + k \in Nat
      BY <2>1, <2>3, <2>4, <3>2
    <3>4. (m + k) % b = 0
      <4> DEFINE n == m + k
      <4>1. n \in Nat /\ n = q * b + 0 /\ 0 < b
        BY <1>b, <3>3
      <4> HIDE DEF n
      <4>2. n % b = 0
        BY <1>b, <2>1, <4>1, Quotient
      <4> QED
        BY <4>2 DEF n
    <3> QED
      BY <3>2, <3>4
  <2>5. CASE r # 0
    <3>1. b - r = 0 * b + (b - r) /\ b - r \in Nat /\ b - r < b
      BY <1>b, <2>1, <2>5
    <3>2. k = b - r
      BY <1>b, <2>2, <3>1, Quotient
    <3>3. m + k = (q + 1) * b + 0 /\ m + k \in Nat /\ q + 1 \in Nat
      BY <1>b, <2>1, <2>3, <3>1, <3>2
    <3>4. (m + k) % b = 0
      <4> DEFINE n == m + k  d == q + 1
      <4>1. n \in Nat /\ d \in Nat /\ n = d * b + 0 /\ 0 < b
        BY <1>b, <3>3
      <4> HIDE DEF n, d
      <4>2. n % b = 0
        BY <1>b, <4>1, Quotient
      <4> QED
        BY <4>2 DEF n
    <3> QED
      BY <3>1, <3>2, <3>4
  <2> QED
    BY <2>4, <2>5
<1> HIDE DEF k
<1>7. ones \in Seq(WordType) /\ Len(ones) = k /\ \A i \in 1 .. k : ones[i] = Padding
  <2>1. Format!TraceWord(-1, -1, -1) \in WordType /\ Format!TraceWord(-1, -1, -1) = Padding
    BY DEF Format!TraceWord, WordType, Padding, Word
  <2> HIDE DEF WordType, Padding
  <2>2. ones \in [1 .. k -> WordType] /\ \A i \in 1 .. k : ones[i] = Padding
    BY <2>1
  <2> HIDE DEF ones
  <2> QED
    BY <1>6, <2>2, ListIs
<1> HIDE DEF ones
<1>8. /\ t \in Seq(WordType) /\ Len(t) = m + k
      /\ \A i \in 1 .. m : t[i] = w[i]
      /\ \A i \in m + 1 .. m + k : t[i] = ones[i - m]
  <2>1. /\ w \o ones \in Seq(WordType) /\ Len(w \o ones) = Len(w) + Len(ones)
        /\ \A i \in 1 .. Len(w) : (w \o ones)[i] = w[i]
        /\ \A i \in Len(w) + 1 .. Len(w) + Len(ones) : (w \o ones)[i] = ones[i - Len(w)]
    BY <1>3, <1>7, JoinIs
  <2> QED
    BY <1>4, <1>7, <2>1
<1>9. Begins(w, t)
  BY <1>3, <1>6, <1>8 DEF Begins
<1>10. ASSUME NEW i \in m + 1 .. Len(t) PROVE t[i] = Padding
  <2>1. i \in m + 1 .. m + k /\ i - m \in 1 .. k
    BY <1>3, <1>6, <1>8
  <2> QED
    BY <1>7, <1>8, <2>1
<1>11. Len(t) = trace_size * b
  <2> DEFINE n == Len(t)  d == n \div b
  <2>1. n \in Nat /\ n % b = 0
    BY <1>3, <1>6, <1>8
  <2>2. n = b * d + (n % b) /\ d \in Nat
    BY <1>b, <2>1, Division
  <2>3. d = trace_size
    BY <1>5
  <2> HIDE DEF n, d
  <2>4. n = trace_size * b
    BY <1>b, <2>1, <2>2, <2>3
  <2> QED
    BY <2>4 DEF n
<1> HIDE DEF m
<1> QED
  BY <1>3, <1>8, <1>9, <1>10, <1>11 DEF w, t, b, m

(* The words of a packet in the trace.                                     *)
LEMMA TracePart ==
  ASSUME GoodTraces, trace_size \in Sizes, NEW k \in 1 .. Len(Trace),
         NEW i \in 1 .. Len(WordSeqs[k])
  PROVE  /\ Len(WordsOf(k - 1)) + i \in 1 .. Len(Format!TraceWords(Trace))
         /\ Format!TraceWords(Trace)[Len(WordsOf(k - 1)) + i] = WordSeqs[k][i]
<1> DEFINE t == Format!TraceWords(Trace)
           w == WordsOf(Len(Trace))
           a == Len(WordsOf(k - 1)) + i
<1>1. WordSeqs \in Seq(Seq(WordType)) /\ Len(WordSeqs) = Len(Trace)
  BY TraceIs
<1>2. a \in 1 .. Len(w) /\ w[a] = WordSeqs[k][i]
  BY <1>1, UptoPart DEF WordsOf
<1>3. w \in Seq(WordType) /\ t \in Seq(WordType) /\ Begins(w, t)
  BY TraceWordsAre
<1> HIDE DEF t, w, a
<1>4. a \in 1 .. Len(t) /\ t[a] = w[a]
  BY <1>2, <1>3 DEF Begins
<1> QED
  BY <1>2, <1>4 DEF t, a

LEMMA TraceOutputIs ==
  ASSUME GoodTraces, trace_size \in Sizes
  PROVE  Format!TraceOutput(Trace) = OutOf(Len(Trace))
<1>1. OutSeqs \in Seq(Seq(OutType)) /\ Len(OutSeqs) = Len(Trace)
  BY TraceIs
<1>2. Format!TraceOutput(Trace) = Format!FlattenSeq(OutSeqs)
  BY DEF Format!TraceOutput, OutSeqs
<1> QED
  BY <1>1, <1>2, UptoFlat DEF OutOf

(* Packet by packet.                                                       *)
LEMMA PacketsOf ==
  ASSUME GoodTraces, trace_size \in Sizes
  PROVE  /\ WordsOf(0) = <<>> /\ OutOf(0) = <<>>
         /\ \A k \in 0 .. Len(Trace) :
              /\ WordsOf(k) \in Seq(WordType) /\ Len(WordsOf(k)) \in Nat
              /\ OutOf(k) \in Seq(OutType)
              /\ Begins(WordsOf(k), WordsOf(Len(Trace)))
              /\ Begins(OutOf(k), OutOf(Len(Trace)))
         /\ \A k \in 1 .. Len(Trace) :
              /\ Len(WordsOf(k)) = Len(WordsOf(k - 1)) + Len(WordSeqs[k])
              /\ OutOf(k) = OutOf(k - 1) \o OutSeqs[k]
<1>1. /\ WordSeqs \in Seq(Seq(WordType)) /\ Len(WordSeqs) = Len(Trace) /\ Len(Trace) \in Nat
      /\ OutSeqs \in Seq(Seq(OutType)) /\ Len(OutSeqs) = Len(Trace)
  BY TraceIs
<1>2. WordsOf(0) = <<>> /\ OutOf(0) = <<>>
  BY <1>1, UptoIs DEF WordsOf, OutOf
<1>3. ASSUME NEW k \in 0 .. Len(Trace)
      PROVE  /\ WordsOf(k) \in Seq(WordType) /\ Len(WordsOf(k)) \in Nat
             /\ OutOf(k) \in Seq(OutType)
             /\ Begins(WordsOf(k), WordsOf(Len(Trace)))
             /\ Begins(OutOf(k), OutOf(Len(Trace)))
  <2>1. Len(Trace) \in k .. Len(Trace)
    BY <1>1
  <2>2. WordsOf(k) \in Seq(WordType) /\ Len(WordsOf(k)) \in Nat
    BY <1>1, UptoType DEF WordsOf
  <2>3. OutOf(k) \in Seq(OutType)
    BY <1>1, UptoType DEF OutOf
  <2>4. Begins(WordsOf(k), WordsOf(Len(Trace)))
    BY <1>1, <2>1, UptoBegins DEF WordsOf
  <2>5. Begins(OutOf(k), OutOf(Len(Trace)))
    BY <1>1, <2>1, UptoBegins DEF OutOf
  <2> QED
    BY <2>2, <2>3, <2>4, <2>5
<1>4. ASSUME NEW k \in 1 .. Len(Trace)
      PROVE  /\ Len(WordsOf(k)) = Len(WordsOf(k - 1)) + Len(WordSeqs[k])
             /\ OutOf(k) = OutOf(k - 1) \o OutSeqs[k]
  <2>1. WordsOf(k) = WordsOf(k - 1) \o WordSeqs[k]
    BY <1>1, UptoIs DEF WordsOf
  <2>2. OutOf(k) = OutOf(k - 1) \o OutSeqs[k]
    BY <1>1, UptoIs DEF OutOf
  <2>3. k - 1 \in 0 .. Len(Trace)
    BY <1>1
  <2>4. WordsOf(k - 1) \in Seq(WordType)
    BY <1>3, <2>3
  <2>5. WordSeqs[k] \in Seq(WordType)
    BY TraceIs, PacketWordsAre
  <2> QED
    BY <2>1, <2>2, <2>4, <2>5, JoinIs
<1> QED
  BY <1>2, <1>3, <1>4

-----------------------------------------------------------------------------
(***************************************************************************)
(* One clock edge.                                                         *)
(***************************************************************************)
LEMMA StoredFits ==
  ASSUME IInv, Running
  PROVE  /\ ~rst /\ trace_size \in Sizes /\ trace_size \in Nat
         /\ stored \in Seq(Int) /\ Len(stored) \in Nat /\ Len(stored) <= trace_size
         /\ \A i \in 1 .. Len(stored) : stored[i] = i - 1
<1>1. ~rst /\ trace_size \in Sizes /\ stored \in Seq(Int) /\ fifo_wr_en \in BOOLEAN
  BY DEF IInv, TypeOK, PhaseInv, Running, MemReadTypeOK
<1>2. trace_size \in Nat /\ Len(stored) \in Nat
  BY <1>1, RingAssumption
<1>3. \A i \in 1 .. Len(stored) : stored[i] = i - 1
  BY DEF IInv, FifoInv, StoredInTraceOrder
<1>4. Len(Handed) \in Nat /\ Len(stored) <= Len(Handed)
  BY <1>1 DEF Handed, IInv, TypeOK, MemReadTypeOK
<1>5. Len(stored) <= trace_size
  <2>1. CASE mr_state # "IDLE"
    <3>1. Len(Handed) = read_cntr /\ read_cntr < trace_size /\ read_cntr \in Nat
      BY <1>1, <2>1 DEF IInv, FifoInv, RingInv, TypeOK, MemReadTypeOK
    <3> QED
      BY <1>2, <1>4, <3>1
  <2>2. CASE mr_state = "IDLE" /\ sw = "started"
    <3>1. stored = <<>>
      BY <1>1, <2>2 DEF IInv, PhaseInv
    <3> QED
      BY <1>2, <3>1
  <2>3. CASE mr_state = "IDLE" /\ sw # "started"
    <3>1. Len(Handed) = trace_size
      BY <1>1, <2>3 DEF IInv, PhaseInv, Running
    <3> QED
      BY <1>2, <1>4, <3>1
  <2> QED
    BY <2>1, <2>2, <2>3
<1> QED
  BY <1>1, <1>2, <1>3, <1>5

(* Numbers of words, from numbers of beats.                                *)
LEMMA ReadIs ==
  ASSUME IInv, SideInv
  PROVE  /\ drained \in Nat /\ sub \in Nat /\ sub < WordsPerBeat /\ ReadWords \in Nat
         /\ drained * WordsPerBeat \in Nat
<1>1. drained \in Nat /\ sub \in Nat /\ sub < WordsPerBeat
  BY Units DEF IInv, TypeOK, SideInv
<1>2. drained * WordsPerBeat \in Nat
  BY <1>1, Units
<1> QED
  BY <1>1, <1>2 DEF ReadWords

(* The FIFO shows the next word of the trace.                              *)
LEMMA HeadIs ==
  ASSUME IInv, SideInv, Running, GoodTraces, ~fifo_empty
  PROVE  /\ ReadWords + 1 \in 1 .. Len(Format!TraceWords(Trace))
         /\ fifo_dout = Format!TraceWords(Trace)[ReadWords + 1]
<1>1. /\ ~rst /\ trace_size \in Sizes /\ trace_size \in Nat
      /\ Len(stored) \in Nat /\ Len(stored) <= trace_size
      /\ \A i \in 1 .. Len(stored) : stored[i] = i - 1
  BY StoredFits
<1>2. /\ drained \in Nat /\ sub \in Nat /\ sub < WordsPerBeat /\ ReadWords \in Nat
      /\ drained * WordsPerBeat \in Nat
  BY ReadIs
<1>3. drained < shown /\ shown \in Nat /\ shown <= Len(stored)
  BY <1>1, <1>2 DEF SideInv, fifo_empty
<1>4. stored[drained + 1] = drained /\ drained < trace_size
  <2>1. PICK i \in 1 .. Len(stored) : i = drained + 1
    BY <1>1, <1>2, <1>3
  <2>2. stored[i] = i - 1 /\ i - 1 = drained
    BY <1>1, <1>2, <2>1
  <2> QED
    BY <1>1, <1>2, <1>3, <2>1, <2>2
<1>5. stored[drained + 1] \in 0 .. trace_size - 1
  BY <1>1, <1>2, <1>4
<1>6. fifo_dout = Format!TraceWords(Trace)[ReadWords + 1]
  BY <1>4, <1>5 DEF fifo_dout, ReadWords
<1>7. Len(Format!TraceWords(Trace)) = trace_size * WordsPerBeat
  BY <1>1, TraceWordsAre
<1>8. /\ drained * WordsPerBeat + WordsPerBeat <= trace_size * WordsPerBeat
      /\ trace_size * WordsPerBeat \in Nat
  BY <1>1, <1>2, <1>4, Units, Product
<1>9. ReadWords + 1 \in 1 .. trace_size * WordsPerBeat
  BY <1>2, <1>8, Units DEF ReadWords
<1> QED
  BY <1>6, <1>7, <1>9

(* A clock edge on the output side of the FIFO.                            *)
LEMMA ClockSide ==
  ASSUME IInv, SideInv, ~rst, NEW arready \in BOOLEAN, NEW deliver \in BOOLEAN,
         NEW tready \in BOOLEAN, RpClock(arready, deliver, tready)
  PROVE  /\ ReadWords' = IF Pop(tready) THEN ReadWords + 1 ELSE ReadWords
         /\ sub' \in 0 .. WordsPerBeat - 1
         /\ shown' \in 0 .. Len(stored') /\ drained' <= shown'
         /\ sub' # 0 => drained' < shown'
         /\ Len(stored) <= Len(stored') /\ Len(stored') \in Nat
         /\ ~Pop(tready) => sub' = sub /\ drained' = drained
         /\ UNCHANGED <<rst, sw, trace_size>>
<1> DEFINE drain == Pop(tready) /\ sub = WordsPerBeat - 1
<1>1. ClockEdge(arready, deliver, drain) /\ drain \in BOOLEAN
  BY DEF RpClock
<1>2. FifoClock(drain) /\ UNCHANGED <<rst, sw, trace_size>>
  BY <1>1 DEF ClockEdge, swVars
<1>3. Len(stored') = Len(stored) + Pushed /\ Len(stored) \in Nat /\ Pushed \in {0, 1}
  <2> HIDE DEF drain
  <2>1. Len(stored') = Len(stored) + Pushed
    BY <1>1, <1>2, ClockFifo
  <2> QED
    BY <2>1 DEF Pushed, IInv, TypeOK
<1>4. drained' = IF drain THEN drained + 1 ELSE drained
  BY <1>2 DEF FifoClock
<1>5. sub' = IF Pop(tready) THEN (sub + 1) % WordsPerBeat ELSE sub
  BY DEF RpClock
<1>6. shown' \in shown .. Len(stored')
  BY DEF RpClock
<1>7. /\ drained \in Nat /\ sub \in Nat /\ sub < WordsPerBeat
      /\ drained * WordsPerBeat \in Nat /\ WordsPerBeat \in Nat \ {0}
  BY ReadIs, Units
<1>8. shown \in Nat /\ shown <= Len(stored) /\ drained <= shown /\ (sub # 0 => drained < shown)
  BY <1>3 DEF SideInv
<1>9. Pop(tready) => drained < shown
  BY <1>7, <1>8 DEF Pop, fifo_empty
<1>10. shown' \in Nat /\ shown <= shown' /\ shown' <= Len(stored')
  BY <1>3, <1>6, <1>8
<1>11. CASE ~Pop(tready)
  <2>1. sub' = sub /\ drained' = drained
    BY <1>4, <1>5, <1>11
  <2>2. ReadWords' = ReadWords
    BY <2>1 DEF ReadWords
  <2> QED
    BY <1>2, <1>3, <1>7, <1>8, <1>10, <1>11, <2>1, <2>2
<1>12. CASE Pop(tready) /\ sub = WordsPerBeat - 1
  <2>1. drained' = drained + 1
    BY <1>4, <1>12
  <2>2. sub' = 0
    <3>1. sub + 1 = 1 * WordsPerBeat + 0 /\ sub + 1 \in Nat /\ 0 < WordsPerBeat
      BY <1>7, <1>12
    <3>2. (sub + 1) % WordsPerBeat = 0
      BY <1>7, <3>1, Quotient
    <3> QED
      BY <1>5, <1>12, <3>2
  <2>3. (drained + 1) * WordsPerBeat = drained * WordsPerBeat + WordsPerBeat
    BY <1>7
  <2>4. ReadWords' = ReadWords + 1
    BY <1>7, <1>12, <2>1, <2>2, <2>3 DEF ReadWords
  <2>5. sub' \in 0 .. WordsPerBeat - 1 /\ drained' <= shown' /\ sub' = 0
    BY <1>7, <1>9, <1>10, <1>12, <1>8, <2>1, <2>2
  <2> QED
    BY <1>2, <1>3, <1>10, <1>12, <2>4, <2>5
<1>13. CASE Pop(tready) /\ sub # WordsPerBeat - 1
  <2>1. drained' = drained
    BY <1>4, <1>13
  <2>2. sub' = sub + 1
    <3>1. sub + 1 = 0 * WordsPerBeat + (sub + 1) /\ sub + 1 \in Nat /\ sub + 1 < WordsPerBeat
      BY <1>7, <1>13
    <3>2. (sub + 1) % WordsPerBeat = sub + 1
      BY <1>7, <3>1, Quotient
    <3> QED
      BY <1>5, <1>13, <3>2
  <2>3. ReadWords' = ReadWords + 1
    BY <1>7, <2>1, <2>2 DEF ReadWords
  <2>4. sub' \in 0 .. WordsPerBeat - 1 /\ drained' < shown' /\ drained' <= shown'
    BY <1>7, <1>9, <1>10, <1>13, <1>8, <2>1, <2>2
  <2> QED
    BY <1>2, <1>3, <1>10, <1>13, <2>3, <2>4
<1> QED
  BY <1>11, <1>12, <1>13

(* A clock edge on the stream: the slave takes what is pending, and the    *)
(* assembler puts another word there.                                      *)
LEMMA ClockSends ==
  ASSUME OutInv, ~rst, NEW arready \in BOOLEAN, NEW deliver \in BOOLEAN,
         NEW tready \in BOOLEAN, RpClock(arready, deliver, tready)
  PROVE  /\ SoFar \in Seq(OutType)
         /\ out' \in Seq(OutType)
         /\ m_axis'.tvalid \in BOOLEAN
         /\ tready /\ do_tx(fifo_empty) =>
              SoFar' = SoFar \o <<m_axis'>> /\ m_axis'.tvalid = TRUE
         /\ tready /\ ~do_tx(fifo_empty) => SoFar' = SoFar /\ ~m_axis'.tvalid
         /\ ~tready => SoFar' = SoFar /\ m_axis' = m_axis /\ out' = out
         /\ ~m_axis.tvalid => out' = out
<1>1. AsOutput(rst, fifo_empty, fifo_dout, tready)
  BY DEF RpClock, AssembleClock
<1>2. out' = IF m_axis.tvalid /\ tready THEN Append(out, m_axis) ELSE out
  BY DEF RpClock
<1>3. out \in Seq(OutType) /\ m_axis.tvalid \in BOOLEAN /\ (m_axis.tvalid => m_axis \in OutType)
  BY DEF OutInv
<1>4. /\ ~tready => m_axis' = m_axis
      /\ tready => m_axis'.tvalid = do_tx(fifo_empty)
  BY <1>1 DEF AsOutput
<1>5. do_tx(fifo_empty) \in BOOLEAN
  BY DEF do_tx
<1> HIDE DEF OutType
<1>6. SoFar \in Seq(OutType) /\ out' \in Seq(OutType) /\ (tready => out' = SoFar)
      /\ (~tready \/ ~m_axis.tvalid => out' = out)
  <2>1. CASE m_axis.tvalid
    <3>1. SoFar = out \o <<m_axis>> /\ m_axis \in OutType
      BY <1>3, <2>1 DEF SoFar, Pending
    <3>2. Append(out, m_axis) = out \o <<m_axis>> /\ Append(out, m_axis) \in Seq(OutType)
      BY <1>3, <3>1
    <3> QED
      BY <1>2, <1>3, <2>1, <3>1, <3>2
  <2>2. CASE ~m_axis.tvalid
    <3>1. SoFar = out \o <<>>
      BY <2>2 DEF SoFar, Pending
    <3>2. out \o <<>> = out
      BY <1>3
    <3> QED
      BY <1>2, <1>3, <2>2, <3>1, <3>2
  <2> QED
    BY <2>1, <2>2
<1>7. CASE ~tready
  <2>1. SoFar' = SoFar
    BY <1>4, <1>6, <1>7 DEF SoFar, Pending
  <2> QED
    BY <1>3, <1>4, <1>6, <1>7, <2>1
<1>8. CASE tready /\ do_tx(fifo_empty)
  <2>1. m_axis'.tvalid = TRUE
    BY <1>4, <1>8
  <2>2. SoFar' = out' \o <<m_axis'>>
    BY <2>1 DEF SoFar, Pending
  <2> QED
    BY <1>6, <1>8, <2>1, <2>2
<1>9. CASE tready /\ ~do_tx(fifo_empty)
  <2>1. m_axis'.tvalid = FALSE
    BY <1>4, <1>5, <1>9
  <2>2. SoFar' = out' \o <<>>
    BY <2>1 DEF SoFar, Pending
  <2>3. out' \o <<>> = out'
    BY <1>6
  <2> QED
    BY <1>6, <1>9, <2>1, <2>2, <2>3
<1> QED
  BY <1>7, <1>8, <1>9

-----------------------------------------------------------------------------
(***************************************************************************)
(* The assembler, word by word.                                            *)
(***************************************************************************)
(* What it compares is whether the packet has more words.                  *)
LEMMA SendingIs ==
  ASSUME GoodTraces, trace_size \in Sizes, word_cntr \in Nat,
         NEW k \in 1 .. Len(Trace), Sending(k)
  PROVE  LET p == Trace[k]
             s == Format!WordsFor(p.snap)
             w == Format!WordsFor(p.wire)
         IN  /\ p \in Packet /\ s \in Nat /\ w \in Nat /\ s <= w /\ word_cntr < w
             /\ meta.delta = p.delta /\ meta.snap = p.snap /\ meta.wire = p.wire
             /\ tx_done_snap <=> ~(word_cntr < s)
             /\ tx_done_wire <=> word_cntr + 1 = w
             /\ Keep = IF word_cntr + 1 = w THEN p.wire - word_cntr * WordBytes ELSE WordBytes
<1> DEFINE p == Trace[k]  s == Format!WordsFor(p.snap)  w == Format!WordsFor(p.wire)
           c == word_cntr
<1>1. p \in Packet /\ WordSeqs[k] = Format!PacketWords(p)
  BY TraceIs
<1>2. WordSeqs[k][1] = Format!TraceWord(p.delta, p.snap, p.wire)
  BY <1>1, PacketWordsAre
<1>3. meta.delta = p.delta /\ meta.snap = p.snap /\ meta.wire = p.wire
  BY <1>2 DEF Sending, Format!TraceWord
<1>4. s \in Nat /\ w \in Nat /\ s <= w /\ p.snap \in Nat /\ p.wire \in Nat
  BY <1>1, PacketIs
<1>5. c \in Nat /\ c + 1 \in Nat /\ c < w
  BY DEF Sending
<1>6. /\ c * WordBytes \in Nat /\ (c + 1) * WordBytes \in Nat
      /\ c < s <=> c * WordBytes < p.snap
      /\ c < w <=> c * WordBytes < p.wire
      /\ c + 1 < w <=> (c + 1) * WordBytes < p.wire
  BY <1>4, <1>5, WordsBegin
<1> HIDE DEF p, s, w
<1>7. tx_done_snap <=> ~(c < s)
  <2>1. c * WordBytes \in Nat /\ (c < s <=> c * WordBytes < p.snap)
        /\ p.snap \in Nat /\ meta.snap = p.snap
    BY <1>3, <1>4, <1>6
  <2>2. c * WordBytes >= p.snap <=> ~(c * WordBytes < p.snap)
    BY <2>1
  <2> QED
    BY <2>1, <2>2 DEF tx_done_snap
<1>8. tx_done_wire <=> c + 1 = w
  <2>1. (c + 1) * WordBytes \in Nat /\ (c + 1 < w <=> (c + 1) * WordBytes < p.wire)
        /\ p.wire \in Nat /\ meta.wire = p.wire
    BY <1>3, <1>4, <1>6
  <2>2. (c + 1) * WordBytes >= p.wire <=> ~((c + 1) * WordBytes < p.wire)
    BY <2>1
  <2>3. ~(c + 1 < w) <=> c + 1 = w
    BY <1>4, <1>5
  <2> QED
    BY <2>1, <2>2, <2>3 DEF tx_done_wire
<1>9. Keep = IF c + 1 = w THEN p.wire - c * WordBytes ELSE WordBytes
  <2>1. CASE c + 1 = w
    <3>1. c * WordBytes < p.wire /\ p.wire <= (c + 1) * WordBytes
      BY <1>4, <1>5, <1>6, <2>1
    <3>2. (IF p.wire % WordBytes # 0 THEN p.wire % WordBytes ELSE WordBytes)
             = p.wire - c * WordBytes
      BY <1>4, <1>5, <3>1, LastBytes
    <3> QED
      BY <1>3, <1>8, <2>1, <3>2 DEF Keep
  <2>2. CASE c + 1 # w
    BY <1>8, <2>2 DEF Keep
  <2> QED
    BY <2>1, <2>2
<1> QED
  BY <1>1, <1>3, <1>4, <1>5, <1>7, <1>8, <1>9 DEF p, s, w

(* The next payload word is at the head of the FIFO when it is due.        *)
LEMMA PayloadDue ==
  ASSUME IInv, SideInv, Running, GoodTraces, NEW k \in 1 .. Len(Trace), Sending(k),
         ~fifo_empty, word_cntr < Format!WordsFor(Trace[k].snap)
  PROVE  fifo_dout = Format!Payload(Trace[k], word_cntr + 1)
<1> DEFINE c == word_cntr  s == Format!WordsFor(Trace[k].snap)  a == Len(WordsOf(k - 1))
<1>1. trace_size \in Sizes
  BY StoredFits
<1>2. Trace[k] \in Packet /\ WordSeqs[k] = Format!PacketWords(Trace[k])
      /\ Len(Trace) \in Nat
  BY <1>1, TraceIs
<1>3. s \in Nat
  BY <1>2, PacketIs
<1>4. c \in Nat /\ c < s
  BY DEF SideInv
<1>5. a \in Nat
  <2>1. k - 1 \in 0 .. Len(Trace)
    BY <1>2
  <2> QED
    BY <1>1, <2>1, PacketsOf
<1>6. ReadWords = a + 1 + Least(c, s)
  BY DEF Sending
<1> HIDE DEF a, s
<1>7. ReadWords + 1 = a + (1 + (c + 1))
  BY <1>3, <1>4, <1>5, <1>6 DEF Least
<1>8. c + 1 \in 1 .. s
  BY <1>3, <1>4
<1>9. /\ Len(WordSeqs[k]) = 1 + s
      /\ WordSeqs[k][1 + (c + 1)] = Format!Payload(Trace[k], c + 1)
  BY <1>2, <1>8, PacketWordsAre DEF s
<1>10. 1 + (c + 1) \in 1 .. Len(WordSeqs[k])
  BY <1>3, <1>8, <1>9
<1>11. Format!TraceWords(Trace)[a + (1 + (c + 1))] = WordSeqs[k][1 + (c + 1)]
  BY <1>1, <1>10, TracePart DEF a
<1>12. fifo_dout = Format!TraceWords(Trace)[ReadWords + 1]
  BY HeadIs
<1> QED
  BY <1>7, <1>9, <1>11, <1>12

(* What is put on the stream is the next word of the packet.               *)
LEMMA WordSent ==
  ASSUME IInv, SideInv, Running, GoodTraces, NEW k \in 1 .. Len(Trace), Sending(k),
         NEW arready \in BOOLEAN, NEW deliver \in BOOLEAN, RpClock(arready, deliver, TRUE),
         do_tx(fifo_empty)
  PROVE  m_axis' = OutSeqs[k][word_cntr + 1] /\ m_axis' \in OutType
<1> DEFINE c == word_cntr  p == Trace[k]
           s == Format!WordsFor(p.snap)  w == Format!WordsFor(p.wire)
<1>1. trace_size \in Sizes /\ ~rst /\ c \in Nat
  BY StoredFits DEF SideInv
<1>2. /\ p \in Packet /\ s \in Nat /\ w \in Nat /\ s <= w /\ c < w
      /\ meta.delta = p.delta
      /\ tx_done_snap <=> ~(c < s)
      /\ tx_done_wire <=> c + 1 = w
      /\ Keep = IF c + 1 = w THEN p.wire - c * WordBytes ELSE WordBytes
  BY <1>1, SendingIs
<1>3. OutSeqs[k] = Format!PacketStream(p)
  BY <1>1, TraceIs
<1>4. /\ Format!PacketStream(p) \in Seq(OutType) /\ Len(Format!PacketStream(p)) = w
      /\ \A i \in 1 .. w : Format!PacketStream(p)[i] =
           [tvalid |-> TRUE,
            tdata  |-> IF i <= s THEN Format!Payload(p, i) ELSE Format!TraceWord(0, 0, 0),
            tlast  |-> i = w,
            tkeep  |-> IF i = w THEN p.wire - (w - 1) * WordBytes ELSE WordBytes,
            tuser  |-> IF i = 1 THEN p.delta ELSE 0]
  BY <1>2, PacketStreamIs
<1>5. m_axis' = [tvalid |-> do_tx(fifo_empty),
                 tdata  |-> IF tx_done_snap THEN Zero ELSE fifo_dout,
                 tlast  |-> do_tx(fifo_empty) /\ tx_done_wire,
                 tkeep  |-> Keep,
                 tuser  |-> IF c = 0 THEN meta.delta ELSE 0]
  BY <1>1 DEF RpClock, AssembleClock, AsOutput
<1>6. c < s => fifo_dout = Format!Payload(p, c + 1)
  <2> SUFFICES ASSUME c < s PROVE fifo_dout = Format!Payload(p, c + 1)
    OBVIOUS
  <2>1. ~fifo_empty
    BY <1>2 DEF do_tx
  <2> QED
    BY <2>1, PayloadDue
<1>7. Zero = Format!TraceWord(0, 0, 0)
  BY DEF Zero, Word, Format!TraceWord
<1>8. PICK i \in 1 .. w : i = c + 1
  BY <1>1, <1>2
<1> HIDE DEF p, s, w, OutType
<1>9. Format!PacketStream(p)[i] \in OutType
  BY <1>4
<1>10. (IF tx_done_snap THEN Zero ELSE fifo_dout)
        = IF i <= s THEN Format!Payload(p, i) ELSE Format!TraceWord(0, 0, 0)
  <2>1. c < s <=> i <= s
    BY <1>1, <1>2, <1>8
  <2> QED
    BY <1>2, <1>6, <1>7, <1>8, <2>1
<1>11. Keep = IF i = w THEN p.wire - (w - 1) * WordBytes ELSE WordBytes
  <2>1. i = w => c = w - 1
    BY <1>1, <1>2, <1>8
  <2> QED
    BY <1>2, <1>8, <2>1
<1>12. (IF c = 0 THEN meta.delta ELSE 0) = IF i = 1 THEN p.delta ELSE 0
  BY <1>1, <1>2, <1>8
<1>13. do_tx(fifo_empty) = TRUE /\ (do_tx(fifo_empty) /\ tx_done_wire) = (i = w)
  BY <1>2, <1>8 DEF do_tx
<1>14. m_axis' = Format!PacketStream(p)[i]
  BY <1>4, <1>5, <1>10, <1>11, <1>12, <1>13
<1> QED
  BY <1>3, <1>8, <1>9, <1>14 DEF p

(* The state machine in the TX state, ...                                  *)
LEMMA TxStep ==
  ASSUME ~rst, as_state = "TX", NEW arready \in BOOLEAN, NEW deliver \in BOOLEAN,
         NEW tready \in BOOLEAN, RpClock(arready, deliver, tready)
  PROVE  /\ meta' = meta
         /\ as_state' = IF tx_done_wire /\ tready THEN "META" ELSE "TX"
         /\ word_cntr' = IF ~tready \/ ~do_tx(fifo_empty) THEN word_cntr
                         ELSE IF tx_done_wire THEN 0 ELSE word_cntr + 1
         /\ Pop(tready) <=> tready /\ ~tx_done_snap /\ ~fifo_empty
         /\ do_tx(fifo_empty) <=> tx_done_snap \/ ~fifo_empty
         /\ ~(tready /\ LastWordStarved) /\ tready /\ ~do_tx(fifo_empty) => ~tx_done_wire
<1>1. AssembleClock(rst, start, fifo_empty, fifo_dout, mr_active, tready)
  BY DEF RpClock
<1>2. AsTx(rst, tready) /\ AsOutput(rst, fifo_empty, fifo_dout, tready)
  BY <1>1 DEF AssembleClock, AsIdle, AsStart, AsMeta
<1>3. meta' = meta /\ as_state' = IF tx_done_wire /\ tready THEN "META" ELSE "TX"
  BY <1>2 DEF AsTx, AsGoto
<1>4. word_cntr' = IF ~tready \/ ~do_tx(fifo_empty) THEN word_cntr
                   ELSE IF tx_done_wire THEN 0 ELSE word_cntr + 1
  BY <1>2 DEF AsOutput
<1>5. /\ Pop(tready) <=> tready /\ ~tx_done_snap /\ ~fifo_empty
      /\ do_tx(fifo_empty) <=> tx_done_snap \/ ~fifo_empty
  BY DEF Pop, fifo_rd_en, do_tx
<1>6. ~(tready /\ LastWordStarved) /\ tready /\ ~do_tx(fifo_empty) => ~tx_done_wire
  BY <1>5 DEF LastWordStarved
<1> QED
  BY <1>3, <1>4, <1>5, <1>6

(* ... and in the others.                                                  *)
LEMMA OtherStep ==
  ASSUME ~rst, as_state \in {"IDLE", "START", "META"}, NEW arready \in BOOLEAN,
         NEW deliver \in BOOLEAN, NEW tready \in BOOLEAN, RpClock(arready, deliver, tready)
  PROVE  /\ word_cntr' = word_cntr /\ ~do_tx(fifo_empty)
         /\ Pop(tready) <=> as_state = "META" /\ ~fifo_empty
         /\ as_state = "IDLE" => as_state' = IF start THEN "START" ELSE "IDLE"
         /\ as_state = "START" => as_state' = "META"
         /\ as_state = "META" /\ fifo_empty =>
              as_state' = IF mr_active THEN "META" ELSE "IDLE"
         /\ as_state = "META" /\ ~fifo_empty /\ fifo_dout = Padding => as_state' = "META"
         /\ as_state = "META" /\ ~fifo_empty /\ fifo_dout # Padding =>
              as_state' = "TX" /\ meta' = fifo_dout
<1>1. AssembleClock(rst, start, fifo_empty, fifo_dout, mr_active, tready)
  BY DEF RpClock
<1>2. ~do_tx(fifo_empty) /\ (Pop(tready) <=> as_state = "META" /\ ~fifo_empty)
  BY DEF do_tx, Pop, fifo_rd_en
<1>3. word_cntr' = word_cntr
  BY <1>1, <1>2 DEF AssembleClock, AsOutput
<1>4. CASE as_state = "IDLE"
  BY <1>1, <1>2, <1>3, <1>4 DEF AssembleClock, AsIdle, AsStart, AsMeta, AsTx, AsGoto
<1>5. CASE as_state = "START"
  BY <1>1, <1>2, <1>3, <1>5 DEF AssembleClock, AsIdle, AsStart, AsMeta, AsTx, AsGoto
<1>6. CASE as_state = "META"
  <2>1. AsMeta(rst, fifo_empty, fifo_dout, mr_active)
    BY <1>1, <1>6 DEF AssembleClock, AsIdle, AsStart, AsTx
  <2> QED
    BY <1>2, <1>3, <1>6, <2>1 DEF AsMeta, AsGoto
<1> QED
  BY <1>4, <1>5, <1>6

LEMMA SubSeqNext ==
  ASSUME NEW X, NEW a \in Seq(X), NEW o \in Seq(X), NEW c \in 0 .. Len(o) - 1
  PROVE  (a \o SubSeq(o, 1, c)) \o <<o[c + 1]>> = a \o SubSeq(o, 1, c + 1)
<1> DEFINE x == o[c + 1]  s == SubSeq(o, 1, c)  t == SubSeq(o, 1, c + 1)
<1>1. /\ Len(o) \in Nat /\ c + 1 \in 1 .. Len(o) /\ c \in Nat /\ Len(a) \in Nat
  OBVIOUS
<1>2. x \in X
  BY <1>1
<1>3. s \in Seq(X) /\ Len(s) = c /\ \A i \in 1 .. c : s[i] = o[i]
  BY <1>1
<1>4. t \in Seq(X) /\ Len(t) = c + 1 /\ \A i \in 1 .. c + 1 : t[i] = o[i]
  BY <1>1
<1>5. x = t[c + 1]
  BY <1>1, <1>4
<1> HIDE DEF x, s, t
<1>6. ASSUME NEW i \in 1 .. c PROVE s[i] = t[i]
  <2>1. i \in 1 .. c + 1
    BY <1>1
  <2> QED
    BY <1>3, <1>4, <2>1
<1> DEFINE r == a \o s  u == r \o <<x>>  v == a \o t
<1>7. /\ r \in Seq(X) /\ Len(r) = Len(a) + c
      /\ \A i \in 1 .. Len(a) : r[i] = a[i]
      /\ \A i \in Len(a) + 1 .. Len(a) + c : r[i] = s[i - Len(a)]
  <2>1. /\ a \o s \in Seq(X) /\ Len(a \o s) = Len(a) + Len(s)
        /\ \A i \in 1 .. Len(a) : (a \o s)[i] = a[i]
        /\ \A i \in Len(a) + 1 .. Len(a) + Len(s) : (a \o s)[i] = s[i - Len(a)]
    <3>1. s \in Seq(X)
      BY <1>3
    <3> HIDE DEF r
    <3> QED
      BY <3>1, JoinIs
  <2> QED
    BY <1>3, <2>1
<1>8. <<x>> \in Seq(X) /\ Len(<<x>>) = 1 /\ <<x>>[1] = x
  BY <1>2
<1>9. /\ v \in Seq(X) /\ Len(v) = Len(a) + (c + 1)
      /\ \A i \in 1 .. Len(a) : v[i] = a[i]
      /\ \A i \in Len(a) + 1 .. Len(a) + (c + 1) : v[i] = t[i - Len(a)]
  <2>1. /\ a \o t \in Seq(X) /\ Len(a \o t) = Len(a) + Len(t)
        /\ \A i \in 1 .. Len(a) : (a \o t)[i] = a[i]
        /\ \A i \in Len(a) + 1 .. Len(a) + Len(t) : (a \o t)[i] = t[i - Len(a)]
    BY <1>4, JoinIs
  <2> QED
    BY <1>4, <2>1
<1> HIDE DEF r, v
<1>10. /\ u \in Seq(X) /\ Len(u) = Len(r) + 1
       /\ \A i \in 1 .. Len(r) : u[i] = r[i]
       /\ \A i \in Len(r) + 1 .. Len(r) + 1 : u[i] = <<x>>[i - Len(r)]
  <2>1. /\ r \o <<x>> \in Seq(X) /\ Len(r \o <<x>>) = Len(r) + Len(<<x>>)
        /\ \A i \in 1 .. Len(r) : (r \o <<x>>)[i] = r[i]
        /\ \A i \in Len(r) + 1 .. Len(r) + Len(<<x>>) : (r \o <<x>>)[i] = <<x>>[i - Len(r)]
    BY <1>7, <1>8, JoinIs
  <2> QED
    BY <1>7, <1>8, <2>1
<1> HIDE DEF u
<1>14. Len(a) \in Nat /\ c \in Nat /\ Len(r) = Len(a) + c
  BY <1>1, <1>7
<1>11. ASSUME NEW i \in 1 .. Len(a) + (c + 1) PROVE u[i] = v[i]
  <2>1. CASE i <= Len(a)
    <3>1. i \in 1 .. Len(a) /\ i \in 1 .. Len(r)
      BY <1>14, <2>1
    <3> QED
      BY <1>7, <1>9, <1>10, <3>1
  <2>2. CASE i > Len(a) /\ i <= Len(a) + c
    <3>1. /\ i \in Len(a) + 1 .. Len(a) + c /\ i \in Len(a) + 1 .. Len(a) + (c + 1)
          /\ i \in 1 .. Len(r) /\ i - Len(a) \in 1 .. c
      BY <1>14, <2>2
    <3> QED
      BY <1>6, <1>7, <1>9, <1>10, <3>1
  <2>3. CASE i = Len(a) + c + 1
    <3>1. /\ i \in Len(r) + 1 .. Len(r) + 1 /\ i \in Len(a) + 1 .. Len(a) + (c + 1)
          /\ i - Len(r) = 1 /\ i - Len(a) = c + 1
      BY <1>14, <2>3
    <3>2. u[i] = <<x>>[i - Len(r)] /\ v[i] = t[i - Len(a)]
      BY <1>9, <1>10, <3>1
    <3> QED
      BY <1>5, <1>8, <3>1, <3>2
  <2>4. i <= Len(a) \/ (i > Len(a) /\ i <= Len(a) + c) \/ i = Len(a) + c + 1
    <3>1. PICK l \in Nat : l = Len(a)
      BY <1>14
    <3>2. i \in 1 .. l + (c + 1)
      BY <3>1
    <3>3. i <= l \/ (i > l /\ i <= l + c) \/ i = l + c + 1
      BY <1>14, <3>2
    <3> QED
      BY <3>1, <3>3
  <2> QED
    BY <2>1, <2>2, <2>3, <2>4
<1>12. Len(u) = Len(a) + (c + 1)
  BY <1>1, <1>7, <1>10
<1>13. u = v
  BY <1>1, <1>9, <1>10, <1>11, <1>12
<1> QED
  BY <1>13 DEF u, v, r, x, s, t

LEMMA SubSeqEnds ==
  ASSUME NEW X, NEW a \in Seq(X), NEW o \in Seq(X)
  PROVE  a \o SubSeq(o, 1, 0) = a /\ SubSeq(o, 1, Len(o)) = o
<1>1. SubSeq(o, 1, 0) = <<>>
  OBVIOUS
<1>2. a \o <<>> = a
  OBVIOUS
<1>3. SubSeq(o, 1, Len(o)) = o
  OBVIOUS
<1> QED
  BY <1>1, <1>2, <1>3

(* The trace stays what it is at a clock edge.                             *)
LEMMA TraceKept ==
  ASSUME UNCHANGED trace_size
  PROVE  /\ Trace' = Trace /\ WordSeqs' = WordSeqs /\ OutSeqs' = OutSeqs
         /\ \A k : WordsOf(k)' = WordsOf(k) /\ OutOf(k)' = OutOf(k)
<1>1. Trace' = Trace
  BY DEF Trace
<1>2. WordSeqs' = WordSeqs /\ OutSeqs' = OutSeqs
  BY <1>1 DEF WordSeqs, OutSeqs
<1>3. ASSUME NEW k PROVE WordsOf(k)' = WordsOf(k) /\ OutOf(k)' = OutOf(k)
  BY <1>2 DEF WordsOf, OutOf
<1> QED
  BY <1>1, <1>2, <1>3

(* A clock edge while a packet is sent.                                    *)
LEMMA SendingStep ==
  ASSUME IInv, SideInv, OutInv, Running, GoodTraces,
         NEW k \in 1 .. Len(Trace), Sending(k),
         NEW arready \in BOOLEAN, NEW deliver \in BOOLEAN, NEW tready \in BOOLEAN,
         RpClock(arready, deliver, tready), ~(tready /\ LastWordStarved)
  PROVE  /\ m_axis'.tvalid => m_axis' \in OutType
         /\ Sending(k)' \/ Between(k)'
<1> DEFINE c == word_cntr  s == Format!WordsFor(Trace[k].snap)
           w == Format!WordsFor(Trace[k].wire)
           a == OutOf(k - 1)  o == OutSeqs[k]  m == Len(WordsOf(k - 1))
<1>1. ~rst /\ trace_size \in Sizes /\ c \in Nat /\ as_state = "TX"
  BY StoredFits DEF SideInv, Sending
<1>2. /\ Trace[k] \in Packet /\ s \in Nat /\ w \in Nat /\ s <= w /\ c < w
      /\ tx_done_snap <=> ~(c < s)
      /\ tx_done_wire <=> c + 1 = w
  BY <1>1, SendingIs
<1>3. /\ meta' = meta
      /\ as_state' = IF tx_done_wire /\ tready THEN "META" ELSE "TX"
      /\ word_cntr' = IF ~tready \/ ~do_tx(fifo_empty) THEN c
                      ELSE IF tx_done_wire THEN 0 ELSE c + 1
      /\ Pop(tready) <=> tready /\ ~tx_done_snap /\ ~fifo_empty
      /\ do_tx(fifo_empty) <=> tx_done_snap \/ ~fifo_empty
      /\ tready /\ ~do_tx(fifo_empty) => ~tx_done_wire
  BY <1>1, TxStep
<1>4. /\ ReadWords' = IF Pop(tready) THEN ReadWords + 1 ELSE ReadWords
      /\ UNCHANGED <<rst, sw, trace_size>>
  BY <1>1, ClockSide
<1>5. /\ Trace' = Trace /\ WordSeqs' = WordSeqs /\ OutSeqs' = OutSeqs
      /\ \A i : WordsOf(i)' = WordsOf(i) /\ OutOf(i)' = OutOf(i)
  BY <1>4, TraceKept
<1>6. /\ m_axis'.tvalid \in BOOLEAN
      /\ tready /\ do_tx(fifo_empty) => SoFar' = SoFar \o <<m_axis'>>
      /\ ~(tready /\ do_tx(fifo_empty)) => SoFar' = SoFar
      /\ tready /\ ~do_tx(fifo_empty) => ~m_axis'.tvalid
      /\ ~tready => m_axis' = m_axis
  BY <1>1, ClockSends
<1>7. /\ meta = WordSeqs[k][1]
      /\ ReadWords = m + 1 + Least(c, s)
      /\ SoFar = a \o SubSeq(o, 1, c)
  BY DEF Sending
<1>8. /\ Len(Trace) \in Nat /\ o = Format!PacketStream(Trace[k])
      /\ WordSeqs[k] = Format!PacketWords(Trace[k])
  BY <1>1, TraceIs
<1>9. o \in Seq(OutType) /\ Len(o) = w /\ Len(WordSeqs[k]) = 1 + s
  BY <1>2, <1>8, PacketStreamIs, PacketWordsAre
<1>10. k - 1 \in 0 .. Len(Trace)
  BY <1>8
<1>11. /\ a \in Seq(OutType) /\ m \in Nat
       /\ Len(WordsOf(k)) = m + Len(WordSeqs[k]) /\ OutOf(k) = a \o o
  BY <1>1, <1>10, PacketsOf
<1>12. SoFar \in Seq(OutType)
  BY <1>1, ClockSends
<1> HIDE DEF s, w, a, o, m
<1>13. CASE ~(tready /\ do_tx(fifo_empty))
  <2>1. word_cntr' = c /\ ~Pop(tready) /\ as_state' = "TX"
    BY <1>3, <1>13
  <2>2. SoFar' = SoFar /\ ReadWords' = ReadWords
    BY <1>4, <1>6, <1>13, <2>1
  <2>3. m_axis'.tvalid => m_axis' \in OutType
    BY <1>6, <1>13 DEF OutInv
  <2>4. Sending(k)'
    BY <1>2, <1>3, <1>5, <1>7, <2>1, <2>2 DEF Sending, s, w, a, o, m
  <2> QED
    BY <2>3, <2>4
<1>14. CASE tready /\ do_tx(fifo_empty)
  <2>1. m_axis' = o[c + 1] /\ m_axis' \in OutType
    BY <1>14, WordSent DEF o
  <2>2. c \in 0 .. Len(o) - 1
    BY <1>1, <1>2, <1>9
  <2>3. SoFar' = a \o SubSeq(o, 1, c + 1)
    <3>1. (a \o SubSeq(o, 1, c)) \o <<o[c + 1]>> = a \o SubSeq(o, 1, c + 1)
      BY <1>9, <1>11, <2>2, SubSeqNext
    <3> QED
      BY <1>6, <1>7, <1>14, <2>1, <3>1
  <2>4. ReadWords' = m + 1 + Least(c + 1, s)
    <3>1. Pop(tready) <=> c < s
      BY <1>2, <1>3, <1>14
    <3>2. /\ Least(c, s) = IF c < s THEN c ELSE s
          /\ Least(c + 1, s) = IF c + 1 < s THEN c + 1 ELSE s
      BY DEF Least
    <3>3. /\ ReadWords' = IF c < s THEN ReadWords + 1 ELSE ReadWords
          /\ ReadWords = m + 1 + Least(c, s)
      BY <1>4, <1>7, <3>1
    <3>4. m \in Nat /\ s \in Nat /\ c \in Nat
      BY <1>1, <1>2, <1>11
    <3>5. CASE c < s
      <4>1. Least(c, s) = c /\ Least(c + 1, s) = c + 1
        BY <3>2, <3>4, <3>5
      <4> QED
        BY <3>3, <3>4, <3>5, <4>1
    <3>6. CASE ~(c < s)
      <4>1. Least(c, s) = s /\ Least(c + 1, s) = s
        BY <3>2, <3>4, <3>6
      <4> QED
        BY <3>3, <3>4, <3>6, <4>1
    <3> QED
      BY <3>5, <3>6
  <2>5. CASE tx_done_wire
    <3>1. word_cntr' = 0 /\ as_state' = "META"
      BY <1>3, <1>14, <2>5
    <3>2. c + 1 = w /\ Least(w, s) = s
      BY <1>1, <1>2, <2>5 DEF Least
    <3>3. ReadWords' = Len(WordsOf(k))
      BY <1>2, <1>9, <1>11, <2>4, <3>2
    <3>4. SoFar' = OutOf(k)
      <4>1. SubSeq(o, 1, Len(o)) = o
        BY <1>9, <1>11, SubSeqEnds
      <4> QED
        BY <1>9, <1>11, <2>3, <3>2, <4>1
    <3>5. k \in 0 .. Len(Trace)
      BY <1>8
    <3>6. Between(k)'
      BY <1>5, <3>1, <3>3, <3>4, <3>5 DEF Between
    <3> QED
      BY <2>1, <3>6
  <2>6. CASE ~tx_done_wire
    <3>1. word_cntr' = c + 1 /\ as_state' = "TX"
      BY <1>3, <1>14, <2>6
    <3>2. c + 1 < w
      BY <1>1, <1>2, <2>6
    <3>3. Sending(k)'
      BY <1>3, <1>5, <1>7, <2>3, <2>4, <3>1, <3>2 DEF Sending, s, w, a, o, m
    <3> QED
      BY <2>1, <3>3
  <2> QED
    BY <2>5, <2>6
<1> QED
  BY <1>13, <1>14

(* A clock edge between packets: nothing is sent, and a word of meta data  *)
(* begins the next packet.                                                 *)
LEMMA BetweenStep ==
  ASSUME IInv, SideInv, OutInv, Running, GoodTraces,
         NEW k \in 0 .. Len(Trace), Between(k),
         NEW arready \in BOOLEAN, NEW deliver \in BOOLEAN, NEW tready \in BOOLEAN,
         RpClock(arready, deliver, tready)
  PROVE  /\ m_axis'.tvalid => m_axis' \in OutType
         /\ \E j \in 0 .. Len(Trace) : Sending(j)' \/ Between(j)'
<1> DEFINE n == Len(Trace)  m == Len(WordsOf(k))  t == Format!TraceWords(Trace)
<1>1. /\ ~rst /\ trace_size \in Sizes /\ as_state \in {"IDLE", "START", "META"}
      /\ word_cntr = 0 /\ SoFar = OutOf(k)
      /\ (ReadWords = m \/ (k = n /\ ReadWords >= m))
  BY StoredFits DEF SideInv, Between
<1>2. /\ word_cntr' = 0 /\ ~do_tx(fifo_empty)
      /\ Pop(tready) <=> as_state = "META" /\ ~fifo_empty
      /\ ~Pop(tready) => as_state' # "TX"
      /\ Pop(tready) /\ fifo_dout = Padding => as_state' = "META"
      /\ Pop(tready) /\ fifo_dout # Padding => as_state' = "TX" /\ meta' = fifo_dout
  BY <1>1, OtherStep
<1>3. /\ ReadWords' = IF Pop(tready) THEN ReadWords + 1 ELSE ReadWords
      /\ UNCHANGED <<rst, sw, trace_size>>
  BY <1>1, ClockSide
<1>4. /\ Trace' = Trace /\ WordSeqs' = WordSeqs /\ OutSeqs' = OutSeqs
      /\ \A i : WordsOf(i)' = WordsOf(i) /\ OutOf(i)' = OutOf(i)
  BY <1>3, TraceKept
<1>5. SoFar' = SoFar /\ (tready => ~m_axis'.tvalid) /\ (~tready => m_axis' = m_axis)
  BY <1>1, <1>2, ClockSends
<1>6. m_axis'.tvalid => m_axis' \in OutType
  BY <1>5 DEF OutInv
<1>7. n \in Nat /\ m \in Nat /\ OutOf(k) \in Seq(OutType) /\ ReadWords \in Nat
      /\ Begins(WordsOf(k), WordsOf(n)) /\ k \in 0 .. n
  <2>1. n \in Nat
    BY <1>1, TraceIs DEF n
  <2>2. m \in Nat /\ OutOf(k) \in Seq(OutType) /\ Begins(WordsOf(k), WordsOf(n))
    BY <1>1, PacketsOf
  <2>3. ReadWords \in Nat
    BY ReadIs
  <2>4. k \in 0 .. n
    OBVIOUS
  <2> QED
    BY <2>1, <2>2, <2>3, <2>4
<1> HIDE DEF n, m, t
<1>8. CASE ~Pop(tready)
  <2>1. Between(k)'
    BY <1>1, <1>2, <1>3, <1>4, <1>5, <1>8 DEF Between, n, m
  <2> QED
    BY <1>6, <2>1
<1>9. CASE Pop(tready)
  <2>1. /\ ReadWords + 1 \in 1 .. Len(t) /\ fifo_dout = t[ReadWords + 1]
    <3>1. ~fifo_empty
      BY <1>9 DEF Pop
    <3> QED
      BY <3>1, HeadIs DEF t
  <2>2. CASE k # n
    <3>1. k + 1 \in 1 .. n /\ k + 1 - 1 = k /\ ReadWords = m /\ k + 1 \in 0 .. n
      <4>1. k \in Nat /\ k <= n
        BY <1>7
      <4>2. k + 1 \in 1 .. n /\ k + 1 - 1 = k /\ k + 1 \in 0 .. n
        BY <1>7, <2>2, <4>1
      <4> QED
        BY <1>1, <2>2, <4>2
    <3>2. /\ Trace[k + 1] \in Packet
          /\ WordSeqs[k + 1] = Format!PacketWords(Trace[k + 1])
          /\ OutSeqs[k + 1] = Format!PacketStream(Trace[k + 1])
      BY <1>1, <3>1, TraceIs DEF n
    <3>3. /\ Len(WordSeqs[k + 1]) = 1 + Format!WordsFor(Trace[k + 1].snap)
          /\ WordSeqs[k + 1][1] = Format!TraceWord(Trace[k + 1].delta, Trace[k + 1].snap,
                                                   Trace[k + 1].wire)
      BY <3>2, PacketWordsAre
    <3>4. /\ Format!WordsFor(Trace[k + 1].snap) \in Nat
          /\ Format!WordsFor(Trace[k + 1].wire) \in Nat \ {0}
          /\ Trace[k + 1].delta \in Nat
      BY <3>2, PacketIs
    <3>5. 1 \in 1 .. Len(WordSeqs[k + 1])
      BY <3>3, <3>4
    <3>6. t[Len(WordsOf(k + 1 - 1)) + 1] = WordSeqs[k + 1][1]
      BY <1>1, <3>1, <3>5, TracePart DEF n, t
    <3>7. fifo_dout = WordSeqs[k + 1][1]
      BY <2>1, <3>1, <3>6 DEF m
    <3>8. fifo_dout # Padding
      BY <3>3, <3>4, <3>7 DEF Padding, Word, Format!TraceWord
    <3>9. as_state' = "TX" /\ meta' = WordSeqs[k + 1][1]
      BY <1>2, <1>9, <3>7, <3>8
    <3>10. ReadWords' = Len(WordsOf(k + 1 - 1)) + 1 + Least(0, Format!WordsFor(Trace[k + 1].snap))
      BY <1>3, <1>7, <1>9, <3>1, <3>4 DEF Least, m
    <3>11. SoFar' = OutOf(k + 1 - 1) \o SubSeq(OutSeqs[k + 1], 1, 0)
      <4>1. OutSeqs[k + 1] \in Seq(OutType)
        BY <3>2, PacketStreamIs
      <4>2. OutOf(k) \o SubSeq(OutSeqs[k + 1], 1, 0) = OutOf(k)
        BY <1>7, <4>1, SubSeqEnds
      <4> QED
        BY <1>1, <1>5, <3>1, <4>2
    <3>12. 0 < Format!WordsFor(Trace[k + 1].wire)
      BY <3>4
    <3>13. Sending(k + 1)'
      <4> DEFINE j == k + 1
      <4>0. j = k + 1
        OBVIOUS
      <4> HIDE DEF j
      <4>1. as_state' = "TX" /\ j \in 1 .. Len(Trace') /\ meta' = WordSeqs'[j][1]
        BY <1>4, <3>1, <3>9, <4>0 DEF n
      <4>2. word_cntr' < Format!WordsFor(Trace'[j].wire)
        BY <1>2, <1>4, <3>12, <4>0
      <4>3. ReadWords' = Len(WordsOf(j - 1)') + 1
                         + Least(word_cntr', Format!WordsFor(Trace'[j].snap))
        BY <1>2, <1>4, <3>10, <4>0
      <4>4. SoFar' = OutOf(j - 1)' \o SubSeq(OutSeqs'[j], 1, word_cntr')
        <5>1. OutOf(j - 1)' = OutOf(j - 1) /\ OutSeqs' = OutSeqs /\ word_cntr' = 0
          BY <1>2, <1>4
        <5>2. SoFar' = OutOf(j - 1) \o SubSeq(OutSeqs[j], 1, 0)
          BY <3>11, <4>0
        <5> QED
          BY <5>1, <5>2
      <4>5. Sending(j)'
        BY <4>1, <4>2, <4>3, <4>4 DEF Sending
      <4> QED
        BY <4>0, <4>5
    <3> QED
      BY <1>6, <3>1, <3>13 DEF n
  <2>3. CASE k = n
    <3>1. /\ \A i \in Len(WordsOf(n)) + 1 .. Len(t) : t[i] = Padding
      BY <1>1, TraceWordsAre DEF n, t
    <3>2. ReadWords + 1 \in m + 1 .. Len(t)
      BY <1>1, <1>7, <2>1
    <3>3. fifo_dout = Padding
      BY <2>1, <2>3, <3>1, <3>2 DEF m
    <3>4. as_state' = "META" /\ ReadWords' = ReadWords + 1
      BY <1>2, <1>3, <1>9, <3>3
    <3>5. ReadWords' >= m
      BY <1>1, <1>7, <3>4
    <3>6. Between(k)'
      BY <1>1, <1>2, <1>4, <1>5, <2>3, <3>4, <3>5 DEF Between, n, m
    <3> QED
      BY <1>6, <3>6
  <2> QED
    BY <2>2, <2>3
<1> QED
  BY <1>8, <1>9

-----------------------------------------------------------------------------
(***************************************************************************)
(* The invariant of the whole core.                                        *)
(***************************************************************************)
(* Under reset.                                                            *)
LEMMA ClockCoreReset ==
  ASSUME IInv, rst, NEW arready \in BOOLEAN, NEW deliver \in BOOLEAN,
         NEW tready \in BOOLEAN, RpClock(arready, deliver, tready)
  PROVE  CoreInv'
<1>1. ClockEdge(arready, deliver, Pop(tready) /\ sub = WordsPerBeat - 1)
      /\ AssembleClock(rst, start, fifo_empty, fifo_dout, mr_active, tready)
  BY DEF RpClock
<1>2. stored' = <<>> /\ drained' = 0 /\ UNCHANGED <<rst, sw>> /\ sub' = 0 /\ shown' = 0
  BY <1>1 DEF ClockEdge, FifoClock, swVars, RpClock
<1>3. m_axis' = NoOutput /\ word_cntr' = 0 /\ as_state' = "IDLE"
  BY <1>1 DEF AssembleClock, AsOutput, AsIdle, AsStart, AsMeta, AsTx, AsGoto
<1>4. sw' = "reset"
  BY <1>2 DEF IInv, PhaseInv
<1>5. m_axis'.tvalid = FALSE
  BY <1>3 DEF NoOutput
<1>6. SideInv'
  <2>1. Len(stored') = 0
    BY <1>2
  <2> QED
    BY <1>2, <1>3, <2>1, Units DEF SideInv
<1>7. OutInv'
  <2>1. out' = <<>>
    BY DEF RpClock
  <2> HIDE DEF OutType
  <2>2. out' \in Seq(OutType)
    BY <2>1
  <2> QED
    BY <1>5, <2>2 DEF OutInv
<1>8. RestInv' /\ SentInv'
  BY <1>3, <1>4, <1>5 DEF RestInv, SentInv, Running
<1> QED
  BY <1>6, <1>7, <1>8 DEF CoreInv

(* Nothing happens in the assembler while nothing is replayed.             *)
LEMMA ClockRest ==
  ASSUME IInv, CoreInv, ~rst, NEW arready \in BOOLEAN, NEW deliver \in BOOLEAN,
         NEW tready \in BOOLEAN, RpClock(arready, deliver, tready)
  PROVE  RestInv'
<1>1. ClockEdge(arready, deliver, Pop(tready) /\ sub = WordsPerBeat - 1)
  BY DEF RpClock
<1>2. UNCHANGED <<rst, sw>> /\ Len(stored) <= Len(stored') /\ Len(stored) \in Nat
      /\ stored \in Seq(Int) /\ (~Pop(tready) => sub' = sub)
  BY ClockSide DEF CoreInv, IInv, TypeOK
<1>3. /\ ~m_axis.tvalid => out' = out
      /\ tready /\ ~do_tx(fifo_empty) => ~m_axis'.tvalid
      /\ ~tready => m_axis' = m_axis
  BY ClockSends DEF CoreInv
<1>4. ASSUME stored' = <<>>
      PROVE  as_state' # "TX" /\ ~m_axis'.tvalid /\ word_cntr' = 0
  <2>1. Len(stored') = 0
    BY <1>4
  <2>2. stored = <<>>
    BY <1>2, <2>1
  <2>3. as_state \in {"IDLE", "START", "META"} /\ ~m_axis.tvalid /\ word_cntr = 0
    BY <2>2 DEF CoreInv, SideInv, RestInv
  <2>4. fifo_empty
    BY <2>2 DEF CoreInv, SideInv, fifo_empty, IInv, TypeOK
  <2>5. ~do_tx(fifo_empty) /\ word_cntr' = 0 /\ as_state' # "TX"
    BY <2>3, <2>4, OtherStep
  <2> QED
    BY <1>3, <2>3, <2>5
<1>5. ASSUME sw \in {"idle", "configured"}
      PROVE  as_state' = "IDLE" /\ ~m_axis'.tvalid /\ word_cntr' = 0 /\ sub' = 0 /\ out' = out
  <2>1. as_state = "IDLE" /\ ~m_axis.tvalid /\ word_cntr = 0 /\ sub = 0
    BY <1>5 DEF CoreInv, RestInv
  <2>2. ~start
    BY <1>5 DEF IInv, PhaseInv
  <2>3. ~do_tx(fifo_empty) /\ word_cntr' = 0 /\ as_state' = "IDLE" /\ ~Pop(tready)
    BY <2>1, <2>2, OtherStep
  <2> QED
    BY <1>2, <1>3, <2>1, <2>3
<1>6. sw = "configured" => out = <<>>
  BY DEF CoreInv, RestInv
<1> QED
  BY <1>2, <1>4, <1>5, <1>6 DEF RestInv

LEMMA ClockCore ==
  ASSUME IInv, CoreInv, GoodTraces, ~starved', ~rst,
         NEW arready \in BOOLEAN, NEW deliver \in BOOLEAN,
         NEW tready \in BOOLEAN, RpClock(arready, deliver, tready)
  PROVE  CoreInv'
<1>0. SideInv /\ OutInv /\ RestInv /\ SentInv /\ ~(tready /\ LastWordStarved)
  BY DEF CoreInv, RpClock
<1>1. /\ sub' \in 0 .. WordsPerBeat - 1
      /\ shown' \in 0 .. Len(stored') /\ drained' <= shown'
      /\ sub' # 0 => drained' < shown'
      /\ UNCHANGED <<rst, sw, trace_size>>
  BY <1>0, ClockSide
<1>2. as_state' \in {"IDLE", "START", "META", "TX"} /\ word_cntr' \in Nat
  <2>1. word_cntr \in Nat
    BY <1>0 DEF SideInv
  <2>2. CASE as_state = "TX"
    <3>1. /\ as_state' = IF tx_done_wire /\ tready THEN "META" ELSE "TX"
          /\ word_cntr' = IF ~tready \/ ~do_tx(fifo_empty) THEN word_cntr
                          ELSE IF tx_done_wire THEN 0 ELSE word_cntr + 1
      BY <2>2, TxStep
    <3> QED
      BY <2>1, <3>1
  <2>3. CASE as_state # "TX"
    <3>1. as_state \in {"IDLE", "START", "META"}
      BY <1>0, <2>3 DEF SideInv
    <3> QED
      BY <2>1, <3>1, OtherStep
  <2> QED
    BY <2>2, <2>3
<1>3. SideInv'
  BY <1>1, <1>2 DEF SideInv
<1>4. RestInv'
  BY ClockRest
<1>5. out' \in Seq(OutType) /\ m_axis'.tvalid \in BOOLEAN
      /\ (tready /\ ~do_tx(fifo_empty) => ~m_axis'.tvalid)
      /\ (~tready => m_axis' = m_axis)
  BY <1>0, ClockSends
<1>6. CASE Running
  <2>1. PICK k \in 0 .. Len(Trace) : Sending(k) \/ Between(k)
    BY <1>0, <1>6 DEF SentInv
  <2>2. /\ m_axis'.tvalid => m_axis' \in OutType
        /\ \E j \in 0 .. Len(Trace) : Sending(j)' \/ Between(j)'
    <3>1. CASE Sending(k)
      <4>1. k \in 1 .. Len(Trace)
        BY <3>1 DEF Sending
      <4> QED
        BY <1>0, <1>6, <2>1, <3>1, <4>1, SendingStep
    <3>2. CASE Between(k)
      BY <1>0, <1>6, <3>2, BetweenStep
    <3> QED
      BY <2>1, <3>1, <3>2
  <2>3. Trace' = Trace
    BY <1>1, TraceKept
  <2>4. SentInv'
    BY <2>2, <2>3 DEF SentInv
  <2>5. OutInv'
    BY <1>5, <2>2 DEF OutInv
  <2> QED
    BY <1>3, <1>4, <2>4, <2>5 DEF CoreInv
<1>7. CASE ~Running
  <2>1. sw \in {"idle", "configured"}
    BY <1>7 DEF IInv, TypeOK, PhaseInv, Running
  <2>2. as_state = "IDLE"
    BY <1>0, <2>1 DEF RestInv
  <2>3. ~do_tx(fifo_empty)
    BY <2>2 DEF do_tx
  <2>4. OutInv'
    BY <1>0, <1>5, <2>3 DEF OutInv
  <2>5. SentInv'
    BY <1>1, <1>7 DEF SentInv, Running
  <2> QED
    BY <1>3, <1>4, <2>4, <2>5 DEF CoreInv
<1> QED
  BY <1>6, <1>7

(* What software does leaves the assembler and the FIFO alone, but for the *)
(* configuration of a trace.                                               *)
LEMMA CoreKept ==
  ASSUME CoreInv, UNCHANGED <<rpVars, stored, drained>>
  PROVE  /\ SideInv' /\ OutInv'
         /\ stored' = <<>> => as_state' # "TX" /\ ~m_axis'.tvalid /\ word_cntr' = 0
BY DEF CoreInv, SideInv, OutInv, RestInv, rpVars, asVars

LEMMA SentKept ==
  ASSUME SentInv, UNCHANGED <<rpVars, drained, trace_size>>, Running
  PROVE  SentInv'
<1>1. /\ Trace' = Trace /\ WordSeqs' = WordSeqs /\ OutSeqs' = OutSeqs
      /\ \A i : WordsOf(i)' = WordsOf(i) /\ OutOf(i)' = OutOf(i)
  BY TraceKept
<1>2. ReadWords' = ReadWords /\ SoFar' = SoFar /\ UNCHANGED <<as_state, meta, word_cntr>>
  BY DEF ReadWords, SoFar, Pending, rpVars, asVars
<1>3. PICK k \in 0 .. Len(Trace) : Sending(k) \/ Between(k)
  BY DEF SentInv
<1>4. Sending(k) => Sending(k)'
  BY <1>1, <1>2 DEF Sending
<1>5. Between(k) => Between(k)'
  BY <1>1, <1>2 DEF Between
<1>6. \E j \in 0 .. Len(Trace) : Sending(j)' \/ Between(j)'
  BY <1>3, <1>4, <1>5
<1> QED
  BY <1>1, <1>6 DEF SentInv

LEMMA RunningKept ==
  ASSUME CoreInv, Running, Running', UNCHANGED <<rpVars, stored, drained, trace_size>>
  PROVE  CoreInv'
<1>1. SideInv' /\ OutInv'
      /\ (stored' = <<>> => as_state' # "TX" /\ ~m_axis'.tvalid /\ word_cntr' = 0)
  BY CoreKept
<1>2. RestInv'
  BY <1>1 DEF RestInv, Running
<1>3. SentInv'
  BY SentKept DEF CoreInv
<1> QED
  BY <1>1, <1>2, <1>3 DEF CoreInv

LEMMA ConfigureCore == ASSUME IInv, CoreInv, RpConfigure PROVE CoreInv'
<1>1. /\ sw = "idle" /\ sw' = "configured" /\ stored' = <<>> /\ drained' = 0 /\ shown' = 0
      /\ out' = <<>> /\ UNCHANGED <<as_state, meta, word_cntr, m_axis, sub>>
  BY DEF RpConfigure, SwConfigure, asVars
<1>2. as_state = "IDLE" /\ ~m_axis.tvalid /\ word_cntr = 0 /\ sub = 0
  BY <1>1 DEF CoreInv, RestInv
<1>3. SideInv'
  <2>1. Len(stored') = 0
    BY <1>1
  <2> QED
    BY <1>1, <1>2, <2>1, Units DEF SideInv
<1>4. OutInv'
  <2>1. out' \in Seq(OutType)
    BY <1>1
  <2> QED
    BY <1>1, <1>2, <2>1 DEF CoreInv, OutInv
<1>5. RestInv' /\ SentInv'
  BY <1>1, <1>2 DEF RestInv, SentInv, Running
<1> QED
  BY <1>3, <1>4, <1>5 DEF CoreInv

LEMMA StartCore == ASSUME IInv, CoreInv, GoodTraces, RpStart PROVE CoreInv'
<1>1. /\ sw = "configured" /\ sw' = "started"
      /\ UNCHANGED <<rpVars, stored, drained, trace_size>>
  BY DEF RpStart, SwStart, fifoVars
<1>2. SideInv' /\ OutInv'
      /\ (stored' = <<>> => as_state' # "TX" /\ ~m_axis'.tvalid /\ word_cntr' = 0)
  BY <1>1, CoreKept
<1>3. RestInv'
  BY <1>1, <1>2 DEF RestInv
<1>4. trace_size \in Sizes
  BY DEF IInv, TypeOK
<1>5. as_state = "IDLE" /\ ~m_axis.tvalid /\ word_cntr = 0 /\ sub = 0 /\ out = <<>>
  BY <1>1 DEF CoreInv, RestInv
<1>6. drained = 0
  <2>1. ~rst /\ stored = <<>>
    BY <1>1 DEF IInv, PhaseInv
  <2> QED
    BY <2>1 DEF IInv, TypeOK
<1>7. ReadWords = Len(WordsOf(0))
  <2>1. WordsOf(0) = <<>>
    BY <1>4, PacketsOf
  <2>2. 0 * WordsPerBeat = 0 /\ Len(<<>>) = 0
    BY Units
  <2> QED
    BY <1>5, <1>6, <2>1, <2>2 DEF ReadWords
<1>8. SoFar = OutOf(0)
  <2>1. OutOf(0) = <<>>
    BY <1>4, PacketsOf
  <2>2. SoFar = <<>> \o <<>>
    BY <1>5 DEF SoFar, Pending
  <2> QED
    BY <2>1, <2>2
<1>9. 0 \in 0 .. Len(Trace)
  BY <1>4, TraceIs
<1>10. Between(0)
  BY <1>5, <1>7, <1>8, <1>9 DEF Between
<1>11. Between(0)'
  <2>1. /\ Trace' = Trace /\ \A i : WordsOf(i)' = WordsOf(i) /\ OutOf(i)' = OutOf(i)
    BY <1>1, TraceKept
  <2>2. ReadWords' = ReadWords /\ SoFar' = SoFar /\ UNCHANGED <<as_state, word_cntr>>
    BY <1>1 DEF ReadWords, SoFar, Pending, rpVars, asVars
  <2> QED
    BY <1>10, <2>1, <2>2 DEF Between
<1>12. SentInv'
  <2>1. Trace' = Trace
    BY <1>1, TraceKept
  <2> QED
    BY <1>9, <1>11, <2>1 DEF SentInv
<1> QED
  BY <1>2, <1>3, <1>12 DEF CoreInv

(* Software has received everything: nothing is left in the core.          *)
LEMMA FinishCore == ASSUME IInv, CoreInv, GoodTraces, RpFinish PROVE CoreInv'
<1>1. /\ sw = "write" /\ sw' = "idle" /\ Level = 0 /\ as_state = "IDLE"
      /\ out = Format!TraceOutput(Trace)
      /\ UNCHANGED <<rpVars, stored, drained, trace_size>>
  BY DEF RpFinish, SwFinish, fifoVars, regVars, as_active
<1>2. SideInv' /\ OutInv'
      /\ (stored' = <<>> => as_state' # "TX" /\ ~m_axis'.tvalid /\ word_cntr' = 0)
  BY <1>1, CoreKept
<1>3. trace_size \in Sizes
  BY DEF IInv, TypeOK
<1>4. PICK k \in 0 .. Len(Trace) : Between(k)
  <2>1. PICK k \in 0 .. Len(Trace) : Sending(k) \/ Between(k)
    BY <1>1 DEF CoreInv, SentInv, Running
  <2> QED
    BY <1>1, <2>1 DEF Sending
<1>5. word_cntr = 0 /\ SoFar = OutOf(k)
  BY <1>4 DEF Between
<1>6. ~m_axis.tvalid
  <2> SUFFICES ASSUME m_axis.tvalid PROVE FALSE
    OBVIOUS
  <2>1. out = OutOf(Len(Trace))
    BY <1>1, <1>3, TraceOutputIs
  <2>2. Begins(SoFar, out)
    BY <1>3, <1>5, <2>1, PacketsOf
  <2>3. Len(SoFar) <= Len(out)
    BY <2>2 DEF Begins
  <2>4. SoFar = out \o <<m_axis>> /\ out \in Seq(OutType) /\ m_axis \in OutType
    BY DEF SoFar, Pending, CoreInv, OutInv
  <2> HIDE DEF OutType
  <2>5. Len(SoFar) = Len(out) + 1 /\ Len(out) \in Nat
    BY <2>4
  <2> QED
    BY <2>3, <2>5
<1>7. sub = 0
  <2>1. drained = Len(stored)
    BY <1>1 DEF Level, IInv, TypeOK
  <2> QED
    BY <2>1 DEF CoreInv, SideInv
<1>8. RestInv' /\ SentInv'
  BY <1>1, <1>2, <1>5, <1>6, <1>7 DEF RestInv, SentInv, Running, rpVars, asVars
<1> QED
  BY <1>2, <1>8 DEF CoreInv

LEMMA ReleaseCore == ASSUME IInv, CoreInv, RpRelease PROVE CoreInv'
<1>1. /\ sw' = "idle" /\ stored = <<>> /\ as_state = "IDLE"
      /\ UNCHANGED <<rpVars, stored, drained>>
  BY DEF RpRelease, SwRelease, fifoVars
<1>2. SideInv' /\ OutInv'
      /\ (stored' = <<>> => as_state' # "TX" /\ ~m_axis'.tvalid /\ word_cntr' = 0)
  BY <1>1, CoreKept
<1>3. sub = 0
  <2>1. Len(stored) = 0
    BY <1>1
  <2> QED
    BY <2>1 DEF CoreInv, SideInv, IInv, TypeOK
<1>4. RestInv' /\ SentInv'
  BY <1>1, <1>2, <1>3 DEF RestInv, SentInv, Running, rpVars, asVars
<1> QED
  BY <1>2, <1>4 DEF CoreInv

LEMMA ResetCore == ASSUME CoreInv, RpReset PROVE CoreInv'
<1>1. sw' = "reset" /\ UNCHANGED <<rpVars, stored, drained>>
  BY DEF RpReset, SwReset, fifoVars
<1>2. SideInv' /\ OutInv'
      /\ (stored' = <<>> => as_state' # "TX" /\ ~m_axis'.tvalid /\ word_cntr' = 0)
  BY <1>1, CoreKept
<1>3. RestInv' /\ SentInv'
  BY <1>1, <1>2 DEF RestInv, SentInv, Running
<1> QED
  BY <1>2, <1>3 DEF CoreInv

LEMMA CoreStep ==
  ASSUME IInv, ~starved => CoreInv, ~starved', GoodTraces, [RpNext]_allVars
  PROVE  CoreInv'
<1>1. ASSUME NEW arready \in BOOLEAN, NEW deliver \in BOOLEAN, NEW tready \in BOOLEAN,
             RpClock(arready, deliver, tready)
      PROVE  CoreInv'
  <2>1. CASE rst
    BY <1>1, <2>1, ClockCoreReset
  <2>2. CASE ~rst
    <3>1. ~starved
      BY <1>1, <2>2 DEF RpClock
    <3> QED
      BY <1>1, <2>2, <3>1, ClockCore
  <2> QED
    BY <2>1, <2>2
<1>0. \/ RpFetch \/ UNCHANGED allVars \/ RpSeeActive \/ RpWrite
      \/ RpConfigure \/ RpStart \/ RpFinish \/ RpReset \/ RpRelease
      => CoreInv
  BY DEF RpFetch, RpSeeActive, RpWrite, RpConfigure, RpStart, RpFinish, RpReset,
     RpRelease, rpVars, allVars
<1>2. CASE RpFetch \/ UNCHANGED allVars
  <2>1. UNCHANGED <<rpVars, sw, stored, drained, trace_size>>
    BY <1>2 DEF RpFetch, AxiFetch, allVars, vars, fifoVars, swVars, regVars
  <2>2. SideInv' /\ OutInv'
        /\ (stored' = <<>> => as_state' # "TX" /\ ~m_axis'.tvalid /\ word_cntr' = 0)
    BY <1>0, <1>2, <2>1, CoreKept
  <2>3. RestInv'
    BY <1>0, <1>2, <2>1, <2>2 DEF CoreInv, RestInv, rpVars, asVars
  <2>4. SentInv'
    <3>1. CASE Running
      BY <1>0, <1>2, <2>1, <3>1, SentKept DEF CoreInv
    <3>2. CASE ~Running
      BY <2>1, <3>2 DEF SentInv, Running
    <3> QED
      BY <3>1, <3>2
  <2> QED
    BY <2>2, <2>3, <2>4 DEF CoreInv
<1>3. CASE RpSeeActive \/ RpWrite
  <2>1. Running /\ Running' /\ UNCHANGED <<rpVars, stored, drained, trace_size>>
    BY <1>3 DEF RpSeeActive, RpWrite, SwSeeActive, SwSample, SwCopy, SwPublish,
       Running, fifoVars, regVars
  <2> QED
    BY <1>0, <1>3, <2>1, RunningKept
<1>4. CASE RpConfigure
  BY <1>0, <1>4, ConfigureCore
<1>5. CASE RpStart
  BY <1>0, <1>5, StartCore
<1>6. CASE RpFinish
  BY <1>0, <1>6, FinishCore
<1>7. CASE RpReset
  BY <1>0, <1>7, ResetCore
<1>8. CASE RpRelease
  BY <1>0, <1>8, ReleaseCore
<1> QED
  BY <1>1, <1>2, <1>3, <1>4, <1>5, <1>6, <1>7, <1>8 DEF RpNext

LEMMA InitCore == RpInit => CoreInv
<1> SUFFICES ASSUME RpInit PROVE CoreInv
  OBVIOUS
<1>1. /\ as_state = "IDLE" /\ word_cntr = 0 /\ m_axis = NoOutput /\ sub = 0 /\ shown = 0
      /\ out = <<>> /\ stored = <<>> /\ drained = 0 /\ sw = "idle"
  BY DEF RpInit, Init, AssembleInit
<1>2. m_axis.tvalid = FALSE
  BY <1>1 DEF NoOutput
<1>3. Len(stored) = 0 /\ out \in Seq(OutType)
  BY <1>1
<1>4. SideInv
  BY <1>1, <1>3, Units DEF SideInv
<1>5. OutInv
  BY <1>2, <1>3 DEF OutInv
<1>6. RestInv /\ SentInv
  BY <1>1, <1>2 DEF RestInv, SentInv, Running
<1> QED
  BY <1>4, <1>5, <1>6 DEF CoreInv

LEMMA CoreInvariant ==
  ASSUME GoodTraces
  PROVE  RpSpec => [](IInv /\ (~starved => CoreInv))
<1>1. RpSpec => []IInv
  BY CoreImplementsRing, RingInvariant, PTL
<1>2. IInv /\ (~starved => CoreInv) /\ [RpNext]_allVars => (~starved => CoreInv)'
  BY CoreStep
<1> QED
  BY <1>1, <1>2, InitCore, PTL DEF RpSpec

(* What is sent is the packets of the trace, from the first on.            *)
LEMMA SoFarBegins ==
  ASSUME IInv, CoreInv, GoodTraces, Running
  PROVE  SoFar \in Seq(OutType) /\ Begins(SoFar, Format!TraceOutput(Trace))
<1> DEFINE n == Len(Trace)
<1>1. trace_size \in Sizes /\ n \in Nat
  BY TraceIs DEF IInv, TypeOK
<1>2. Format!TraceOutput(Trace) = OutOf(n)
  BY <1>1, TraceOutputIs
<1>3. PICK k \in 0 .. n : Sending(k) \/ Between(k)
  BY DEF CoreInv, SentInv
<1>4. CASE Between(k)
  BY <1>1, <1>2, <1>4, PacketsOf DEF Between
<1>5. CASE Sending(k)
  <2> DEFINE a == OutOf(k - 1)  o == OutSeqs[k]  u == OutOf(n)
  <2>1. k \in 1 .. n /\ SoFar = a \o SubSeq(o, 1, word_cntr)
        /\ word_cntr < Format!WordsFor(Trace[k].wire)
    BY <1>5 DEF Sending
  <2>2. k - 1 \in 0 .. n /\ k \in 0 .. n /\ n \in 0 .. n
    BY <1>1, <2>1
  <2>3. a \in Seq(OutType) /\ OutOf(k) = a \o o /\ Begins(a \o o, u)
    BY <1>1, <2>1, <2>2, PacketsOf
  <2>4. u \in Seq(OutType)
    BY <1>1, <2>2, PacketsOf
  <2>5. Trace[k] \in Packet /\ o = Format!PacketStream(Trace[k])
    BY <1>1, <2>1, TraceIs
  <2>6. o \in Seq(OutType) /\ Len(o) = Format!WordsFor(Trace[k].wire)
    BY <2>5, PacketStreamIs
  <2> HIDE DEF a, o, u, OutType
  <2>7. word_cntr \in 0 .. Len(o)
    <3>1. word_cntr \in Nat
      BY DEF CoreInv, SideInv
    <3>2. word_cntr < Len(o) /\ Len(o) \in Nat
      BY <2>1, <2>6
    <3> QED
      BY <3>1, <3>2
  <2> DEFINE s == SubSeq(o, 1, word_cntr)  r == a \o s  t == a \o o
  <2>8. s \in Seq(OutType) /\ Len(s) = word_cntr /\ \A i \in 1 .. Len(s) : s[i] = o[i]
    BY <2>6, <2>7
  <2>9. Begins(r, t) /\ r \in Seq(OutType)
    <3> HIDE DEF s
    <3>1. Len(s) <= Len(o) /\ Len(s) \in Nat /\ Len(o) \in Nat /\ Len(a) \in Nat
      BY <2>3, <2>6, <2>7, <2>8
    <3>2. /\ r \in Seq(OutType) /\ Len(r) = Len(a) + Len(s)
          /\ \A i \in 1 .. Len(a) : r[i] = a[i]
          /\ \A i \in Len(a) + 1 .. Len(a) + Len(s) : r[i] = s[i - Len(a)]
      BY <2>3, <2>8, JoinIs
    <3>3. /\ Len(t) = Len(a) + Len(o)
          /\ \A i \in 1 .. Len(a) : t[i] = a[i]
          /\ \A i \in Len(a) + 1 .. Len(a) + Len(o) : t[i] = o[i - Len(a)]
      BY <2>3, <2>6, JoinIs
    <3> HIDE DEF r, t
    <3>4. ASSUME NEW i \in 1 .. Len(r) PROVE t[i] = r[i]
      <4>1. i \in Nat /\ i >= 1 /\ i <= Len(a) + Len(s)
        BY <3>1, <3>2
      <4>2. CASE i <= Len(a)
        <5>1. i \in 1 .. Len(a)
          BY <3>1, <4>1, <4>2
        <5> QED
          BY <3>2, <3>3, <5>1
      <4>3. CASE i > Len(a)
        <5>1. /\ i \in Len(a) + 1 .. Len(a) + Len(s) /\ i \in Len(a) + 1 .. Len(a) + Len(o)
              /\ i - Len(a) \in 1 .. Len(s)
          BY <3>1, <4>1, <4>3
        <5> QED
          BY <2>8, <3>2, <3>3, <5>1
      <4> QED
        BY <3>1, <4>1, <4>2, <4>3
    <3>5. Len(r) <= Len(t)
      BY <3>1, <3>2, <3>3
    <3> QED
      BY <3>2, <3>4, <3>5 DEF Begins
  <2>10. t \in Seq(OutType) /\ Begins(t, u)
    BY <2>3, <2>6, JoinIs
  <2> HIDE DEF r, t
  <2>11. Begins(r, u)
    <3>1. Len(r) \in Nat /\ Len(t) \in Nat /\ Len(u) \in Nat
      BY <2>4, <2>9, <2>10
    <3> QED
      BY <2>9, <2>10, <3>1 DEF Begins
  <2> QED
    BY <1>2, <2>1, <2>9, <2>11 DEF r, s, u
<1> QED
  BY <1>3, <1>4, <1>5

LEMMA BeginsIs ==
  ASSUME NEW X, NEW s \in Seq(X), NEW t \in Seq(X), Begins(s, t)
  PROVE  Len(s) <= Len(t) /\ s = SubSeq(t, 1, Len(s))
<1>1. Len(s) <= Len(t) /\ Len(s) \in Nat /\ Len(t) \in Nat
      /\ \A i \in 1 .. Len(s) : t[i] = s[i]
  BY DEF Begins
<1>2. /\ SubSeq(t, 1, Len(s)) \in Seq(X) /\ Len(SubSeq(t, 1, Len(s))) = Len(s)
      /\ \A i \in 1 .. Len(s) : SubSeq(t, 1, Len(s))[i] = t[i]
  BY <1>1
<1>3. s = SubSeq(t, 1, Len(s))
  BY <1>1, <1>2
<1> QED
  BY <1>1, <1>3

(* Whatever the pace of the memory, of software and of the stream's slave, *)
(* whenever the FIFO shows its beats, and whatever the sizes of the ring,  *)
(* of a burst and of the FIFO: the words sent are those of the trace, in   *)
(* order, none left out and none sent twice, until the FIFO has once been  *)
(* empty when the last payload word of a packet was due.                   *)
THEOREM SentIsTrace ==
  ASSUME GoodTraces
  PROVE  RpSpec => []OutputIsTrace
<1>1. ASSUME IInv, ~starved => CoreInv PROVE OutputIsTrace
  <2> SUFFICES ASSUME Running, CoreInv
      PROVE  LET sofar == out \o Pending
                 all   == Format!TraceOutput(Trace)
             IN  Len(sofar) <= Len(all) /\ sofar = SubSeq(all, 1, Len(sofar))
    BY <1>1 DEF OutputIsTrace, Running
  <2>1. SoFar \in Seq(OutType) /\ Begins(SoFar, Format!TraceOutput(Trace))
    BY <1>1, SoFarBegins
  <2>2. Format!TraceOutput(Trace) \in Seq(OutType)
    <3>1. trace_size \in Sizes
      BY <1>1 DEF IInv, TypeOK
    <3>2. Len(Trace) \in 0 .. Len(Trace)
      BY <3>1, TraceIs
    <3> QED
      BY <3>1, <3>2, TraceOutputIs, PacketsOf
  <2> HIDE DEF OutType
  <2> QED
    BY <2>1, <2>2, BeginsIs DEF SoFar
<1>2. IInv /\ (~starved => CoreInv) => OutputIsTrace
  BY <1>1
<1> QED
  BY <1>2, CoreInvariant, PTL

-----------------------------------------------------------------------------
(***************************************************************************)
(* The end of a trace.                                                     *)
(***************************************************************************)
(* The assembler gives up only in the META state, before an empty FIFO and *)
(* an inactive memory reader, and starts only on the start bit.            *)
LEMMA ClockAssembler ==
  ASSUME IInv, CoreInv, ~rst, NEW arready \in BOOLEAN, NEW deliver \in BOOLEAN,
         NEW tready \in BOOLEAN, RpClock(arready, deliver, tready)
  PROVE  /\ as_state' = "IDLE" => \/ as_state = "IDLE" /\ ~start
                                  \/ as_state = "META" /\ fifo_empty /\ ~mr_active
         /\ as_state = "IDLE" /\ start => as_state' = "START"
         /\ as_state = "START" => as_state' = "META"
         /\ as_state = "META" /\ fifo_empty /\ mr_active => as_state' = "META"
<1>1. CASE as_state = "TX"
  BY <1>1, TxStep
<1>2. CASE as_state \in {"IDLE", "START"}
  BY <1>2, OtherStep
<1>3. CASE as_state = "META"
  <2>1. CASE fifo_empty
    BY <1>3, <2>1, OtherStep
  <2>2. CASE ~fifo_empty
    BY <1>3, <2>2, OtherStep
  <2> QED
    BY <1>3, <2>1, <2>2
<1> QED
  BY <1>1, <1>2, <1>3 DEF CoreInv, SideInv

(* The memory reader and the FIFO stay at rest when both are.              *)
LEMMA ClockAtRest ==
  ASSUME IInv, ~rst, ~start, mr_state = "IDLE", ~mr_active,
         NEW arready \in BOOLEAN, NEW deliver \in BOOLEAN, NEW tready \in BOOLEAN,
         RpClock(arready, deliver, tready)
  PROVE  mr_state' = "IDLE" /\ ~mr_active' /\ (Level = 0 => Level' = 0)
<1> DEFINE drain == Pop(tready) /\ sub = WordsPerBeat - 1
<1>1. ClockEdge(arready, deliver, drain) /\ drain \in BOOLEAN
  BY DEF RpClock
<1> HIDE DEF drain
<1>2. mr_active' = (mr_state # "IDLE")
  BY <1>1, ClockBeat
<1>3. mr_state' = "IDLE"
  BY <1>1 DEF ClockEdge, MemReadClock, MrIdle, MrWait, MrReq, MrRead, MrGoto
<1>4. ~fifo_wr_en
  BY DEF IInv, PhaseInv
<1>5. Level = 0 => ~drain /\ stored' = stored /\ drained' = drained
  BY <1>1, <1>4 DEF ClockEdge, FifoClock
<1> QED
  BY <1>2, <1>3, <1>5 DEF Level

LEMMA ClockEnd ==
  ASSUME IInv, CoreInv, EndInv, ~rst, NEW arready \in BOOLEAN,
         NEW deliver \in BOOLEAN, NEW tready \in BOOLEAN, RpClock(arready, deliver, tready)
  PROVE  EndInv'
<1>1. UNCHANGED <<rst, sw>> /\ start' = FALSE /\ mr_active' = (mr_state # "IDLE")
  <2> DEFINE drain == Pop(tready) /\ sub = WordsPerBeat - 1
  <2>1. ClockEdge(arready, deliver, drain) /\ drain \in BOOLEAN
    BY DEF RpClock
  <2> HIDE DEF drain
  <2> QED
    BY <2>1, ClockBeat
<1>2. /\ start => as_state = "IDLE"
      /\ sw = "started" /\ ~start => \/ as_state = "START"
                                     \/ as_state = "META" /\ mr_active
      /\ sw \in {"write", "copy", "publish"} /\ as_state = "IDLE" =>
           sw = "write" /\ mr_state = "IDLE" /\ ~mr_active /\ (~hidden => Level = 0)
      /\ ~hidden' => ~hidden /\ ~(~mr_active /\ fifo_empty /\ Level > 0)
  BY DEF EndInv, RpClock
<1>3. ASSUME sw = "started"
      PROVE  as_state' = "START" \/ (as_state' = "META" /\ mr_active')
  <2>1. CASE start
    BY <1>2, <2>1, ClockAssembler
  <2>2. CASE ~start
    <3>1. mr_active'
      BY <1>1, <1>3, <2>2 DEF IInv, PhaseInv
    <3>2. fifo_empty
      <4>1. Len(stored) = 0 /\ shown \in 0 .. Len(stored)
        <5>1. stored = <<>>
          BY <1>3 DEF IInv, PhaseInv
        <5> QED
          BY <5>1 DEF CoreInv, SideInv
      <4>2. shown = 0 /\ drained \in Nat
        BY <4>1 DEF IInv, TypeOK
      <4> QED
        BY <4>2 DEF fifo_empty
    <3> QED
      BY <1>2, <1>3, <2>2, <3>1, <3>2, ClockAssembler
  <2> QED
    BY <2>1, <2>2
<1>4. ASSUME sw \in {"write", "copy", "publish"}, as_state' = "IDLE"
      PROVE  /\ sw = "write" /\ mr_state' = "IDLE" /\ ~mr_active'
             /\ ~hidden' => Level' = 0
  <2>1. ~start
    BY <1>4 DEF IInv, PhaseInv
  <2>2. sw = "write" /\ mr_state = "IDLE" /\ ~mr_active /\ (~hidden' => Level = 0)
    <3>1. CASE as_state = "IDLE"
      BY <1>2, <1>4, <3>1
    <3>2. CASE as_state = "META" /\ fifo_empty /\ ~mr_active
      <4>1. mr_state = "IDLE" /\ sw = "write"
        BY <1>4, <3>2 DEF IInv, PhaseInv
      <4>2. Level \in Nat
        <5>1. drained \in 0 .. Len(stored) /\ Len(stored) \in Nat
          BY DEF IInv, TypeOK
        <5> QED
          BY <5>1 DEF Level
      <4>3. ~hidden' => Level = 0
        BY <1>2, <3>2, <4>2
      <4> QED
        BY <3>2, <4>1, <4>3
    <3> QED
      BY <1>4, <3>1, <3>2, ClockAssembler
  <2> QED
    BY <2>1, <2>2, ClockAtRest
<1> QED
  BY <1>1, <1>3, <1>4 DEF EndInv

LEMMA EndStep ==
  ASSUME IInv, ~starved => CoreInv /\ EndInv, ~starved', [RpNext]_allVars
  PROVE  EndInv'
<1>1. \/ RpFetch \/ UNCHANGED allVars \/ RpSeeActive \/ RpWrite
      \/ RpConfigure \/ RpStart \/ RpFinish \/ RpReset \/ RpRelease
      => EndInv
  BY DEF RpFetch, RpSeeActive, RpWrite, RpConfigure, RpStart, RpFinish, RpReset,
     RpRelease, rpVars, allVars
<1>2. ASSUME NEW arready \in BOOLEAN, NEW deliver \in BOOLEAN, NEW tready \in BOOLEAN,
             RpClock(arready, deliver, tready)
      PROVE  EndInv'
  <2>1. CASE rst
    <3>1. rst'
      BY <1>2, <2>1 DEF RpClock, ClockEdge
    <3> QED
      BY <3>1 DEF EndInv
  <2>2. CASE ~rst
    <3>1. ~starved
      BY <1>2, <2>2 DEF RpClock
    <3> QED
      BY <1>2, <2>2, <3>1, ClockEnd
  <2> QED
    BY <2>1, <2>2
<1>3. CASE RpFetch \/ UNCHANGED allVars
  <2>1. UNCHANGED <<rst, start, sw, as_state, mr_state, mr_active, stored, drained, hidden>>
    BY <1>3 DEF RpFetch, AxiFetch, rpVars, asVars, allVars, vars, mrVars, regVars,
       swVars, fifoVars
  <2> QED
    BY <1>1, <1>3, <2>1 DEF EndInv, Level
<1>4. CASE RpConfigure
  <2>1. sw = "idle" /\ sw' = "configured" /\ UNCHANGED <<rst, start>>
    BY <1>4 DEF RpConfigure, SwConfigure
  <2>2. ~rst /\ ~start
    BY <2>1 DEF IInv, PhaseInv
  <2> QED
    BY <1>1, <2>1, <2>2 DEF EndInv
<1>5. CASE RpStart
  <2>1. sw' = "started" /\ start' = TRUE /\ as_state' = "IDLE"
    BY <1>5 DEF RpStart, SwStart, as_active, rpVars, asVars
  <2> QED
    BY <1>1, <2>1 DEF EndInv
<1>6. CASE RpSeeActive
  <2>1. /\ sw = "started" /\ sw' = "write" /\ mr_active /\ as_state # "IDLE"
        /\ UNCHANGED <<rst, start, as_state>>
    BY <1>6 DEF RpSeeActive, SwSeeActive, as_active, rpVars, asVars, regVars
  <2>2. ~start
    BY <2>1 DEF IInv, PhaseInv
  <2> QED
    BY <1>1, <2>1, <2>2 DEF EndInv
<1>7. CASE RpWrite
  <2>1. /\ sw \in {"write", "copy", "publish"} /\ sw' \in {"write", "copy", "publish"}
        /\ UNCHANGED <<rst, start, as_state>>
        /\ sw = "write" => sent < trace_size
    BY <1>7 DEF RpWrite, SwSample, SwCopy, SwPublish, rpVars, asVars, regVars
  <2>2. ~rst /\ ~start
    BY <2>1 DEF IInv, PhaseInv
  <2>3. as_state # "IDLE"
    <3> SUFFICES ASSUME as_state = "IDLE" PROVE FALSE
      OBVIOUS
    <3>1. sw = "write" /\ mr_state = "IDLE"
      BY <1>1, <1>7, <2>1, <2>2 DEF EndInv
    <3>2. sent = trace_size /\ trace_size \in Nat
      BY <2>2, <3>1, RingAssumption DEF IInv, PhaseInv, TypeOK
    <3> QED
      BY <2>1, <3>1, <3>2
  <2> QED
    BY <1>1, <2>1, <2>2, <2>3 DEF EndInv
<1>8. CASE RpFinish
  <2>1. sw = "write" /\ sw' = "idle" /\ UNCHANGED <<rst, start>>
    BY <1>8 DEF RpFinish, SwFinish, regVars
  <2>2. ~rst /\ ~start
    BY <2>1 DEF IInv, PhaseInv
  <2> QED
    BY <1>1, <2>1, <2>2 DEF EndInv
<1>9. CASE RpReset
  <2>1. rst' = TRUE
    BY <1>9 DEF RpReset, SwReset
  <2> QED
    BY <1>1, <2>1 DEF EndInv
<1>10. CASE RpRelease
  <2>1. sw' = "idle" /\ ~start /\ start' = start
    BY <1>10 DEF RpRelease, SwRelease
  <2> QED
    BY <1>1, <2>1 DEF EndInv
<1> QED
  BY <1>2, <1>3, <1>4, <1>5, <1>6, <1>7, <1>8, <1>9, <1>10 DEF RpNext

LEMMA InitEnd == RpInit => EndInv
<1> SUFFICES ASSUME RpInit PROVE EndInv
  OBVIOUS
<1>1. start = FALSE /\ sw = "idle"
  BY DEF RpInit, Init
<1> QED
  BY <1>1 DEF EndInv

(* All words were read: every packet was sent.                             *)
LEMMA AllRead ==
  ASSUME IInv, CoreInv, GoodTraces, Running, as_state # "TX",
         drained = trace_size, drained = Len(stored)
  PROVE  SoFar = Format!TraceOutput(Trace)
<1> DEFINE n == Len(Trace)  w(k) == Len(WordsOf(k))  t == Format!TraceWords(Trace)
<1>1. trace_size \in Sizes /\ trace_size \in Nat /\ n \in Nat
  <2>1. trace_size \in Sizes /\ trace_size \in Nat
    BY StoredFits
  <2> QED
    BY <2>1, TraceIs
<1>2. PICK k \in 0 .. n : Between(k)
  <2>1. PICK k \in 0 .. n : Sending(k) \/ Between(k)
    BY DEF CoreInv, SentInv
  <2> QED
    BY <2>1 DEF Sending
<1>3. ReadWords = Len(t) /\ Len(t) \in Nat
  <2>1. sub = 0
    <3>1. SideInv /\ drained \in Nat
      BY DEF CoreInv, IInv, TypeOK
    <3> QED
      BY <1>1, <3>1 DEF SideInv
  <2>2. Len(t) = trace_size * WordsPerBeat
    BY <1>1, TraceWordsAre
  <2>3. trace_size * WordsPerBeat \in Nat
    BY <1>1, Units
  <2>4. ReadWords = trace_size * WordsPerBeat
    BY <2>1, <2>3 DEF ReadWords
  <2> QED
    BY <2>2, <2>3, <2>4
<1>4. w(n) <= Len(t)
  BY <1>1, TraceWordsAre DEF Begins
<1>5. k = n
  <2> SUFFICES ASSUME k # n PROVE FALSE
    OBVIOUS
  <2>1. k + 1 \in 1 .. n /\ k + 1 \in 0 .. n /\ (k + 1) - 1 = k /\ n \in 0 .. n
    <3> HIDE DEF n
    <3>1. k \in Nat /\ k < n
      BY <1>1, <1>2
    <3> QED
      BY <1>1, <3>1
  <2>2. w(k) \in Nat /\ w(k + 1) \in Nat /\ w(n) \in Nat
    BY <1>1, <1>2, <2>1, PacketsOf
  <2>3. w(k + 1) = w(k) + Len(WordSeqs[k + 1])
    <3>1. PICK i \in 1 .. n : i = k + 1 /\ i - 1 = k
      BY <2>1
    <3>2. w(i) = w(i - 1) + Len(WordSeqs[i])
      BY <1>1, PacketsOf
    <3> QED
      BY <3>1, <3>2
  <2>4. w(k + 1) <= w(n)
    <3>1. Begins(WordsOf(k + 1), WordsOf(n))
      BY <1>1, <2>1, PacketsOf
    <3> QED
      BY <3>1 DEF Begins
  <2>5. Len(WordSeqs[k + 1]) \in Nat \ {0}
    <3>1. Trace[k + 1] \in Packet /\ WordSeqs[k + 1] = Format!PacketWords(Trace[k + 1])
      <4> HIDE DEF n
      <4>1. PICK i \in 1 .. n : i = k + 1
        BY <2>1
      <4>2. Trace[i] \in Packet /\ WordSeqs[i] = Format!PacketWords(Trace[i])
        BY <1>1, TraceIs DEF n
      <4> QED
        BY <4>1, <4>2
    <3>2. Len(WordSeqs[k + 1]) = 1 + Format!WordsFor(Trace[k + 1].snap)
      BY <3>1, PacketWordsAre
    <3>3. Format!WordsFor(Trace[k + 1].snap) \in Nat
      BY <3>1, PacketIs
    <3> QED
      BY <3>2, <3>3
  <2>6. ReadWords = w(k)
    BY <1>2 DEF Between
  <2> HIDE DEF w, t, n
  <2> QED
    BY <1>3, <1>4, <2>2, <2>3, <2>4, <2>5, <2>6
<1>6. SoFar = OutOf(n)
  BY <1>2, <1>5 DEF Between
<1> QED
  BY <1>1, <1>6, TraceOutputIs

(* When the status bits of both modules are down after software has        *)
(* written its trace, all of it was read from memory and all of it handed  *)
(* to the stream: neither takes a pause of the other for the end, however  *)
(* late the FIFO shows its beats, as long as it has not hidden all it held *)
(* from the assembler while the memory reader was inactive.                *)
THEOREM InactiveIsDone ==
  ASSUME GoodTraces
  PROVE  RpSpec => []InactiveMeansDone
<1>1. ASSUME IInv, ~starved => CoreInv /\ EndInv PROVE InactiveMeansDone
  <2> SUFFICES ASSUME sw = "write", as_state = "IDLE", CoreInv, EndInv, ~hidden
      PROVE  sent = trace_size /\ SoFar = Format!TraceOutput(Trace) /\ Level = 0
    BY <1>1 DEF InactiveMeansDone, as_active, SoFar
  <2>1. mr_state = "IDLE" /\ ~mr_active /\ Level = 0 /\ ~rst
    BY <1>1 DEF EndInv, IInv, PhaseInv
  <2>2. sent = trace_size /\ Len(Handed) = trace_size /\ ~fifo_wr_en
    BY <1>1, <2>1 DEF IInv, PhaseInv
  <2>3. Len(stored) = trace_size /\ drained = Len(stored)
    <3>1. Len(stored) = trace_size
      BY <2>2 DEF Handed
    <3>2. drained \in Nat /\ Len(stored) \in Nat
      BY <1>1 DEF IInv, TypeOK
    <3> QED
      BY <2>1, <3>1, <3>2 DEF Level
  <2>4. Running
    BY DEF Running
  <2>5. SoFar = Format!TraceOutput(Trace)
    BY <1>1, <2>3, <2>4, AllRead
  <2> QED
    BY <2>1, <2>2, <2>5
<1>2. IInv /\ (~starved => CoreInv) /\ (~starved => EndInv) /\ [RpNext]_allVars
        => (~starved => EndInv)'
  BY EndStep
<1>3. IInv /\ (~starved => CoreInv) /\ (~starved => EndInv) => InactiveMeansDone
  BY <1>1
<1> QED
  BY <1>2, <1>3, InitEnd, CoreInvariant, PTL DEF RpSpec
=============================================================================
