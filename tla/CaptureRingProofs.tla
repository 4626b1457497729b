-------------------------- MODULE CaptureRingProofs --------------------------
(***************************************************************************)
(* Proofs about CaptureRing, for every size of the ring, the burst, the    *)
(* FIFO, the transfers and the captures.                                   *)
(***************************************************************************)
EXTENDS CaptureRing, TLAPS

(***************************************************************************)
(* The inductive invariant.                                                *)
(***************************************************************************)
MwStates == {"RST", "INACTIVE", "START", "WAIT_RING_BUFF", "WAIT_FIFO",
             "WRITE_REQ", "WRITE", "WAIT_WRITE_RESP"}
CtStates == {"IDLE", "ACTIVE", "RX_DISABLE", "ALIGN", "WAIT_ALIGN",
             "WAIT_EMPTY", "MEM_DISABLE", "FLUSH", "WAIT_FLUSH1", "WAIT_FLUSH2"}

TypeOK ==
  /\ mw_state \in MwStates
  /\ addr_wr \in Slots /\ awaddr \in Slots
  /\ awlen \in 0 .. BurstLen - 1
  /\ beats_cntr \in 0 .. BurstLen - 1
  /\ awvalid \in BOOLEAN /\ wvalid \in BOOLEAN
  /\ flush \in BOOLEAN /\ mw_active \in BOOLEAN
  /\ ct_state \in CtStates
  /\ ct \in [status : BOOLEAN, rx : BOOLEAN, mem : BOOLEAN, flush : BOOLEAN,
             align : BOOLEAN]
  /\ ctrl_active \in BOOLEAN /\ addr_rd \in Slots /\ rst \in BOOLEAN
  /\ total \in Totals /\ fed \in Nat
  /\ fifo \in Seq(Int) /\ prog_empty \in BOOLEAN
  /\ mem \in [Slots -> Int]
  /\ aw_ready \in BOOLEAN /\ w_ready \in BOOLEAN /\ b_valid \in BOOLEAN
  /\ w_addr \in Nat /\ w_left \in 0 .. BurstLen /\ w_data \in Seq(Int)
  /\ w_open \in BOOLEAN
  /\ sw \in {"idle", "configured", "started", "poll", "read", "release", "reset"}
  /\ chunk \in 0 .. TransferMax
  /\ got \in Seq(Int)
  /\ published \in Nat

(* The writer is at work, and the beats of a burst are on their way.       *)
Loop     == {"WAIT_RING_BUFF", "WAIT_FIFO", "WRITE_REQ", "WRITE", "WAIT_WRITE_RESP"}
Bursting == mw_state \in {"WRITE", "WAIT_WRITE_RESP"}
Reading  == sw \in {"poll", "read", "release"}

(* The shutdown has gone past the flush.                                   *)
Flushed  == ct_state \in {"WAIT_FLUSH2", "IDLE"}
Draining == ct_state \in {"MEM_DISABLE", "FLUSH", "WAIT_FLUSH1", "WAIT_FLUSH2", "IDLE"}

(* The handshakes between the writer and the memory.                       *)
PortInv ==
  /\ awvalid => mw_state = "WRITE_REQ"
  /\ wvalid => mw_state = "WRITE"
  /\ w_ready => w_left > 0
  /\ ~Bursting => ~w_open /\ w_left = 0 /\ w_data = <<>> /\ ~b_valid
  /\ mw_state = "WRITE" =>
       /\ w_open /\ ~b_valid
       /\ beats_cntr <= awlen
       /\ w_left = awlen + 1 - beats_cntr
  /\ mw_state = "WAIT_WRITE_RESP" =>
       /\ w_open /\ w_left = 0
       /\ b_valid => w_data = <<>>

(* How far software, the control FSM and the writer are from each other.   *)
(* No state but the first two of a capture lets the writer be at rest, up  *)
(* to the one that waits for it.                                           *)
StartInv ==
  sw = "started" =>
    /\ ct_state \in {"IDLE", "ACTIVE", "RX_DISABLE", "ALIGN"}
    /\ ct_state = "IDLE" =>
         ctrl_active /\ ~ct.mem /\ mw_state \in {"RST", "INACTIVE"}
    /\ ct_state # "IDLE" => mw_state \in {"INACTIVE", "START"}
    /\ ct_state = "ACTIVE" /\ ~ct.mem => mw_state = "INACTIVE"
    /\ ct_state = "ALIGN" => mw_state = "START"

ShutdownInv ==
  Reading =>
    /\ mw_state \in Loop \union {"INACTIVE"}
    /\ flush => Flushed /\ mw_state \in {"WAIT_RING_BUFF", "WAIT_FIFO"}
    /\ ct_state \in {"ACTIVE", "RX_DISABLE", "ALIGN", "WAIT_ALIGN", "WAIT_EMPTY"} =>
         mw_state \in Loop /\ ct.mem
    /\ ct_state = "MEM_DISABLE" =>
         /\ ct.mem => mw_state \in Loop /\ mw_active
         /\ ~mw_active => mw_state = "INACTIVE"
    /\ ct_state \in {"FLUSH", "WAIT_FLUSH1"} => mw_state = "INACTIVE"
    /\ Flushed /\ mw_state = "WAIT_FIFO" => flush
    /\ ct_state = "IDLE" => ~ctrl_active

CtrlInv ==
  /\ rst <=> sw = "reset"
  /\ mw_state \in {"WRITE_REQ", "WRITE", "WAIT_WRITE_RESP"} => Reading
  /\ ~rst =>
       /\ ct.flush <=> ct_state = "WAIT_FLUSH1"
       /\ ct_state \in {"RX_DISABLE", "ALIGN", "WAIT_ALIGN", "WAIT_EMPTY"} => ct.mem
       /\ ct_state \in {"FLUSH", "WAIT_FLUSH1", "WAIT_FLUSH2", "IDLE"} => ~ct.mem
       /\ ct_state \notin {"IDLE", "ACTIVE"} => ~ctrl_active /\ ct.status
       /\ ct.mem => ct.status
       /\ sw \in {"idle", "configured"} =>
            /\ ct_state = "IDLE" /\ ~ctrl_active
            /\ mw_state \in {"RST", "INACTIVE"}
  /\ StartInv
  /\ ShutdownInv

(* The beats: what is fed is published, or on its way to the memory, or in *)
(* the FIFO, in order.                                                     *)
Transferred == IF Bursting THEN awlen + 1 - w_left ELSE 0
Landed      == Transferred - Len(w_data)

FifoInv ==
  /\ rst => fed = 0 /\ published = 0 /\ got = <<>>
  /\ mw_state = "WAIT_FIFO" /\ ~prog_empty => Len(fifo) >= BurstLen
  /\ sw \in {"idle", "configured"} => fifo = <<>>
  /\ sw = "configured" => fed = 0
  /\ sw \in {"configured", "started"} =>
       published = 0 /\ got = <<>> /\ addr_rd = 0
  /\ sw = "started" \/ Reading =>
       fed = published + Transferred + Len(fifo) /\ fed <= total

(* Every beat of a burst waits in the FIFO before it is requested.         *)
BackedInv ==
  /\ mw_state = "WRITE_REQ" => Len(fifo) >= awlen + 1
  /\ mw_state = "WRITE" => Len(fifo) >= w_left

FifoOrder ==
  sw = "started" \/ Reading =>
    \A i \in 1 .. Len(fifo) : fifo[i] = published + Transferred + i - 1

(* The shutdown: everything is in the FIFO when the writer is stopped, and *)
(* what is left there is less than a burst.                                *)
DrainInv ==
  Reading =>
    /\ ct_state = "WAIT_EMPTY" => fed = total /\ (prog_empty => Len(fifo) < BurstLen)
    /\ Draining => fed = total /\ Len(fifo) < BurstLen /\ prog_empty
    /\ mw_state \in {"WRITE_REQ", "WRITE", "WAIT_WRITE_RESP"} =>
         IF Flushed THEN published + awlen + 1 = total ELSE awlen = BurstLen - 1
    /\ Flushed /\ ~flush /\ mw_state \in {"WAIT_RING_BUFF", "INACTIVE"} =>
         published = total

(* The ring: the pointers, the room for a burst and the slots.             *)
Given     == IF sw = "release" THEN Len(got) - chunk ELSE Len(got)
Offset(i) == IF i >= addr_rd THEN i - addr_rd ELSE i - addr_rd + RingSize
Fill      == IF addr_wr >= addr_rd THEN addr_wr - addr_rd
                                   ELSE RingSize - addr_rd + addr_wr

PointerInv ==
  Reading =>
    /\ published - Given = Fill
    /\ Len(got) <= published
    /\ awaddr = IF mw_state = "WRITE" THEN addr_wr + beats_cntr
                ELSE IF mw_state = "WAIT_WRITE_RESP" THEN Advance(addr_wr, awlen + 1)
                ELSE addr_wr
    /\ mw_state \in Loop \ {"WAIT_RING_BUFF"} => Fill + BurstLen < RingSize
    /\ sw = "read" => chunk > 0 /\ addr_rd + chunk <= RingSize
                      /\ Len(got) + chunk <= published
    /\ sw = "release" => chunk > 0 /\ addr_rd + chunk <= RingSize
                         /\ chunk <= Len(got)

(* Only the last burst of a capture may leave the burst boundary.          *)
AlignInv ==
  Reading /\ (~Flushed \/ flush \/ mw_state \notin {"WAIT_RING_BUFF", "INACTIVE"}) =>
    addr_wr % BurstLen = 0

SlotInv ==
  Reading => \A i \in Slots : Offset(i) < Fill + Landed => mem[i] = Given + Offset(i)

(* A burst that is accepted.                                               *)
BurstInv ==
  Reading /\ Bursting => w_addr = addr_wr + Transferred /\ Len(w_data) <= Transferred

BurstOrder ==
  Reading => \A i \in 1 .. Len(w_data) : w_data[i] = published + Landed + i - 1

IInv ==
  /\ TypeOK
  /\ PortInv
  /\ CtrlInv
  /\ FifoInv
  /\ BackedInv
  /\ FifoOrder
  /\ DrainInv
  /\ PointerInv
  /\ AlignInv
  /\ SlotInv
  /\ BurstInv
  /\ BurstOrder
  /\ TakenInOrder

-----------------------------------------------------------------------------
(* Multiples of the burst length.                                          *)
LEMMA MultipleOf ==
  ASSUME NEW b \in Nat \ {0}, NEW n \in Nat, n % b = 0
  PROVE  n = b * (n \div b) /\ n \div b \in Nat
OBVIOUS

LEMMA NextMultiple ==
  ASSUME NEW b \in Nat \ {0}, NEW n \in Nat, n % b = 0
  PROVE  (n + b) % b = 0
<1> DEFINE q == n \div b
<1>1. n = b * q /\ q \in Nat
  BY MultipleOf
<1> HIDE DEF q
<1>2. n + b = b * (q + 1)
  BY <1>1
<1>3. (b * (q + 1)) % b = 0
  BY <1>1
<1> QED
  BY <1>2, <1>3

(* Before the end of the ring there is room for another burst.             *)
LEMMA RoomToEnd ==
  ASSUME NEW b \in Nat \ {0}, NEW n \in Nat, NEW m \in Nat,
         n % b = 0, m % b = 0, n < m
  PROVE  n + b <= m
<1> DEFINE q == n \div b  s == m \div b
<1>1. n = b * q /\ q \in Nat /\ m = b * s /\ s \in Nat
  BY MultipleOf
<1> HIDE DEF q, s
<1>2. q < s
  <2> SUFFICES ASSUME s <= q PROVE FALSE
    BY <1>1
  <2>1. b * s <= b * q
    BY <1>1
  <2> QED
    BY <1>1, <2>1
<1>3. b * (q + 1) <= b * s
  BY <1>1, <1>2
<1> QED
  BY <1>1, <1>3

-----------------------------------------------------------------------------
(* What the invariant says of the numbers.                                 *)
LEMMA Sizes ==
  /\ BurstLen \in Nat /\ BurstLen > 0
  /\ RingSize \in Nat /\ RingSize > BurstLen
BY MemWriteAssumption

LEMMA Pointers ==
  ASSUME IInv
  PROVE  /\ addr_rd \in Nat /\ addr_rd < RingSize
         /\ addr_wr \in Nat /\ addr_wr < RingSize
BY MemWriteAssumption DEF IInv, TypeOK, Slots

LEMMA BurstNumbers ==
  ASSUME IInv
  PROVE  /\ awlen \in Nat /\ awlen < BurstLen
         /\ beats_cntr \in Nat /\ beats_cntr < BurstLen
         /\ w_left \in Nat /\ w_left <= BurstLen
BY MemWriteAssumption DEF IInv, TypeOK

LEMMA Counts ==
  ASSUME IInv
  PROVE  chunk \in Nat /\ published \in Nat /\ fed \in Nat /\ total \in Nat
BY CaptureAssumption DEF IInv, TypeOK

LEMMA Lengths ==
  ASSUME IInv
  PROVE  Len(fifo) \in Nat /\ Len(got) \in Nat /\ Len(w_data) \in Nat
BY DEF IInv, TypeOK

(* The beats between the pointers, and those given back before.            *)
LEMMA FillNumbers ==
  ASSUME IInv, Reading
  PROVE  /\ Given \in Nat /\ Fill \in Nat /\ Fill < RingSize
         /\ published = Given + Fill
<1>0. PointerInv
  BY DEF IInv
<1>1. Fill \in Nat /\ Fill < RingSize
  BY Sizes, Pointers DEF Fill
<1>2. Given \in Int
  BY Counts, Lengths DEF Given
<1>3. published - Given = Fill
  BY <1>0 DEF PointerInv
<1>4. Given >= 0
  BY <1>0, Counts, Lengths DEF PointerInv, Given
<1> QED
  BY <1>1, <1>2, <1>3, <1>4, Counts

(* Beats on their way to the memory belong to the burst that is accepted.  *)
LEMMA Flow ==
  ASSUME IInv, Reading
  PROVE  /\ Transferred \in Nat /\ Transferred <= BurstLen
         /\ Landed \in Nat /\ Landed = Transferred - Len(w_data)
         /\ Bursting => Transferred = awlen + 1 - w_left
         /\ ~Bursting => Transferred = 0 /\ Landed = 0 /\ w_data = <<>>
<1>0. PortInv /\ BurstInv
  BY DEF IInv
<1>1. ~Bursting => Transferred = 0 /\ w_data = <<>>
  BY <1>0 DEF PortInv, Transferred
<1>2. Bursting => Transferred = awlen + 1 - w_left
  BY DEF Transferred
<1>3. Bursting => w_left <= awlen + 1
  BY <1>0, BurstNumbers DEF PortInv, Bursting
<1>4. Transferred \in Nat /\ Transferred <= BurstLen
  BY <1>1, <1>2, <1>3, Sizes, BurstNumbers
<1>5. Len(w_data) <= Transferred
  <2>1. CASE Bursting
    BY <1>0, <2>1 DEF BurstInv
  <2>2. CASE ~Bursting
    BY <1>1, <2>2
  <2> QED
    BY <2>1, <2>2
<1>6. Landed \in Nat /\ Landed = Transferred - Len(w_data)
  BY <1>4, <1>5, Lengths DEF Landed
<1>7. ~Bursting => Landed = 0
  <2> SUFFICES ASSUME ~Bursting PROVE Landed = 0
    OBVIOUS
  <2>1. Transferred = 0 /\ Len(w_data) = 0
    BY <1>1
  <2> QED
    BY <1>6, <2>1
<1> QED
  BY <1>1, <1>2, <1>4, <1>6, <1>7

(* A burst on its way has its room in the ring.                            *)
LEMMA Room ==
  ASSUME IInv, Reading
  PROVE  /\ Bursting => Fill + BurstLen < RingSize
         /\ Fill + Landed < RingSize
<1>1. Bursting => Fill + BurstLen < RingSize
  BY DEF IInv, PointerInv, Bursting, Loop
<1>2. Landed \in Nat /\ Landed <= BurstLen
  BY Flow, Lengths, Sizes
<1>3. ~Bursting => Landed = 0
  BY Flow
<1> QED
  BY <1>1, <1>2, <1>3, FillNumbers, Sizes

(* A burst that is requested lies before the end of the ring.              *)
LEMMA BurstBeforeEnd ==
  ASSUME IInv, mw_state \in {"WRITE_REQ", "WRITE", "WAIT_WRITE_RESP"}
  PROVE  addr_wr + BurstLen <= RingSize /\ addr_wr + awlen < RingSize
<1>1. addr_wr % BurstLen = 0
  BY DEF IInv, CtrlInv, AlignInv
<1>2. BurstLen \in Nat \ {0} /\ RingSize % BurstLen = 0
  BY MemWriteAssumption
<1>3. addr_wr + BurstLen <= RingSize
  BY <1>1, <1>2, RoomToEnd, Sizes, Pointers
<1> QED
  BY <1>3, Sizes, Pointers, BurstNumbers

-----------------------------------------------------------------------------
LEMMA InitIInv == Init => IInv
<1> SUFFICES ASSUME Init PROVE IInv
  OBVIOUS
<1>1. TypeOK
  <2> USE MemWriteAssumption, CaptureAssumption DEF Init, MemWriteInit, CtrlInit
  <2>1. ct \in [status : BOOLEAN, rx : BOOLEAN, mem : BOOLEAN, flush : BOOLEAN,
               align : BOOLEAN]
    BY DEF Outputs
  <2>2. mem \in [Slots -> Int]
    BY DEF NoData
  <2>3. fifo \in Seq(Int) /\ w_data \in Seq(Int) /\ got \in Seq(Int)
    OBVIOUS
  <2>4. mw_state \in MwStates /\ ct_state \in CtStates
    BY DEF MwStates, CtStates
  <2>5. /\ addr_wr \in Slots /\ awaddr \in Slots /\ addr_rd \in Slots
        /\ awlen \in 0 .. BurstLen - 1 /\ beats_cntr \in 0 .. BurstLen - 1
        /\ w_left \in 0 .. BurstLen /\ chunk \in 0 .. TransferMax
    BY DEF Slots
  <2> HIDE MemWriteAssumption, CaptureAssumption
  <2> QED
    BY <2>1, <2>2, <2>3, <2>4, <2>5 DEF TypeOK
<1> USE DEF Init, MemWriteInit, CtrlInit
<1>2. PortInv
  BY DEF PortInv, Bursting
<1>3. CtrlInv
  BY DEF CtrlInv, StartInv, ShutdownInv, Reading, Outputs
<1>4. FifoInv /\ BackedInv /\ FifoOrder /\ DrainInv /\ PointerInv /\ AlignInv /\ SlotInv
      /\ BurstInv /\ BurstOrder /\ TakenInOrder
  BY DEF FifoInv, BackedInv, FifoOrder, DrainInv, PointerInv, AlignInv, SlotInv, BurstInv,
     BurstOrder, TakenInOrder, Reading
<1> QED
  BY <1>1, <1>2, <1>3, <1>4 DEF IInv

LEMMA AcceptAddrStep == ASSUME IInv, AxiAcceptAddr PROVE IInv'
<1> USE DEF AxiAcceptAddr, mwVars, ctVars, regVars, fifoVars, axiVars, swVars
<1>1. TypeOK' /\ PortInv'
  BY DEF IInv, TypeOK, PortInv, Bursting
<1>2. CtrlInv'
  BY DEF IInv, TypeOK, CtrlInv, StartInv, ShutdownInv, Reading, Flushed, Loop
<1>3. FifoInv' /\ BackedInv' /\ FifoOrder'
  BY DEF IInv, FifoInv, Reading, Transferred, Bursting, BackedInv, FifoOrder
<1>4. DrainInv' /\ PointerInv' /\ AlignInv'
  BY DEF IInv, DrainInv, Reading, Flushed, Draining, PointerInv, Loop, Given,
     Fill, Advance, AlignInv
<1>5. SlotInv' /\ BurstInv' /\ BurstOrder' /\ TakenInOrder'
  BY DEF IInv, SlotInv, Reading, Given, Offset, Fill, Landed, Transferred,
     Bursting, BurstInv, BurstOrder, TakenInOrder
<1> QED
  BY <1>1, <1>2, <1>3, <1>4, <1>5 DEF IInv

LEMMA AcceptDataStep == ASSUME IInv, AxiAcceptData PROVE IInv'
<1> USE DEF AxiAcceptData, mwVars, ctVars, regVars, fifoVars, axiVars, swVars
<1>1. TypeOK' /\ PortInv'
  BY DEF IInv, TypeOK, PortInv, Bursting
<1>2. CtrlInv'
  BY DEF IInv, TypeOK, CtrlInv, StartInv, ShutdownInv, Reading, Flushed, Loop
<1>3. FifoInv' /\ BackedInv' /\ FifoOrder'
  BY DEF IInv, FifoInv, Reading, Transferred, Bursting, BackedInv, FifoOrder
<1>4. DrainInv' /\ PointerInv' /\ AlignInv'
  BY DEF IInv, DrainInv, Reading, Flushed, Draining, PointerInv, Loop, Given,
     Fill, Advance, AlignInv
<1>5. SlotInv' /\ BurstInv' /\ BurstOrder' /\ TakenInOrder'
  BY DEF IInv, SlotInv, Reading, Given, Offset, Fill, Landed, Transferred,
     Bursting, BurstInv, BurstOrder, TakenInOrder
<1> QED
  BY <1>1, <1>2, <1>3, <1>4, <1>5 DEF IInv

LEMMA StoreStep == ASSUME IInv, AxiStore PROVE IInv'
<1> USE DEF AxiStore, mwVars, ctVars, regVars, fifoVars, axiVars, swVars
<1>1. PortInv'
  BY DEF IInv, TypeOK, PortInv, Bursting
<1>2. TypeOK'
  <2>1. mem' \in [Slots -> Int] /\ w_data' \in Seq(Int)
    BY DEF IInv, TypeOK
  <2> QED
    BY <2>1 DEF IInv, TypeOK
<1>3. CtrlInv'
  BY DEF IInv, TypeOK, CtrlInv, StartInv, ShutdownInv, Reading, Flushed, Loop
<1>4. FifoInv' /\ BackedInv' /\ FifoOrder'
  BY DEF IInv, FifoInv, Reading, Transferred, Bursting, BackedInv, FifoOrder
<1>5. DrainInv' /\ PointerInv' /\ AlignInv'
  BY DEF IInv, DrainInv, Reading, Flushed, Draining, PointerInv, Loop, Given,
     Fill, Advance, AlignInv
<1>6. TakenInOrder'
  BY DEF IInv, TakenInOrder
<1>7. SlotInv'
  <2> SUFFICES ASSUME Reading PROVE SlotInv'
    BY DEF SlotInv, Reading
  <2> DEFINE first == w_addr - Len(w_data)
  <2>1. mem' = [i \in Slots |-> IF i = first THEN Head(w_data) ELSE mem[i]]
    OBVIOUS
  <2>2. w_data # <<>> /\ w_data \in Seq(Int)
    BY DEF IInv, TypeOK
  <2>3. Len(w_data') = Len(w_data) - 1 /\ Len(w_data) > 0
    BY <2>2
  <2>4. UNCHANGED <<Given, Fill, Transferred>> /\ \A i \in Slots : Offset(i)' = Offset(i)
    BY DEF Given, Fill, Transferred, Bursting, Offset
  <2> HIDE DEF AxiStore
  <2>5. Head(w_data) = published + Landed
    <3>1. w_data[1] = published + Landed + 1 - 1
      BY <2>3, Lengths DEF IInv, BurstOrder
    <3> QED
      BY <2>2, <3>1, Flow, Counts
  <2>6. Bursting /\ w_addr = addr_wr + Transferred
    BY <2>2 DEF IInv, PortInv, BurstInv
  <2>7. Landed' = Landed + 1
    BY <2>3, <2>4, Flow, Lengths DEF Landed
  <2>8. first = addr_wr + Landed
    <3>1. Landed = Transferred - Len(w_data) /\ Transferred \in Nat
      BY Flow
    <3> QED
      BY <2>6, <3>1, Lengths, Pointers
  <2> HIDE DEF first
  <2>9. Landed < BurstLen
    <3>1. Landed = Transferred - Len(w_data) /\ Transferred \in Nat
          /\ Transferred <= BurstLen
      BY Flow
    <3> QED
      BY <2>3, <3>1, Lengths, Sizes
  <2>10. first \in Slots /\ Offset(first) = Fill + Landed
    <3>1. addr_wr + BurstLen <= RingSize
      BY <2>6, BurstBeforeEnd DEF Bursting
    <3>2. addr_wr + Landed < RingSize /\ Fill + BurstLen < RingSize /\ Landed \in Nat
      <4>1. Landed \in Nat
        BY Flow
      <4> QED
        BY <2>6, <2>9, <3>1, <4>1, Room, Sizes, Pointers
    <3> QED
      BY <2>8, <2>9, <3>2, Sizes, Pointers DEF Offset, Fill, Slots
  <2>11. ASSUME NEW i \in Slots, Offset(i) < Fill + Landed + 1
         PROVE  mem'[i] = Given + Offset(i)
    <3>1. CASE i = first
      <4>1. Landed \in Nat
        BY Flow
      <4> QED
        BY <2>1, <2>5, <2>10, <3>1, <4>1, FillNumbers
    <3>2. CASE i # first
      <4>1. mem'[i] = mem[i]
        BY <2>1, <3>2
      <4>2. Offset(i) \in Int /\ Offset(first) \in Int /\ Offset(i) # Offset(first)
        BY <2>10, <3>2, Sizes, Pointers DEF Offset, Slots
      <4>3. Offset(i) < Fill + Landed
        <5>1. Landed \in Nat
          BY Flow
        <5> QED
          BY <2>10, <2>11, <4>2, <5>1, FillNumbers
      <4> QED
        BY <4>1, <4>3 DEF IInv, SlotInv
    <3> QED
      BY <3>1, <3>2
  <2> QED
    BY <2>4, <2>7, <2>11, Flow, FillNumbers DEF SlotInv
<1>8. BurstInv'
  <2>1. w_data \in Seq(Int) /\ Len(w_data') <= Len(w_data)
    BY DEF IInv, TypeOK
  <2>2. UNCHANGED <<Transferred, Bursting, Reading>>
    BY DEF Transferred, Bursting, Reading
  <2>3. Reading => Transferred \in Nat
    BY Flow
  <2>4. Len(w_data) \in Nat /\ Len(w_data') \in Nat
    BY <2>1 DEF IInv, TypeOK
  <2> QED
    BY <2>1, <2>2, <2>3, <2>4 DEF IInv, BurstInv
<1>9. BurstOrder'
  <2> SUFFICES ASSUME Reading PROVE BurstOrder'
    BY DEF BurstOrder, Reading
  <2>1. /\ w_data \in Seq(Int) /\ w_data # <<>>
        /\ Len(w_data') = Len(w_data) - 1
        /\ \A i \in 1 .. Len(w_data') : w_data'[i] = w_data[i + 1]
    BY DEF IInv, TypeOK
  <2>2. Landed' = Landed + 1
    <3>1. Transferred' = Transferred
      BY DEF Transferred, Bursting
    <3> HIDE DEF AxiStore
    <3> QED
      BY <2>1, <3>1, Flow, Lengths DEF Landed
  <2>3. published' = published
    OBVIOUS
  <2> HIDE DEF AxiStore
  <2>4. ASSUME NEW i \in 1 .. Len(w_data')
        PROVE  w_data'[i] = published' + Landed' + i - 1
    <3>2. Landed \in Nat
      BY Flow
    <3>1. w_data[i + 1] = published + Landed + (i + 1) - 1
      <4>1. i + 1 \in 1 .. Len(w_data)
        BY <2>1, <2>4, Lengths
      <4> QED
        BY <4>1 DEF IInv, BurstOrder
    <3> QED
      BY <2>1, <2>2, <2>3, <3>1, <3>2, Counts
  <2> QED
    BY <2>4 DEF BurstOrder
<1> QED
  BY <1>1, <1>2, <1>3, <1>4, <1>5, <1>6, <1>7, <1>8, <1>9 DEF IInv

LEMMA RespondStep == ASSUME IInv, AxiRespond PROVE IInv'
<1> USE DEF AxiRespond, mwVars, ctVars, regVars, fifoVars, axiVars, swVars
<1>1. TypeOK' /\ PortInv'
  BY DEF IInv, TypeOK, PortInv, Bursting
<1>2. CtrlInv'
  BY DEF IInv, TypeOK, CtrlInv, StartInv, ShutdownInv, Reading, Flushed, Loop
<1>3. FifoInv' /\ BackedInv' /\ FifoOrder'
  BY DEF IInv, FifoInv, Reading, Transferred, Bursting, BackedInv, FifoOrder
<1>4. DrainInv' /\ PointerInv' /\ AlignInv'
  BY DEF IInv, DrainInv, Reading, Flushed, Draining, PointerInv, Loop, Given,
     Fill, Advance, AlignInv
<1>5. SlotInv' /\ BurstInv' /\ BurstOrder' /\ TakenInOrder'
  BY DEF IInv, SlotInv, Reading, Given, Offset, Fill, Landed, Transferred,
     Bursting, BurstInv, BurstOrder, TakenInOrder
<1> QED
  BY <1>1, <1>2, <1>3, <1>4, <1>5 DEF IInv

-----------------------------------------------------------------------------
LEMMA ConfigureStep == ASSUME IInv, SwConfigure PROVE IInv'
<1> USE DEF SwConfigure, mwVars, ctVars, regVars, fifoVars, axiVars, swVars
<1>1. PortInv'
  BY DEF IInv, TypeOK, PortInv, Bursting
<1>2. TypeOK'
  <2>1. addr_rd' \in Slots
    BY MemWriteAssumption DEF Slots
  <2>2. got' \in Seq(Int)
    OBVIOUS
  <2> QED
    BY <2>1, <2>2 DEF IInv, TypeOK
<1>3. CtrlInv'
  BY DEF IInv, TypeOK, CtrlInv, StartInv, ShutdownInv, Reading, Flushed, Loop
<1>4. FifoInv' /\ BackedInv' /\ FifoOrder'
  BY DEF IInv, FifoInv, Reading, Transferred, Bursting, BackedInv, FifoOrder
<1>5. DrainInv' /\ PointerInv' /\ AlignInv'
  BY DEF IInv, DrainInv, Reading, Flushed, Draining, PointerInv, Loop, Given,
     Fill, Advance, AlignInv
<1>6. SlotInv' /\ BurstInv' /\ BurstOrder' /\ TakenInOrder'
  BY DEF IInv, SlotInv, Reading, Given, Offset, Fill, Landed, Transferred,
     Bursting, BurstInv, BurstOrder, TakenInOrder
<1> QED
  BY <1>1, <1>2, <1>3, <1>4, <1>5, <1>6 DEF IInv

LEMMA StartStep == ASSUME IInv, SwStart PROVE IInv'
<1> USE DEF SwStart, mwVars, ctVars, regVars, fifoVars, axiVars, swVars
<1>1. TypeOK' /\ PortInv'
  BY DEF IInv, TypeOK, PortInv, Bursting
<1>2. CtrlInv'
  BY DEF IInv, TypeOK, CtrlInv, StartInv, ShutdownInv, Reading, Flushed, Loop
<1>3. BackedInv'
  BY DEF IInv, BackedInv
<1>4. FifoInv'
  <2>1. ~Bursting /\ fed = 0 /\ published = 0 /\ fifo = <<>> /\ total \in Nat
    BY Counts DEF IInv, CtrlInv, FifoInv, Bursting
  <2> QED
    BY <2>1 DEF IInv, FifoInv, Reading, Transferred, Bursting
<1>5. FifoOrder'
  <2>1. fifo = <<>>
    BY DEF IInv, FifoInv
  <2> QED
    BY <2>1 DEF FifoOrder
<1>6. DrainInv' /\ PointerInv' /\ AlignInv'
  BY DEF IInv, DrainInv, Reading, Flushed, Draining, PointerInv, Loop, Given,
     Fill, Advance, AlignInv
<1>7. SlotInv' /\ BurstInv' /\ BurstOrder' /\ TakenInOrder'
  BY DEF IInv, SlotInv, Reading, Given, Offset, Fill, Landed, Transferred,
     Bursting, BurstInv, BurstOrder, TakenInOrder
<1> QED
  BY <1>1, <1>2, <1>3, <1>4, <1>5, <1>6, <1>7 DEF IInv

LEMMA StopStep == ASSUME IInv, SwStop PROVE IInv'
<1> USE DEF SwStop, mwVars, ctVars, regVars, fifoVars, axiVars, swVars
<1>1. PortInv'
  BY DEF IInv, TypeOK, PortInv, Bursting
<1>2. TypeOK'
  <2>1. ctrl_active' \in BOOLEAN
    BY Zenon
  <2> QED
    BY <2>1 DEF IInv, TypeOK
<1>3. CtrlInv'
  BY DEF IInv, TypeOK, CtrlInv, StartInv, ShutdownInv, Reading, Flushed, Loop
<1>4. FifoInv' /\ BackedInv' /\ FifoOrder'
  BY DEF IInv, FifoInv, Reading, Transferred, Bursting, BackedInv, FifoOrder
<1>5. DrainInv' /\ PointerInv' /\ AlignInv'
  BY DEF IInv, DrainInv, Reading, Flushed, Draining, PointerInv, Loop, Given,
     Fill, Advance, AlignInv
<1>6. SlotInv' /\ BurstInv' /\ BurstOrder' /\ TakenInOrder'
  BY DEF IInv, SlotInv, Reading, Given, Offset, Fill, Landed, Transferred,
     Bursting, BurstInv, BurstOrder, TakenInOrder
<1> QED
  BY <1>1, <1>2, <1>3, <1>4, <1>5, <1>6 DEF IInv

(* A transfer stays before the end of the ring and takes published beats.  *)
LEMMA TransferFits ==
  ASSUME IInv, Reading, Given = Len(got), Outstanding > 0, DoTransfer
  PROVE  /\ TransferSize \in 1 .. TransferMax
         /\ addr_rd + TransferSize <= RingSize
         /\ Len(got) + TransferSize <= published
<1>1. TransferMax \in Nat /\ TransferMax > 0
  BY CaptureAssumption
<1>2. Outstanding \in Nat
  BY Counts, Lengths DEF Outstanding
<1>3. /\ TransferSize \in 1 .. TransferMax
      /\ addr_rd + TransferSize <= RingSize
  BY <1>1, <1>2, Sizes, Pointers DEF TransferSize, Least
<1>4. TransferSize <= Fill
  BY <1>3, Sizes, Pointers DEF DoTransfer, Fill
<1> QED
  BY <1>3, <1>4, FillNumbers, Lengths

LEMMA SampleStep == ASSUME IInv, SwSample PROVE IInv'
<1> USE DEF SwSample, mwVars, ctVars, regVars, fifoVars, axiVars, swVars
<1>0. /\ chunk' \in 1 .. TransferMax
      /\ addr_rd + chunk' <= RingSize
      /\ Len(got) + chunk' <= published
  BY TransferFits DEF Reading, Given
<1>1. PortInv'
  BY DEF IInv, TypeOK, PortInv, Bursting
<1>2. TypeOK'
  <2>1. chunk' \in 0 .. TransferMax
    BY <1>0, CaptureAssumption
  <2> QED
    BY <2>1 DEF IInv, TypeOK
<1>3. CtrlInv'
  BY DEF IInv, TypeOK, CtrlInv, StartInv, ShutdownInv, Reading, Flushed, Loop
<1>4. FifoInv' /\ BackedInv' /\ FifoOrder'
  BY DEF IInv, FifoInv, Reading, Transferred, Bursting, BackedInv, FifoOrder
<1>5. DrainInv' /\ AlignInv'
  BY DEF IInv, DrainInv, Reading, Flushed, Draining, AlignInv
<1>6. PointerInv'
  <2>1. Given' = Given
    BY DEF Given
  <2> QED
    BY <1>0, <2>1 DEF IInv, PointerInv, Reading, Loop, Fill, Advance
<1>7. SlotInv' /\ BurstInv' /\ BurstOrder' /\ TakenInOrder'
  BY DEF IInv, SlotInv, Reading, Given, Offset, Fill, Landed, Transferred,
     Bursting, BurstInv, BurstOrder, TakenInOrder
<1> QED
  BY <1>1, <1>2, <1>3, <1>4, <1>5, <1>6, <1>7 DEF IInv

(* What software reads in a transfer are the next beats of the capture.    *)
LEMMA SlotAhead ==
  ASSUME addr_rd \in Nat, RingSize \in Nat, NEW n \in Nat, addr_rd + n < RingSize
  PROVE  addr_rd + n \in Slots /\ Offset(addr_rd + n) = n
BY DEF Slots, Offset

LEMMA BeatsToRead ==
  ASSUME IInv, sw = "read", NEW i \in 1 .. chunk
  PROVE  mem[addr_rd + i - 1] = Len(got) + i - 1
<1> DEFINE n == i - 1
<1>0. Reading
  BY DEF Reading
<1>1. /\ addr_rd + chunk <= RingSize
      /\ Len(got) + chunk <= published
      /\ Given = Len(got)
  BY <1>0 DEF IInv, PointerInv, Given
<1>2. n \in Nat /\ n < chunk
  BY Counts
<1>3. addr_rd + i - 1 = addr_rd + n /\ Len(got) + i - 1 = Len(got) + n
  BY Pointers, Lengths, Counts
<1> HIDE DEF n
<1>4. addr_rd + n < RingSize
  BY <1>1, <1>2, Counts, Sizes, Pointers
<1>5. addr_rd + n \in Slots /\ Offset(addr_rd + n) = n
  BY <1>2, <1>4, Sizes, Pointers, SlotAhead
<1>6. n < Fill + Landed
  <2>1. Landed \in Nat
    BY <1>0, Flow
  <2>2. n < Fill
    BY <1>0, <1>1, <1>2, FillNumbers, Lengths, Counts
  <2> QED
    BY <1>0, <1>2, <2>1, <2>2, FillNumbers
<1>7. mem[addr_rd + n] = Given + Offset(addr_rd + n)
  BY <1>0, <1>5, <1>6 DEF IInv, SlotInv
<1> QED
  BY <1>1, <1>3, <1>5, <1>7

LEMMA ReadStep == ASSUME IInv, SwRead PROVE IInv'
<1> USE DEF SwRead, mwVars, ctVars, regVars, fifoVars, axiVars, swVars
<1>a. /\ sw = "read" /\ sw' = "release"
      /\ UNCHANGED <<mwVars, ctVars, regVars, fifoVars, mem, axiVars, chunk, published>>
  OBVIOUS
<1>0. /\ got' \in Seq(Int)
      /\ Len(got') = Len(got) + chunk
      /\ \A i \in 1 .. Len(got) : got'[i] = got[i]
      /\ \A i \in 1 .. chunk : got'[Len(got) + i] = mem[addr_rd + i - 1]
  <2> DEFINE new == [i \in 1 .. chunk |-> mem[addr_rd + i - 1]]
  <2>1. got' = got \o new /\ Reading
    BY DEF Reading
  <2> HIDE DEF SwRead
  <2>2. addr_rd + chunk <= RingSize
    BY <1>a, <2>1 DEF IInv, PointerInv
  <2>3. mem \in [0 .. RingSize - 1 -> Int] /\ got \in Seq(Int)
    BY DEF IInv, TypeOK, Slots
  <2>4. \A i \in 1 .. chunk : mem[addr_rd + i - 1] \in Int
    <3> SUFFICES ASSUME NEW i \in 1 .. chunk PROVE mem[addr_rd + i - 1] \in Int
      OBVIOUS
    <3>1. addr_rd + i - 1 \in 0 .. RingSize - 1
      BY <2>2, Counts, Sizes, Pointers
    <3> QED
      BY <2>3, <3>1
  <2>5. new \in Seq(Int) /\ Len(new) = chunk
    BY <2>4, Counts
  <2>6. \A i \in 1 .. chunk : new[i] = mem[addr_rd + i - 1]
    OBVIOUS
  <2> HIDE DEF new
  <2> QED
    BY <2>1, <2>3, <2>5, <2>6
<1>b. Given' = Given
  <2> HIDE DEF SwRead
  <2>1. Given = Len(got) /\ Given' = Len(got') - chunk
    BY <1>a DEF Given
  <2>2. Len(got') = Len(got) + chunk
    BY <1>0
  <2> QED
    BY <2>1, <2>2, Counts, Lengths
<1>1. PortInv'
  BY DEF IInv, TypeOK, PortInv, Bursting
<1>2. TypeOK'
  <2> HIDE DEF SwRead
  <2> QED
    BY <1>0, <1>a DEF IInv, TypeOK
<1>3. CtrlInv'
  BY DEF IInv, TypeOK, CtrlInv, StartInv, ShutdownInv, Reading, Flushed, Loop
<1>4. BackedInv' /\ FifoOrder'
  BY DEF IInv, BackedInv, FifoOrder, Reading, Transferred, Bursting
<1>5. FifoInv'
  <2>1. ~rst
    BY DEF IInv, CtrlInv
  <2> HIDE DEF SwRead
  <2> QED
    BY <1>a, <2>1 DEF IInv, FifoInv, Reading, Transferred, Bursting
<1>6. DrainInv' /\ AlignInv'
  BY DEF IInv, DrainInv, Reading, Flushed, Draining, AlignInv
<1>7. PointerInv'
  <2> HIDE DEF SwRead
  <2>1. Given' = Given
    BY <1>b
  <2> QED
    BY <1>0, <1>a, <2>1, Counts, Lengths DEF IInv, PointerInv, Reading, Loop, Fill, Advance
<1>8. BurstInv' /\ BurstOrder'
  BY DEF IInv, BurstInv, Reading, Transferred, Bursting, BurstOrder, Landed
<1>9. SlotInv'
  <2> HIDE DEF SwRead
  <2>1. Given' = Given
    BY <1>b
  <2>2. UNCHANGED <<Fill, Landed>> /\ \A i \in Slots : Offset(i)' = Offset(i)
    BY <1>a DEF Fill, Landed, Transferred, Bursting, Offset
  <2> QED
    BY <1>a, <2>1, <2>2 DEF IInv, SlotInv, Reading
<1>10. TakenInOrder'
  <2> HIDE DEF SwRead
  <2>1. ASSUME NEW i \in 1 .. chunk
        PROVE  mem[addr_rd + i - 1] = Len(got) + i - 1
    BY <1>a, BeatsToRead
  <2>2. ASSUME NEW j \in 1 .. Len(got')
        PROVE  got'[j] = j - 1
    <3>1. CASE j <= Len(got)
      <4>1. j \in 1 .. Len(got)
        BY <1>0, <3>1, Lengths
      <4> QED
        BY <1>0, <4>1 DEF IInv, TakenInOrder
    <3>2. CASE j > Len(got)
      <4> DEFINE i == j - Len(got)
      <4>1. i \in 1 .. chunk /\ j = Len(got) + i
        <5>1. j \in 1 .. Len(got) + chunk
          BY <1>0
        <5> QED
          BY <3>2, <5>1, Counts, Lengths
      <4> HIDE DEF i
      <4>2. got'[Len(got) + i] = Len(got) + i - 1
        BY <1>0, <2>1, <4>1
      <4> QED
        BY <4>1, <4>2
    <3> QED
      BY <3>1, <3>2, <1>0, Counts, Lengths
  <2> QED
    BY <2>2 DEF TakenInOrder
<1> QED
  BY <1>1, <1>2, <1>3, <1>4, <1>5, <1>6, <1>7, <1>8, <1>9, <1>10 DEF IInv

LEMMA GiveBackStep == ASSUME IInv, SwGiveBack PROVE IInv'
<1> USE DEF SwGiveBack, mwVars, ctVars, regVars, fifoVars, axiVars, swVars
<1>0. /\ sw = "release" /\ sw' = "poll"
      /\ addr_rd' = Advance(addr_rd, chunk)
      /\ UNCHANGED <<mw_state, addr_wr, awaddr, awlen, beats_cntr, w_left, w_data,
                     mem, chunk, got, published>>
  OBVIOUS
<1>a. /\ Reading
      /\ chunk > 0 /\ addr_rd + chunk <= RingSize
      /\ Len(got) <= published
      /\ Given = Len(got) - chunk
  <2>1. Reading
    BY <1>0 DEF Reading
  <2> QED
    BY <1>0, <2>1 DEF IInv, PointerInv, Given
<1>b. Given' = Given + chunk /\ Given' = Len(got) /\ Fill' = Fill - chunk
  <2> HIDE DEF SwGiveBack
  <2>1. Given' = Given + chunk /\ Given' = Len(got)
    <3>1. Given' = Len(got)
      BY <1>0 DEF Given
    <3> QED
      BY <1>a, <3>1, Counts, Lengths
  <2>2. chunk <= Fill
    BY <1>a, FillNumbers, Counts, Lengths
  <2>3. /\ addr_rd' = IF addr_rd + chunk = RingSize THEN 0 ELSE addr_rd + chunk
        /\ addr_wr' = addr_wr /\ chunk \in Nat
    BY <1>0, Counts DEF Advance
  <2>4. Fill' = Fill - chunk
    BY <1>a, <2>2, <2>3, Sizes, Pointers DEF Fill
  <2> QED
    BY <2>1, <2>4
<1>1. PortInv'
  BY DEF IInv, TypeOK, PortInv, Bursting
<1>2. TypeOK'
  <2>1. addr_rd' \in Slots
    BY <1>0, <1>a, Counts, Sizes, Pointers DEF Advance, Slots
  <2> QED
    BY <2>1 DEF IInv, TypeOK
<1>3. CtrlInv'
  BY DEF IInv, TypeOK, CtrlInv, StartInv, ShutdownInv, Reading, Flushed, Loop
<1>4. FifoInv' /\ BackedInv' /\ FifoOrder'
  BY DEF IInv, FifoInv, Reading, Transferred, Bursting, BackedInv, FifoOrder
<1>5. DrainInv' /\ AlignInv'
  BY DEF IInv, DrainInv, Reading, Flushed, Draining, AlignInv
<1>6. PointerInv'
  <2> HIDE DEF SwGiveBack
  <2>1. published' - Given' = Fill' /\ Len(got') <= published'
    <3>1. published' - Given' = published - (Given + chunk) /\ Fill' = Fill - chunk
      BY <1>0, <1>b
    <3>2. published - (Given + chunk) = Fill - chunk
      BY <1>a, FillNumbers, Counts
    <3> QED
      BY <1>0, <1>a, <3>1, <3>2
  <2>2. Fill' <= Fill /\ Fill \in Nat /\ Fill' \in Int
    BY <1>0, <1>a, <1>b, FillNumbers, Counts
  <2>3. mw_state' \in Loop \ {"WAIT_RING_BUFF"} => Fill' + BurstLen < RingSize
    <3>1. Fill + BurstLen < RingSize => Fill' + BurstLen < RingSize
      <4>1. Fill' + BurstLen = Fill - chunk + BurstLen
        BY <1>b
      <4>2. Fill + BurstLen < RingSize => Fill - chunk + BurstLen < RingSize
        <5>1. Fill \in Nat /\ chunk \in Nat /\ BurstLen \in Nat /\ RingSize \in Nat
          BY <1>a, FillNumbers, Counts, Sizes
        <5> QED
          BY <5>1
      <4> QED
        BY <4>1, <4>2
    <3>2. mw_state \in Loop \ {"WAIT_RING_BUFF"} => Fill + BurstLen < RingSize
      BY <1>a DEF IInv, PointerInv
    <3> QED
      BY <1>0, <3>1, <3>2
  <2>4. sw' = "poll"
    BY <1>0
  <2> QED
    BY <1>0, <1>a, <2>1, <2>3, <2>4 DEF IInv, PointerInv, Advance
<1>7. BurstInv' /\ BurstOrder' /\ TakenInOrder'
  BY DEF IInv, BurstInv, Reading, Transferred, Bursting, BurstOrder, Landed,
     TakenInOrder
<1>8. SlotInv'
  <2> HIDE DEF SwGiveBack
  <2>1. Landed' = Landed /\ Landed \in Nat
    <3>1. Landed' = Landed
      BY <1>0 DEF Landed, Transferred, Bursting
    <3> QED
      BY <1>a, <3>1, Flow
  <2>2. ASSUME NEW i \in Slots, Offset(i)' < Fill' + Landed'
        PROVE  mem'[i] = Given' + Offset(i)'
    <3> DEFINE j == Offset(i)  k == Offset(i)'
    <3>1. /\ j = IF i >= addr_rd THEN i - addr_rd ELSE i - addr_rd + RingSize
          /\ k = IF i >= addr_rd' THEN i - addr_rd' ELSE i - addr_rd' + RingSize
          /\ addr_rd' = IF addr_rd + chunk = RingSize THEN 0 ELSE addr_rd + chunk
          /\ i \in Nat /\ i < RingSize
      BY <1>0, Sizes DEF Offset, Advance, Slots
    <3>2. k < Fill - chunk + Landed
      BY <1>b, <2>1, <2>2
    <3> HIDE DEF j, k
    <3>3. /\ chunk \in Nat /\ addr_rd \in Nat /\ addr_rd < RingSize
          /\ addr_rd + chunk <= RingSize
      BY <1>a, Counts, Pointers
    <3>4. k \in Nat
      BY <3>1, <3>3, Sizes
    <3>10. k + chunk < RingSize
      <4>1. Fill + Landed < RingSize /\ Fill \in Nat
        BY <1>a, Room, FillNumbers
      <4> QED
        BY <2>1, <3>2, <3>3, <3>4, <4>1, Sizes
    <3>5. j = k + chunk
      <4>1. CASE addr_rd + chunk = RingSize
        BY <3>1, <3>3, <3>10, <4>1, Sizes
      <4>2. CASE addr_rd + chunk < RingSize
        BY <3>1, <3>3, <3>10, <4>2, Sizes
      <4> QED
        BY <3>3, <4>1, <4>2, Sizes
    <3>6. j < Fill + Landed
      <4>1. Fill \in Nat
        BY <1>a, FillNumbers
      <4> QED
        BY <2>1, <3>2, <3>3, <3>4, <3>5, <4>1
    <3>7. mem[i] = Given + j
      BY <1>a, <3>6 DEF j, IInv, SlotInv
    <3>8. Given \in Nat
      BY <1>a, FillNumbers
    <3>9. mem'[i] = Given' + k
      BY <1>0, <1>b, <3>3, <3>4, <3>5, <3>7, <3>8
    <3> QED
      BY <3>9 DEF k
  <2> QED
    BY <2>2 DEF SlotInv
<1> QED
  BY <1>1, <1>2, <1>3, <1>4, <1>5, <1>6, <1>7, <1>8 DEF IInv

LEMMA FinishStep == ASSUME IInv, SwFinish PROVE IInv'
<1> USE DEF SwFinish, mwVars, ctVars, regVars, fifoVars, axiVars, swVars
<1>1. PortInv'
  BY DEF IInv, TypeOK, PortInv, Bursting
<1>2. TypeOK'
  <2>1. mem' \in [Slots -> Int]
    BY DEF NoData
  <2> QED
    BY <2>1 DEF IInv, TypeOK
<1>3. CtrlInv'
  BY DEF IInv, TypeOK, CtrlInv, StartInv, ShutdownInv, Reading, Flushed, Loop
<1>4. BackedInv' /\ FifoOrder'
  BY DEF IInv, BackedInv, FifoOrder, Reading, Transferred, Bursting
<1>5. FifoInv'
  <2>1. fifo \in Seq(Int) /\ Reading /\ ~Bursting /\ total = Len(got)
    BY Counts, Lengths DEF IInv, TypeOK, Reading, Bursting, Outstanding
  <2>2. fed = published + Len(fifo) /\ fed <= total /\ Len(got) <= published
    <3>1. Transferred = 0
      BY <2>1, Flow
    <3>2. fed = published + Transferred + Len(fifo) /\ fed <= total
      BY <2>1 DEF IInv, FifoInv
    <3>3. Len(got) <= published
      BY <2>1 DEF IInv, PointerInv
    <3> QED
      BY <3>1, <3>2, <3>3, Counts, Lengths
  <2>3. Len(fifo) = 0
    BY <2>1, <2>2, Counts, Lengths
  <2>4. fifo = <<>>
    BY <2>1, <2>3
  <2> QED
    BY <2>4 DEF IInv, FifoInv, Reading, Transferred, Bursting
<1>6. DrainInv' /\ PointerInv' /\ AlignInv'
  BY DEF IInv, DrainInv, Reading, Flushed, Draining, PointerInv, Loop, Given,
     Fill, Advance, AlignInv
<1>7. SlotInv' /\ BurstInv' /\ BurstOrder' /\ TakenInOrder'
  BY DEF IInv, SlotInv, Reading, Given, Offset, Fill, Landed, Transferred,
     Bursting, BurstInv, BurstOrder, TakenInOrder
<1> QED
  BY <1>1, <1>2, <1>3, <1>4, <1>5, <1>6, <1>7 DEF IInv

LEMMA ResetStep == ASSUME IInv, SwReset PROVE IInv'
<1> USE DEF SwReset, mwVars, ctVars, regVars, fifoVars, axiVars, swVars
<1>1. TypeOK' /\ PortInv'
  BY DEF IInv, TypeOK, PortInv, Bursting
<1>2. CtrlInv'
  BY DEF IInv, TypeOK, CtrlInv, StartInv, ShutdownInv, Reading, Flushed, Loop, InBurst
<1>3. FifoInv' /\ BackedInv' /\ FifoOrder'
  BY DEF IInv, FifoInv, Reading, Transferred, Bursting, BackedInv, FifoOrder
<1>4. DrainInv' /\ PointerInv' /\ AlignInv'
  BY DEF IInv, DrainInv, Reading, Flushed, Draining, PointerInv, Loop, Given,
     Fill, Advance, AlignInv
<1>5. SlotInv' /\ BurstInv' /\ BurstOrder' /\ TakenInOrder'
  BY DEF IInv, SlotInv, Reading, Given, Offset, Fill, Landed, Transferred,
     Bursting, BurstInv, BurstOrder, TakenInOrder
<1> QED
  BY <1>1, <1>2, <1>3, <1>4, <1>5 DEF IInv

LEMMA ReleaseStep == ASSUME IInv, SwRelease PROVE IInv'
<1> USE DEF SwRelease, mwVars, ctVars, regVars, fifoVars, axiVars, swVars
<1>1. PortInv'
  BY DEF IInv, TypeOK, PortInv, Bursting
<1>2. TypeOK'
  <2>1. mem' \in [Slots -> Int]
    BY DEF NoData
  <2>2. rst' \in BOOLEAN
    BY Zenon
  <2> QED
    BY <2>1, <2>2 DEF IInv, TypeOK
<1>3. CtrlInv'
  BY DEF IInv, TypeOK, CtrlInv, StartInv, ShutdownInv, Reading, Flushed, Loop, Outputs
<1>4. FifoInv' /\ BackedInv' /\ FifoOrder'
  BY DEF IInv, FifoInv, Reading, Transferred, Bursting, BackedInv, FifoOrder
<1>5. DrainInv' /\ PointerInv' /\ AlignInv'
  BY DEF IInv, DrainInv, Reading, Flushed, Draining, PointerInv, Loop, Given,
     Fill, Advance, AlignInv
<1>6. SlotInv' /\ BurstInv' /\ BurstOrder' /\ TakenInOrder'
  BY DEF IInv, SlotInv, Reading, Given, Offset, Fill, Landed, Transferred,
     Bursting, BurstInv, BurstOrder, TakenInOrder
<1> QED
  BY <1>1, <1>2, <1>3, <1>4, <1>5, <1>6 DEF IInv

-----------------------------------------------------------------------------
(* A clock edge.  What it leaves alone ...                                 *)
LEMMA EdgeKeeps ==
  ASSUME NEW push \in BOOLEAN, NEW rx_quiet \in BOOLEAN,
         NEW align_done \in BOOLEAN, ClockEdge(push, rx_quiet, align_done)
  PROVE  /\ UNCHANGED <<ctrl_active, addr_rd, rst, total, mem, chunk, got>>
         /\ sw' = IF sw = "started" /\ mw_state = "START" THEN "poll" ELSE sw
         /\ ct' = Outputs(ct_state)
BY DEF ClockEdge, regVars, CtrlClock

(* ... how the state machine of the writer moves ...                       *)
LEMMA WriterGoes ==
  ASSUME IInv, ~rst, NEW push \in BOOLEAN, NEW rx_quiet \in BOOLEAN,
         NEW align_done \in BOOLEAN, ClockEdge(push, rx_quiet, align_done)
  PROVE  /\ mw_active' = (mw_state \notin {"RST", "INACTIVE"})
         /\ mw_state = "RST" => mw_state' = "INACTIVE"
         /\ mw_state = "INACTIVE" =>
              mw_state' = IF ct.flush THEN "WAIT_RING_BUFF"
                          ELSE IF ct.mem THEN "START" ELSE "INACTIVE"
         /\ mw_state = "START" => mw_state' = "WAIT_RING_BUFF"
         /\ mw_state = "WAIT_RING_BUFF" =>
              mw_state' = IF ~ct.mem /\ ~flush THEN "INACTIVE"
                          ELSE IF HasSpace(addr_rd) THEN "WAIT_FIFO" ELSE "WAIT_RING_BUFF"
         /\ mw_state = "WAIT_FIFO" =>
              mw_state' = IF BurstReady(ct.mem, prog_empty, Len(fifo)) THEN "WRITE_REQ"
                          ELSE IF ct.mem THEN "WAIT_FIFO" ELSE "INACTIVE"
         /\ mw_state = "WRITE_REQ" =>
              mw_state' = IF awvalid /\ aw_ready THEN "WRITE" ELSE "WRITE_REQ"
         /\ mw_state = "WRITE" =>
              mw_state' = IF wvalid /\ w_ready /\ LastBeat THEN "WAIT_WRITE_RESP" ELSE "WRITE"
         /\ mw_state = "WAIT_WRITE_RESP" =>
              mw_state' = IF b_valid THEN "WAIT_RING_BUFF" ELSE "WAIT_WRITE_RESP"
         /\ flush' = IF mw_state = "INACTIVE" THEN ct.flush
                     ELSE mw_state = "WAIT_RING_BUFF" /\ flush
<1>1. MemWriteClock(rst, ct.mem, ct.flush, addr_rd, prog_empty, Len(fifo),
                    aw_ready, w_ready, b_valid)
  BY DEF ClockEdge
<1>2. flush \in BOOLEAN
  BY DEF IInv, TypeOK
<1> QED
  BY <1>1, <1>2, Zenon DEF MemWriteClock, MwRst, MwInactive, MwStart, MwWaitRing, MwWaitFifo,
     MwWriteReq, MwWrite, MwResponse, MwGoto

(* ... and what it does to the pointers and the port.                      *)
LEMMA WriterWrites ==
  ASSUME IInv, NEW push \in BOOLEAN, NEW rx_quiet \in BOOLEAN,
         NEW align_done \in BOOLEAN, ClockEdge(push, rx_quiet, align_done)
  PROVE  /\ awvalid' = (mw_state = "WRITE_REQ" /\ ~(awvalid /\ aw_ready))
         /\ wvalid' = (mw_state = "WRITE" /\ ~(wvalid /\ w_ready /\ LastBeat))
         /\ addr_wr' = IF mw_state \in {"RST", "START"} THEN 0
                       ELSE IF mw_state = "WAIT_WRITE_RESP" /\ b_valid
                       THEN Advance(addr_wr, awlen + 1) ELSE addr_wr
         /\ awaddr' = IF mw_state = "START" THEN 0
                      ELSE IF mw_state = "WRITE" /\ wvalid /\ w_ready
                      THEN Advance(awaddr, 1) ELSE awaddr
         /\ awlen' = IF mw_state = "WAIT_FIFO"
                     THEN IF ~prog_empty THEN BurstLen - 1 ELSE FinalLen(Len(fifo))
                     ELSE awlen
         /\ beats_cntr' = IF mw_state = "WRITE_REQ" /\ awvalid /\ aw_ready THEN 0
                          ELSE IF mw_state = "WRITE" /\ wvalid /\ w_ready
                          THEN (beats_cntr + 1) % BurstLen ELSE beats_cntr
<1>1. MemWriteClock(rst, ct.mem, ct.flush, addr_rd, prog_empty, Len(fifo),
                    aw_ready, w_ready, b_valid)
  BY DEF ClockEdge
<1> QED
  BY <1>1 DEF MemWriteClock, MwRst, MwInactive, MwStart, MwWaitRing, MwWaitFifo,
     MwWriteReq, MwWrite, MwResponse

LEMMA ControlGoes ==
  ASSUME ~rst, NEW push \in BOOLEAN, NEW rx_quiet \in BOOLEAN,
         NEW align_done \in BOOLEAN, ClockEdge(push, rx_quiet, align_done)
  PROVE  /\ ct_state = "IDLE" => ct_state' = IF ctrl_active THEN "ACTIVE" ELSE "IDLE"
         /\ ct_state = "ACTIVE" =>
              ct_state' = IF ~ctrl_active THEN "RX_DISABLE" ELSE "ACTIVE"
         /\ ct_state = "RX_DISABLE" =>
              ct_state' = IF rx_quiet THEN "ALIGN" ELSE "RX_DISABLE"
         /\ ct_state = "ALIGN" => ct_state' = "WAIT_ALIGN"
         /\ ct_state = "WAIT_ALIGN" =>
              ct_state' = IF align_done THEN "WAIT_EMPTY" ELSE "WAIT_ALIGN"
         /\ ct_state = "WAIT_EMPTY" =>
              ct_state' = IF prog_empty THEN "MEM_DISABLE" ELSE "WAIT_EMPTY"
         /\ ct_state = "MEM_DISABLE" =>
              ct_state' = IF ~mw_active THEN "FLUSH" ELSE "MEM_DISABLE"
         /\ ct_state = "FLUSH" => ct_state' = "WAIT_FLUSH1"
         /\ ct_state = "WAIT_FLUSH1" => ct_state' = "WAIT_FLUSH2"
         /\ ct_state = "WAIT_FLUSH2" =>
              ct_state' = IF ~mw_active THEN "IDLE" ELSE "WAIT_FLUSH2"
BY DEF ClockEdge, CtrlClock, CtStep, Drained

(* The beat that is transferred, and the one that is pushed.               *)
Sent         == IF Transfer THEN 1 ELSE 0
Pushed(push) == IF push THEN 1 ELSE 0

LEMMA EdgePort ==
  ASSUME IInv, NEW push \in BOOLEAN, NEW rx_quiet \in BOOLEAN,
         NEW align_done \in BOOLEAN, ClockEdge(push, rx_quiet, align_done)
  PROVE  /\ Transfer <=> wvalid /\ w_ready
         /\ Transfer => mw_state = "WRITE" /\ fifo # <<>>
         /\ w_ready' = (w_ready /\ ~wvalid)
         /\ ~b_valid'
         /\ w_open' = ((w_open \/ (awvalid /\ aw_ready)) /\ ~b_valid)
         /\ awvalid => mw_state = "WRITE_REQ"
         /\ awvalid /\ aw_ready => w_addr' = awaddr /\ w_left' = awlen + 1
         /\ ~(awvalid /\ aw_ready) => w_addr' = w_addr + Sent /\ w_left' = w_left - Sent
         /\ w_data' = IF Transfer THEN Append(w_data, Head(fifo)) ELSE w_data
<1>0. AxiClock
  BY DEF ClockEdge
<1>1. Transfer <=> wvalid /\ w_ready
  BY DEF IInv, PortInv, Transfer
<1>2. Transfer => mw_state = "WRITE"
  BY DEF IInv, PortInv, Transfer
<1>3. Transfer => fifo # <<>>
  <2> SUFFICES ASSUME Transfer PROVE fifo # <<>>
    OBVIOUS
  <2>1. w_left > 0 /\ Len(fifo) >= w_left
    BY <1>2 DEF IInv, BackedInv, Transfer
  <2>2. Len(fifo) > 0
    BY <2>1, BurstNumbers, Lengths
  <2> QED
    BY <2>2
<1>4. awvalid => mw_state = "WRITE_REQ"
  BY DEF IInv, PortInv
<1>5. ~(awvalid /\ aw_ready) => w_addr' = w_addr + Sent /\ w_left' = w_left - Sent
  <2>1. CASE Transfer
    BY <1>0, <2>1 DEF AxiClock, Sent
  <2>2. CASE ~Transfer
    <3>1. w_addr \in Nat /\ w_left \in Nat
      BY BurstNumbers DEF IInv, TypeOK
    <3> QED
      BY <1>0, <2>2, <3>1 DEF AxiClock, Sent
  <2> QED
    BY <2>1, <2>2
<1> QED
  BY <1>0, <1>1, <1>2, <1>3, <1>4, <1>5 DEF AxiClock, OutOfFifo

LEMMA EdgeFifo ==
  ASSUME IInv, ~rst, NEW push \in BOOLEAN, NEW rx_quiet \in BOOLEAN,
         NEW align_done \in BOOLEAN, ClockEdge(push, rx_quiet, align_done)
  PROVE  /\ fifo' \in Seq(Int)
         /\ Len(fifo') = Len(fifo) - Sent + Pushed(push)
         /\ fed' = fed + Pushed(push)
         /\ prog_empty' = (Len(fifo) < BurstLen)
         /\ \A i \in 1 .. Len(fifo') :
              fifo'[i] = IF i + Sent <= Len(fifo) THEN fifo[i + Sent] ELSE fed
<1> DEFINE rest == IF Transfer THEN Tail(fifo) ELSE fifo
<1>0. Transfer <=> wvalid /\ w_ready /\ fifo # <<>>
  BY EdgePort
<1>1. /\ fifo' = IF push THEN Append(rest, fed) ELSE rest
      /\ fed' = IF push THEN fed + 1 ELSE fed
      /\ prog_empty' = (Len(fifo) < BurstLen)
  BY <1>0 DEF ClockEdge, FifoClock
<1>2. fifo \in Seq(Int) /\ fed \in Nat /\ Len(fifo) \in Nat
  BY DEF IInv, TypeOK
<1>3. /\ rest \in Seq(Int) /\ Len(rest) = Len(fifo) - Sent /\ Len(rest) \in Nat
      /\ \A i \in 1 .. Len(rest) : rest[i] = fifo[i + Sent]
  <2>1. CASE Transfer
    <3>1. rest = Tail(fifo) /\ Sent = 1 /\ fifo # <<>>
      BY <1>0, <2>1 DEF Sent
    <3> HIDE DEF rest
    <3> QED
      BY <1>2, <3>1
  <2>2. CASE ~Transfer
    BY <1>2, <2>2 DEF Sent
  <2> QED
    BY <2>1, <2>2
<1> HIDE DEF rest
<1>4. Sent \in 0 .. 1
  BY DEF Sent
<1>5. fed' = fed + Pushed(push)
  BY <1>1, <1>2 DEF Pushed
<1>6. CASE push
  <2>1. /\ fifo' \in Seq(Int) /\ Len(fifo') = Len(rest) + 1
        /\ fifo'[Len(rest) + 1] = fed
        /\ \A i \in 1 .. Len(rest) : fifo'[i] = rest[i]
    BY <1>1, <1>2, <1>3, <1>6
  <2>2. ASSUME NEW i \in 1 .. Len(fifo')
        PROVE  fifo'[i] = IF i + Sent <= Len(fifo) THEN fifo[i + Sent] ELSE fed
    <3>1. CASE i <= Len(rest)
      BY <1>2, <1>3, <1>4, <2>1, <3>1
    <3>2. CASE i = Len(rest) + 1
      <4>1. ~(i + Sent <= Len(fifo))
        BY <1>2, <1>3, <1>4, <3>2
      <4> QED
        BY <2>1, <3>2, <4>1
    <3> QED
      BY <1>3, <2>1, <3>1, <3>2
  <2>3. Len(fifo') = Len(fifo) - Sent + Pushed(push)
    BY <1>2, <1>3, <1>4, <1>6, <2>1 DEF Pushed
  <2> QED
    BY <1>1, <1>5, <2>1, <2>2, <2>3
<1>7. CASE ~push
  <2>1. fifo' = rest
    BY <1>1, <1>7
  <2>2. Len(fifo') = Len(fifo) - Sent + Pushed(push)
    BY <1>2, <1>3, <1>4, <1>7, <2>1 DEF Pushed
  <2>3. \A i \in 1 .. Len(fifo') : i + Sent <= Len(fifo)
    BY <1>2, <1>3, <1>4, <2>1
  <2> QED
    BY <1>1, <1>3, <1>5, <2>1, <2>2, <2>3
<1> QED
  BY <1>6, <1>7

LEMMA Remainder ==
  ASSUME NEW b \in Nat \ {0}, NEW n \in Nat
  PROVE  n % b \in 0 .. b - 1
OBVIOUS

LEMMA EdgeTypes ==
  ASSUME IInv, NEW push \in BOOLEAN, NEW rx_quiet \in BOOLEAN,
         NEW align_done \in BOOLEAN, ClockEdge(push, rx_quiet, align_done)
  PROVE  TypeOK'
<1>0. TypeOK
  BY DEF IInv
<1>1. /\ mw_state' \in MwStates /\ ct_state' \in CtStates
      /\ mw_active' \in BOOLEAN /\ flush' \in BOOLEAN
  <2>1. CASE ~rst
    <3>1. mw_state' \in MwStates
      BY <1>0, <2>1, WriterGoes, Zenon DEF TypeOK, MwStates
    <3>2. ct_state' \in CtStates
      BY <1>0, <2>1, ControlGoes, Zenon DEF TypeOK, CtStates
    <3>3. mw_active' \in BOOLEAN /\ flush' \in BOOLEAN
      BY <1>0, <2>1, WriterGoes, Zenon DEF TypeOK
    <3> QED
      BY <3>1, <3>2, <3>3
  <2>2. CASE rst
    <3>1. MemWriteClock(rst, ct.mem, ct.flush, addr_rd, prog_empty, Len(fifo),
                        aw_ready, w_ready, b_valid)
      BY DEF ClockEdge
    <3>2. mw_state' = "RST"
      BY <2>2, <3>1, Zenon DEF MemWriteClock, MwRst, MwInactive, MwStart, MwWaitRing,
         MwWaitFifo, MwWriteReq, MwWrite, MwResponse, MwGoto
    <3>3. flush' \in {TRUE, FALSE, flush, ct.flush}
      BY <3>1, Zenon DEF MemWriteClock, MwRst, MwInactive, MwStart, MwWaitRing,
         MwWaitFifo, MwWriteReq, MwWrite, MwResponse
    <3>4. mw_active' = FALSE
      BY <2>2, <3>1, Zenon DEF MemWriteClock
    <3>5. ct_state' = "IDLE"
      BY <2>2 DEF ClockEdge, CtrlClock, CtStep
    <3>6. flush \in BOOLEAN /\ ct.flush \in BOOLEAN
      BY <1>0 DEF TypeOK
    <3> QED
      BY <3>2, <3>3, <3>4, <3>5, <3>6, Zenon DEF MwStates, CtStates
  <2> QED
    BY <2>1, <2>2
<1>2. ct' \in [status : BOOLEAN, rx : BOOLEAN, mem : BOOLEAN, flush : BOOLEAN,
               align : BOOLEAN]
  <2>1. ct' = Outputs(ct_state)
    BY EdgeKeeps
  <2> QED
    BY <2>1 DEF Outputs
<1>3. /\ addr_wr' \in Slots /\ awaddr' \in Slots
      /\ awlen' \in 0 .. BurstLen - 1 /\ beats_cntr' \in 0 .. BurstLen - 1
  <2>1. addr_wr' \in Slots
    <3>1. CASE mw_state = "WAIT_WRITE_RESP" /\ b_valid
      <4>1. addr_wr' = Advance(addr_wr, awlen + 1)
        BY <3>1, WriterWrites
      <4>2. addr_wr + awlen < RingSize
        BY <3>1, BurstBeforeEnd
      <4> QED
        BY <4>1, <4>2, Sizes, Pointers, BurstNumbers DEF Advance, Slots
    <3>2. CASE ~(mw_state = "WAIT_WRITE_RESP" /\ b_valid)
      <4>1. addr_wr' \in {0, addr_wr}
        BY <3>2, WriterWrites
      <4> QED
        BY <4>1, <1>0, Sizes DEF TypeOK, Slots
    <3> QED
      BY <3>1, <3>2
  <2>2. awaddr' \in Slots
    <3>1. awaddr' \in {0, awaddr, Advance(awaddr, 1)}
      BY WriterWrites
    <3> QED
      BY <3>1, <1>0, Sizes DEF TypeOK, Slots, Advance
  <2>3. awlen' \in 0 .. BurstLen - 1
    <3>1. awlen' \in {awlen, BurstLen - 1, FinalLen(Len(fifo))}
      BY WriterWrites
    <3>2. FinalLen(Len(fifo)) \in 0 .. BurstLen - 1
      <4>1. Len(fifo) + BurstLen - 1 \in Nat /\ BurstLen \in Nat \ {0}
        BY Lengths, Sizes
      <4> HIDE DEF FinalLen
      <4> QED
        BY <4>1, Remainder DEF FinalLen
    <3>3. BurstLen - 1 \in 0 .. BurstLen - 1
      BY Sizes
    <3> QED
      BY <3>1, <3>2, <3>3, <1>0 DEF TypeOK
  <2>4. beats_cntr' \in 0 .. BurstLen - 1
    <3>1. beats_cntr' \in {0, (beats_cntr + 1) % BurstLen, beats_cntr}
      BY WriterWrites
    <3>2. (beats_cntr + 1) % BurstLen \in 0 .. BurstLen - 1
      <4>1. beats_cntr + 1 \in Nat /\ BurstLen \in Nat \ {0}
        BY BurstNumbers, Sizes
      <4> QED
        BY <4>1, Remainder
    <3>3. 0 \in 0 .. BurstLen - 1
      BY Sizes
    <3> QED
      BY <3>1, <3>2, <3>3, <1>0 DEF TypeOK
  <2> QED
    BY <2>1, <2>2, <2>3, <2>4
<1>4. awvalid' \in BOOLEAN /\ wvalid' \in BOOLEAN
  BY WriterWrites, Zenon
<1>5. aw_ready' \in BOOLEAN /\ w_ready' \in BOOLEAN /\ b_valid' \in BOOLEAN /\ w_open' \in BOOLEAN
  BY Zenon DEF ClockEdge, AxiClock
<1>6. w_addr' \in Nat /\ w_left' \in 0 .. BurstLen
  <2>1. w_addr \in Nat /\ awaddr \in Nat
    BY <1>0, Sizes DEF TypeOK, Slots
  <2>2. Sent \in 0 .. 1 /\ (Sent = 1 => w_left > 0)
    BY DEF Sent, Transfer
  <2>3. CASE awvalid /\ aw_ready
    BY <2>1, <2>3, EdgePort, BurstNumbers, Sizes
  <2>4. CASE ~(awvalid /\ aw_ready)
    <3>1. w_addr' = w_addr + Sent /\ w_left' = w_left - Sent
      BY <2>4, EdgePort
    <3> QED
      BY <3>1, <2>1, <2>2, BurstNumbers, Sizes
  <2> QED
    BY <2>3, <2>4
<1>7. w_data' \in Seq(Int)
  <2>1. w_data' = IF Transfer THEN Append(w_data, Head(fifo)) ELSE w_data
    BY EdgePort
  <2>2. Transfer => fifo # <<>>
    BY EdgePort
  <2>3. w_data \in Seq(Int) /\ fifo \in Seq(Int)
    BY <1>0 DEF TypeOK
  <2> QED
    BY <2>1, <2>2, <2>3
<1>8. fifo' \in Seq(Int) /\ fed' \in Nat /\ prog_empty' \in BOOLEAN
  <2>1. CASE ~rst
    <3>1. fed' = fed + Pushed(push) /\ fed \in Nat
      BY <2>1, EdgeFifo, Counts
    <3>2. prog_empty' \in BOOLEAN
      <4>1. prog_empty' = (Len(fifo) < BurstLen)
        BY <2>1, EdgeFifo
      <4> QED
        BY <4>1
    <3> QED
      BY <2>1, <3>1, <3>2, EdgeFifo DEF Pushed
  <2>2. CASE rst
    BY <2>2 DEF ClockEdge, FifoClock
  <2> QED
    BY <2>1, <2>2
<1>9. published' \in Nat
  BY Counts, BurstNumbers DEF ClockEdge
<1>10. sw' \in {"idle", "configured", "started", "poll", "read", "release", "reset"}
  BY <1>0, EdgeKeeps DEF TypeOK
<1>11. UNCHANGED <<ctrl_active, addr_rd, rst, total, mem, chunk, got>>
  BY EdgeKeeps
<1> QED
  BY <1>0, <1>1, <1>2, <1>3, <1>4, <1>5, <1>6, <1>7, <1>8, <1>9, <1>10, <1>11 DEF TypeOK

(* Under reset nothing is under way.                                       *)
LEMMA EdgeInReset ==
  ASSUME IInv, rst, NEW push \in BOOLEAN, NEW rx_quiet \in BOOLEAN,
         NEW align_done \in BOOLEAN, ClockEdge(push, rx_quiet, align_done)
  PROVE  IInv'
<1>0. sw = "reset" /\ ~Bursting /\ mw_state # "WRITE_REQ"
  BY DEF IInv, CtrlInv, Reading, Bursting
<1>1. mw_state' = "RST"
  BY Zenon DEF ClockEdge, MemWriteClock, MwRst, MwInactive, MwStart, MwWaitRing,
     MwWaitFifo, MwWriteReq, MwWrite, MwResponse, MwGoto
<1>2. fifo' = <<>> /\ fed' = 0
  BY DEF ClockEdge, FifoClock
<1>3. sw' = "reset" /\ rst' /\ got' = got
  BY <1>0, EdgeKeeps
<1>4. published' = published
  BY <1>0 DEF ClockEdge, Bursting
<1>5. ~awvalid' /\ ~wvalid'
  BY <1>0, WriterWrites DEF Bursting
<1>6. ~awvalid /\ ~Transfer /\ ~w_open /\ w_left = 0 /\ w_data = <<>> /\ ~w_ready
  BY <1>0 DEF IInv, TypeOK, PortInv, Bursting, Transfer
<1>7. ~w_open' /\ w_left' = 0 /\ w_data' = <<>> /\ ~b_valid' /\ ~w_ready'
  <2>1. Sent = 0 /\ ~(awvalid /\ aw_ready)
    BY <1>6 DEF Sent
  <2>2. w_left' = w_left - Sent
    BY <2>1, EdgePort
  <2>3. ~w_open' /\ w_data' = w_data /\ ~b_valid' /\ ~w_ready'
    BY <1>6, <2>1, EdgePort
  <2> QED
    BY <1>6, <2>1, <2>2, <2>3
<1>8. PortInv'
  BY <1>1, <1>5, <1>7 DEF PortInv, Bursting
<1>9. CtrlInv'
  BY <1>1, <1>3 DEF CtrlInv, StartInv, ShutdownInv, Reading
<1>10. FifoInv' /\ BackedInv' /\ FifoOrder'
  BY <1>0, <1>1, <1>2, <1>3, <1>4 DEF IInv, FifoInv, BackedInv, FifoOrder, Reading
<1>11. /\ DrainInv' /\ PointerInv' /\ AlignInv' /\ SlotInv' /\ BurstInv' /\ BurstOrder'
  BY <1>3 DEF Reading, DrainInv, PointerInv, AlignInv, SlotInv, BurstInv, BurstOrder
<1>12. TakenInOrder'
  BY <1>3 DEF IInv, TakenInOrder
<1> QED
  BY EdgeTypes, <1>8, <1>9, <1>10, <1>11, <1>12 DEF IInv

LEMMA SmallRemainder ==
  ASSUME NEW b \in Nat \ {0}, NEW n \in Nat, n < b
  PROVE  n % b = n
OBVIOUS

(* The writer counts the beats of a burst with the memory.                 *)
LEMMA EdgeBeats ==
  ASSUME IInv, ~rst, NEW push \in BOOLEAN, NEW rx_quiet \in BOOLEAN,
         NEW align_done \in BOOLEAN, ClockEdge(push, rx_quiet, align_done),
         mw_state = "WRITE", ~(Transfer /\ LastBeat)
  PROVE  /\ mw_state' = "WRITE"
         /\ beats_cntr' = beats_cntr + Sent
         /\ beats_cntr' <= awlen
<1>0. Transfer <=> wvalid /\ w_ready
  BY EdgePort
<1>1. mw_state' = "WRITE"
  BY <1>0, WriterGoes
<1>2. beats_cntr <= awlen
  BY DEF IInv, PortInv
<1>3. CASE Transfer
  <2>1. beats_cntr' = (beats_cntr + 1) % BurstLen /\ Sent = 1
    BY <1>0, <1>3, WriterWrites DEF Sent
  <2>2. beats_cntr < awlen
    BY <1>2, <1>3, BurstNumbers DEF LastBeat
  <2>3. beats_cntr + 1 \in Nat /\ beats_cntr + 1 < BurstLen /\ beats_cntr + 1 <= awlen
    BY <2>2, BurstNumbers, Sizes
  <2>4. (beats_cntr + 1) % BurstLen = beats_cntr + 1
    BY <2>3, Sizes, SmallRemainder
  <2> QED
    BY <1>1, <2>1, <2>3, <2>4
<1>4. CASE ~Transfer
  <2>1. beats_cntr' = beats_cntr /\ Sent = 0
    BY <1>0, <1>4, WriterWrites DEF Sent
  <2> QED
    BY <1>1, <1>2, <2>1, BurstNumbers
<1> QED
  BY <1>3, <1>4

(* The handshakes.                                                         *)
LEMMA EdgePortInv ==
  ASSUME IInv, ~rst, NEW push \in BOOLEAN, NEW rx_quiet \in BOOLEAN,
         NEW align_done \in BOOLEAN, ClockEdge(push, rx_quiet, align_done)
  PROVE  PortInv'
<1>0. PortInv
  BY DEF IInv
<1>1. awvalid' => mw_state' = "WRITE_REQ"
  BY WriterGoes, WriterWrites
<1>2. wvalid' => mw_state' = "WRITE"
  BY WriterGoes, WriterWrites
<1>3. w_ready' => w_left' > 0
  <2> SUFFICES ASSUME w_ready' PROVE w_left' > 0
    OBVIOUS
  <2>1. w_ready /\ ~wvalid /\ Sent = 0
    BY EdgePort DEF Sent
  <2>2. w_left > 0
    BY <1>0, <2>1 DEF PortInv
  <2>3. CASE awvalid /\ aw_ready
    <3>1. w_left' = awlen + 1
      BY <2>3, EdgePort
    <3> QED
      BY <3>1, BurstNumbers
  <2>4. CASE ~(awvalid /\ aw_ready)
    <3>1. w_left' = w_left - Sent
      BY <2>4, EdgePort
    <3> QED
      BY <2>1, <2>2, <3>1, BurstNumbers
  <2> QED
    BY <2>3, <2>4
<1>a. ~b_valid'
  BY EdgePort
<1>4. CASE ~Bursting /\ ~(mw_state = "WRITE_REQ" /\ awvalid /\ aw_ready)
  <2>1. ~Bursting'
    BY <1>4, WriterGoes DEF Bursting, IInv, TypeOK, MwStates
  <2>2. ~w_open /\ w_left = 0 /\ w_data = <<>>
    BY <1>0, <1>4 DEF PortInv
  <2>3. ~(awvalid /\ aw_ready) /\ ~Transfer /\ Sent = 0
    BY <1>4, EdgePort DEF Bursting, Sent
  <2>4. w_left' = w_left - Sent
    BY <2>3, EdgePort
  <2>5. ~w_open' /\ w_left' = 0 /\ w_data' = <<>>
    <3>1. ~w_open'
      BY <2>2, <2>3, EdgePort, Zenon
    <3>2. w_data' = w_data
      BY <2>3, EdgePort
    <3> QED
      BY <2>2, <2>3, <2>4, <3>1, <3>2
  <2> QED
    BY <1>1, <1>2, <1>3, <1>a, <2>1, <2>5 DEF PortInv, Bursting
<1>5. CASE mw_state = "WRITE_REQ" /\ awvalid /\ aw_ready
  <2>1. mw_state' = "WRITE" /\ beats_cntr' = 0 /\ awlen' = awlen
    BY <1>5, WriterGoes, WriterWrites
  <2>2. ~b_valid
    BY <1>0, <1>5 DEF PortInv, Bursting
  <2>3. w_open' /\ w_left' = awlen + 1
    BY <1>5, <2>2, EdgePort
  <2>4. beats_cntr' <= awlen' /\ w_left' = awlen' + 1 - beats_cntr'
    BY <2>1, <2>3, BurstNumbers
  <2> QED
    BY <1>1, <1>2, <1>3, <1>a, <2>1, <2>3, <2>4 DEF PortInv, Bursting
<1>6. CASE mw_state = "WRITE"
  <2>0. w_open /\ ~b_valid /\ w_left = awlen + 1 - beats_cntr
    BY <1>0, <1>6 DEF PortInv
  <2>1. ~(awvalid /\ aw_ready) /\ awlen' = awlen
    BY <1>6, EdgePort, WriterWrites
  <2>2. w_left' = w_left - Sent
    BY <2>1, EdgePort
  <2>3. w_open'
    BY <2>0, EdgePort
  <2>4. CASE Transfer /\ LastBeat
    <3>1. mw_state' = "WAIT_WRITE_RESP"
      BY <1>6, <2>4, EdgePort, WriterGoes
    <3>2. w_left' = 0
      BY <2>0, <2>2, <2>4, BurstNumbers DEF Sent, LastBeat
    <3> QED
      BY <1>1, <1>2, <1>3, <1>a, <2>3, <3>1, <3>2 DEF PortInv, Bursting
  <2>5. CASE ~(Transfer /\ LastBeat)
    <3>1. mw_state' = "WRITE" /\ beats_cntr' = beats_cntr + Sent /\ beats_cntr' <= awlen
      BY <1>6, <2>5, EdgeBeats
    <3>2. w_left' = awlen + 1 - beats_cntr'
      <4>1. Sent \in Nat
        BY DEF Sent
      <4> QED
        BY <2>0, <2>2, <3>1, <4>1, BurstNumbers
    <3> QED
      BY <1>1, <1>2, <1>3, <1>a, <2>1, <2>3, <3>1, <3>2 DEF PortInv, Bursting
  <2> QED
    BY <2>4, <2>5
<1>7. CASE mw_state = "WAIT_WRITE_RESP"
  <2>0. w_open /\ w_left = 0 /\ (b_valid => w_data = <<>>)
    BY <1>0, <1>7 DEF PortInv
  <2>1. ~(awvalid /\ aw_ready) /\ ~Transfer /\ Sent = 0
    BY <1>7, EdgePort DEF Sent
  <2>2. w_left' = w_left - Sent
    BY <2>1, EdgePort
  <2>3. w_left' = 0 /\ w_data' = w_data
    BY <2>0, <2>1, <2>2, EdgePort
  <2>4. mw_state' = IF b_valid THEN "WAIT_RING_BUFF" ELSE "WAIT_WRITE_RESP"
    BY <1>7, WriterGoes
  <2>5. w_open' = ~b_valid
    BY <2>0, <2>1, EdgePort, Zenon
  <2> QED
    BY <1>1, <1>2, <1>3, <1>a, <2>0, <2>3, <2>4, <2>5 DEF PortInv, Bursting
<1> QED
  BY <1>4, <1>5, <1>6, <1>7 DEF Bursting

(* Software, the control FSM and the writer.                               *)
LEMMA EdgeCtrlInv ==
  ASSUME IInv, ~rst, NEW push \in BOOLEAN, NEW rx_quiet \in BOOLEAN,
         NEW align_done \in BOOLEAN, ClockEdge(push, rx_quiet, align_done)
  PROVE  CtrlInv'
<1>0. /\ CtrlInv /\ mw_state \in MwStates /\ ct_state \in CtStates
      /\ sw \in {"idle", "configured", "started", "poll", "read", "release"}
  BY DEF IInv, TypeOK, CtrlInv
<1>1. /\ ~rst' /\ ctrl_active' = ctrl_active
      /\ sw' = IF sw = "started" /\ mw_state = "START" THEN "poll" ELSE sw
      /\ ct.mem' <=> ct_state \in {"ACTIVE", "RX_DISABLE", "ALIGN", "WAIT_ALIGN", "WAIT_EMPTY"}
      /\ ct.flush' <=> ct_state = "FLUSH"
      /\ ct.status' <=> ct_state # "IDLE"
  <2>1. ct' = Outputs(ct_state)
    BY EdgeKeeps
  <2>2. /\ ct.mem' <=> ct_state \in {"ACTIVE", "RX_DISABLE", "ALIGN", "WAIT_ALIGN", "WAIT_EMPTY"}
        /\ ct.flush' <=> ct_state = "FLUSH"
        /\ ct.status' <=> ct_state # "IDLE"
    BY <2>1 DEF Outputs
  <2> QED
    BY <1>0, <2>2, EdgeKeeps
<1>2. mw_state' \in {"WRITE_REQ", "WRITE", "WAIT_WRITE_RESP"} => Reading'
  <2>1. mw_state' \in {"WRITE_REQ", "WRITE", "WAIT_WRITE_RESP"} =>
          mw_state \in {"WAIT_FIFO", "WRITE_REQ", "WRITE", "WAIT_WRITE_RESP"}
    BY <1>0, WriterGoes DEF MwStates
  <2>2. mw_state \in {"WAIT_FIFO", "WRITE_REQ", "WRITE", "WAIT_WRITE_RESP"} => Reading
    BY <1>0 DEF CtrlInv, StartInv, Reading
  <2> QED
    BY <1>1, <2>1, <2>2 DEF Reading
<1>3. /\ ct.flush' <=> ct_state' = "WAIT_FLUSH1"
      /\ ct_state' \in {"RX_DISABLE", "ALIGN", "WAIT_ALIGN", "WAIT_EMPTY"} => ct.mem'
      /\ ct_state' \in {"FLUSH", "WAIT_FLUSH1", "WAIT_FLUSH2", "IDLE"} => ~ct.mem'
      /\ ct_state' \notin {"IDLE", "ACTIVE"} => ~ctrl_active' /\ ct.status'
      /\ ct.mem' => ct.status'
  BY <1>0, <1>1, ControlGoes DEF CtrlInv, CtStates
<1>4. sw' \in {"idle", "configured"} =>
        ct_state' = "IDLE" /\ ~ctrl_active' /\ mw_state' \in {"RST", "INACTIVE"}
  BY <1>0, <1>1, ControlGoes, WriterGoes DEF CtrlInv
<1>5. StartInv'
  BY <1>0, <1>1, ControlGoes, WriterGoes DEF CtrlInv, StartInv
<1>6. ShutdownInv'
  <2> SUFFICES ASSUME Reading' PROVE ShutdownInv'
    BY DEF ShutdownInv
  <2>1. CASE ~Reading
    BY <1>0, <1>1, <2>1, ControlGoes, WriterGoes
       DEF CtrlInv, StartInv, ShutdownInv, Reading, Loop, Flushed
  <2>2. CASE Reading
    <3>0. ShutdownInv /\ StartInv
      BY <1>0 DEF CtrlInv
    <3>1. CASE ct_state \in {"ACTIVE", "RX_DISABLE", "ALIGN", "WAIT_ALIGN", "WAIT_EMPTY"}
      BY <1>0, <1>1, <3>0, <2>2, <3>1, ControlGoes, WriterGoes
         DEF CtrlInv, ShutdownInv, Loop, Flushed
    <3>2. CASE ct_state = "MEM_DISABLE"
      BY <1>0, <1>1, <3>0, <2>2, <3>2, ControlGoes, WriterGoes
         DEF CtrlInv, ShutdownInv, Loop, Flushed
    <3>3. CASE ct_state \in {"FLUSH", "WAIT_FLUSH1"}
      BY <1>0, <1>1, <3>0, <2>2, <3>3, ControlGoes, WriterGoes
         DEF CtrlInv, ShutdownInv, Loop, Flushed
    <3>4. CASE ct_state \in {"WAIT_FLUSH2", "IDLE"}
      BY <1>0, <1>1, <3>0, <2>2, <3>4, ControlGoes, WriterGoes
         DEF CtrlInv, ShutdownInv, Loop, Flushed
    <3> QED
      BY <1>0, <3>1, <3>2, <3>3, <3>4 DEF CtStates
  <2> QED
    BY <2>1, <2>2
<1>7. rst' <=> sw' = "reset"
  BY <1>0, <1>1
<1> QED
  BY <1>2, <1>3, <1>4, <1>5, <1>6, <1>7 DEF CtrlInv

(* Where the beats go: the response of the memory publishes the burst; no  *)
(* other step does, and a transferred beat has not landed yet.             *)
Published == mw_state = "WAIT_WRITE_RESP" /\ b_valid

LEMMA EdgeFlow ==
  ASSUME IInv, ~rst, NEW push \in BOOLEAN, NEW rx_quiet \in BOOLEAN,
         NEW align_done \in BOOLEAN, ClockEdge(push, rx_quiet, align_done)
  PROVE  /\ Sent \in 0 .. 1
         /\ Published =>
              /\ published' = published + awlen + 1
              /\ Transferred = awlen + 1 /\ Transferred' = 0
              /\ Landed = awlen + 1 /\ Landed' = 0
              /\ Sent = 0 /\ w_data = <<>> /\ w_data' = <<>>
         /\ ~Published =>
              /\ published' = published /\ addr_wr' = IF mw_state \in {"RST", "START"}
                                                     THEN 0 ELSE addr_wr
              /\ Transferred' = Transferred + Sent
              /\ Landed' = Landed
              /\ Len(w_data') = Len(w_data) + Sent
<1>1. Sent \in 0 .. 1
  BY DEF Sent
<1>2. CASE Published
  <2>1. addr_wr' = Advance(addr_wr, awlen + 1)
    BY <1>2, WriterWrites DEF Published
  <2>2. addr_wr' # addr_wr
    <3>1. awlen + 1 <= BurstLen /\ awlen + 1 > 0
      BY BurstNumbers, Sizes
    <3> QED
      BY <2>1, <3>1, Sizes, Pointers, BurstNumbers DEF Advance
  <2>3. published' = published + awlen + 1
    BY <1>2, <2>2 DEF ClockEdge, Published
  <2>4. w_left = 0 /\ w_data = <<>>
    BY <1>2 DEF IInv, PortInv, Published
  <2>5. ~Transfer /\ Sent = 0
    BY <1>2, EdgePort DEF Published, Sent
  <2>6. w_data' = <<>>
    BY <2>4, <2>5, EdgePort
  <2>7. Transferred = awlen + 1 /\ Landed = awlen + 1
    BY <1>2, <2>4, BurstNumbers DEF Published, Transferred, Landed, Bursting
  <2>8. mw_state' = "WAIT_RING_BUFF"
    BY <1>2, WriterGoes DEF Published
  <2>9. Transferred' = 0 /\ Landed' = 0
    BY <2>6, <2>8 DEF Transferred, Landed, Bursting
  <2> QED
    BY <1>1, <1>2, <2>3, <2>4, <2>5, <2>6, <2>7, <2>9
<1>3. CASE ~Published
  <2>1. addr_wr' = IF mw_state \in {"RST", "START"} THEN 0 ELSE addr_wr
    BY <1>3, WriterWrites DEF Published
  <2>2. published' = published
    BY <2>1 DEF ClockEdge
  <2>3. Len(w_data') = Len(w_data) + Sent
    <3>1. w_data' = IF Transfer THEN Append(w_data, Head(fifo)) ELSE w_data
      BY EdgePort
    <3>2. w_data \in Seq(Int)
      BY DEF IInv, TypeOK
    <3>3. CASE Transfer
      BY <3>1, <3>2, <3>3 DEF Sent
    <3>4. CASE ~Transfer
      BY <3>1, <3>2, <3>4 DEF Sent
    <3> QED
      BY <3>3, <3>4
  <2>4. Transferred' = Transferred + Sent
    <3>1. CASE Bursting
      <4>1. awlen' = awlen /\ ~(awvalid /\ aw_ready)
        BY <3>1, WriterWrites, EdgePort DEF Bursting
      <4>2. w_left' = w_left - Sent
        BY <4>1, EdgePort
      <4>3. Bursting'
        BY <1>3, <3>1, WriterGoes DEF Bursting, Published
      <4> QED
        BY <1>1, <3>1, <4>1, <4>2, <4>3, BurstNumbers DEF Transferred
    <3>2. CASE mw_state = "WRITE_REQ" /\ awvalid /\ aw_ready
      <4>1. awlen' = awlen /\ w_left' = awlen + 1 /\ mw_state' = "WRITE"
        BY <3>2, WriterWrites, WriterGoes, EdgePort
      <4>2. Sent = 0
        BY <3>2, EdgePort DEF Sent
      <4> QED
        BY <3>2, <4>1, <4>2, BurstNumbers DEF Transferred, Bursting
    <3>3. CASE ~Bursting /\ ~(mw_state = "WRITE_REQ" /\ awvalid /\ aw_ready)
      <4>1. ~Bursting'
        BY <3>3, WriterGoes DEF Bursting, IInv, TypeOK, MwStates
      <4>2. Sent = 0
        BY <3>3, EdgePort DEF Sent, Bursting
      <4> QED
        BY <3>3, <4>1, <4>2 DEF Transferred
    <3> QED
      BY <3>1, <3>2, <3>3 DEF Bursting
  <2>5. Landed' = Landed
    <3>1. Transferred \in Int
      BY BurstNumbers DEF Transferred
    <3>2. Landed' = (Transferred + Sent) - (Len(w_data) + Sent)
      BY <2>3, <2>4 DEF Landed
    <3> QED
      BY <1>1, <3>1, <3>2, Lengths DEF Landed
  <2> QED
    BY <1>1, <1>3, <2>1, <2>2, <2>3, <2>4, <2>5
<1> QED
  BY <1>2, <1>3

(* A capture that runs goes on running.                                    *)
LEMMA EdgeRuns ==
  ASSUME IInv, ~rst, NEW push \in BOOLEAN, NEW rx_quiet \in BOOLEAN,
         NEW align_done \in BOOLEAN, ClockEdge(push, rx_quiet, align_done)
  PROVE  /\ sw' \in {"configured", "started"} => sw' = sw
         /\ sw' = "started" \/ Reading' <=> sw = "started" \/ Reading
         /\ Reading => Reading' /\ sw' = sw
         /\ Reading' => Reading \/ (sw = "started" /\ mw_state = "START")
         /\ sw \in {"idle", "configured"} <=> sw' \in {"idle", "configured"}
         /\ ~rst'
BY EdgeKeeps DEF Reading

LEMMA PushNumbers ==
  ASSUME NEW push \in BOOLEAN
  PROVE  Pushed(push) \in 0 .. 1
BY DEF Pushed

LEMMA EdgeFifoInv ==
  ASSUME IInv, ~rst, NEW push \in BOOLEAN, NEW rx_quiet \in BOOLEAN,
         NEW align_done \in BOOLEAN, ClockEdge(push, rx_quiet, align_done)
  PROVE  FifoInv'
<1>0. FifoInv
  BY DEF IInv
<1>1. mw_state' = "WAIT_FIFO" /\ ~prog_empty' => Len(fifo') >= BurstLen
  <2> SUFFICES ASSUME mw_state' = "WAIT_FIFO", ~prog_empty'
               PROVE  Len(fifo') >= BurstLen
    OBVIOUS
  <2>1. mw_state \in {"WAIT_RING_BUFF", "WAIT_FIFO"}
    BY WriterGoes DEF IInv, TypeOK, MwStates
  <2>2. Sent = 0
    BY <2>1, EdgePort DEF Sent
  <2>3. ~(Len(fifo) < BurstLen)
    BY EdgeFifo
  <2>4. Len(fifo') = Len(fifo) - Sent + Pushed(push)
    BY EdgeFifo
  <2>5. Len(fifo) - Sent + Pushed(push) >= BurstLen
    BY <2>2, <2>3, Lengths, Sizes, PushNumbers
  <2> QED
    BY <2>4, <2>5
<1>2. sw' \in {"idle", "configured"} => fifo' = <<>> /\ Pushed(push) = 0
  <2> SUFFICES ASSUME sw' \in {"idle", "configured"} 
               PROVE  fifo' = <<>> /\ Pushed(push) = 0
    OBVIOUS
  <2>1. sw \in {"idle", "configured"}
    BY EdgeRuns
  <2>2. ~push /\ mw_state \in {"RST", "INACTIVE"} /\ fifo = <<>>
    BY <1>0, <2>1 DEF IInv, CtrlInv, ClockEdge, SourceMay, FifoInv
  <2>3. Sent = 0 /\ Pushed(push) = 0
    BY <2>2, EdgePort DEF Sent, Pushed
  <2>4. fifo' \in Seq(Int) /\ Len(fifo') = Len(fifo) - Sent + Pushed(push)
    BY EdgeFifo
  <2>5. Len(fifo') = 0
    BY <2>2, <2>3, <2>4
  <2> QED
    BY <2>3, <2>4, <2>5
<1>3. sw' = "configured" => fed' = 0
  <2> SUFFICES ASSUME sw' = "configured" PROVE fed' = 0
    OBVIOUS
  <2>1. fed = 0 /\ Pushed(push) = 0
    BY <1>0, <1>2, EdgeRuns DEF FifoInv
  <2> QED
    BY <2>1, EdgeFifo
<1>4. sw' \in {"configured", "started"} =>
        published' = 0 /\ got' = <<>> /\ addr_rd' = 0
  <2> SUFFICES ASSUME sw' \in {"configured", "started"}
               PROVE published' = 0 /\ got' = <<>> /\ addr_rd' = 0
    OBVIOUS
  <2>1. sw' = sw
    BY EdgeRuns
  <2>2. ~Published
    BY <2>1 DEF IInv, CtrlInv, Reading, Published
  <2> QED
    BY <1>0, <2>1, <2>2, EdgeFlow, EdgeKeeps DEF FifoInv
<1>5. sw' = "started" \/ Reading' =>
        fed' = published' + Transferred' + Len(fifo') /\ fed' <= total'
  <2> SUFFICES ASSUME sw = "started" \/ Reading
               PROVE  fed' = published' + Transferred' + Len(fifo') /\ fed' <= total'
    BY EdgeRuns
  <2>1. fed = published + Transferred + Len(fifo) /\ fed <= total
    BY <1>0 DEF FifoInv
  <2>2. fed' = fed + Pushed(push) /\ total' = total
    BY EdgeFifo, EdgeKeeps
  <2>3. fed + Pushed(push) <= total
    <3>1. push => fed < total
      BY DEF ClockEdge, SourceMay
    <3> QED
      BY <2>1, <3>1, Counts DEF Pushed
  <2>4. Transferred \in Int
    BY BurstNumbers DEF Transferred
  <2>5. Len(fifo') = Len(fifo) - Sent + Pushed(push)
    BY EdgeFifo
  <2>6. CASE Published
    <3>1. published' + Transferred' + Len(fifo')
            = (published + awlen + 1) + 0 + (Len(fifo) - Sent + Pushed(push))
      BY <2>5, <2>6, EdgeFlow
    <3>2. Sent = 0 /\ Transferred = awlen + 1
      BY <2>6, EdgeFlow
    <3>3. (published + awlen + 1) + 0 + (Len(fifo) - Sent + Pushed(push)) = fed + Pushed(push)
      <4>1. /\ published \in Int /\ awlen \in Int /\ Len(fifo) \in Int
            /\ Pushed(push) \in Int
        BY Counts, Lengths, BurstNumbers, PushNumbers
      <4>2. fed = published + (awlen + 1) + Len(fifo)
        BY <2>1, <3>2
      <4> QED
        BY <3>2, <4>1, <4>2
    <3> QED
      BY <2>2, <2>3, <3>1, <3>3
  <2>7. CASE ~Published
    <3>1. published' + Transferred' + Len(fifo')
            = published + (Transferred + Sent) + (Len(fifo) - Sent + Pushed(push))
      BY <2>5, <2>7, EdgeFlow
    <3>2. Sent \in 0 .. 1
      BY EdgeFlow
    <3>3. published + (Transferred + Sent) + (Len(fifo) - Sent + Pushed(push)) = fed + Pushed(push)
      <4>1. Pushed(push) \in Int /\ Sent \in Int
        BY <3>2, PushNumbers
      <4>2. published \in Int /\ Len(fifo) \in Int
        BY Counts, Lengths
      <4> QED
        BY <2>1, <2>4, <4>1, <4>2
    <3> QED
      BY <2>2, <2>3, <3>1, <3>3
  <2> QED
    BY <2>6, <2>7
<1> QED
  BY <1>1, <1>2, <1>3, <1>4, <1>5, EdgeRuns DEF FifoInv

(* A flush writes what is left of less than a burst.                       *)
LEMMA FinalLength ==
  ASSUME NEW n \in Nat, n > 0, n <= BurstLen
  PROVE  FinalLen(n) = n - 1
<1>1. n + BurstLen - 1 = (n - 1) + BurstLen /\ n - 1 \in Nat /\ n - 1 < BurstLen
  BY Sizes
<1>2. \A b \in Nat \ {0}, m \in Nat : m < b => (m + b) % b = m
  OBVIOUS
<1>3. ((n - 1) + BurstLen) % BurstLen = n - 1
  BY <1>1, <1>2, Sizes
<1> QED
  BY <1>1, <1>3 DEF FinalLen

(* How long the burst is that is requested.                                *)
LEMMA EdgeRequests ==
  ASSUME IInv, ~rst, NEW push \in BOOLEAN, NEW rx_quiet \in BOOLEAN,
         NEW align_done \in BOOLEAN, ClockEdge(push, rx_quiet, align_done),
         mw_state = "WAIT_FIFO", mw_state' = "WRITE_REQ"
  PROVE  /\ Reading
         /\ ct.mem => ~Flushed /\ awlen' = BurstLen - 1 /\ Len(fifo) >= BurstLen
         /\ ~ct.mem => Flushed /\ awlen' = Len(fifo) - 1 /\ Len(fifo) > 0
<1>1. Reading
  BY DEF IInv, CtrlInv, StartInv, Reading, TypeOK
<1>2. BurstReady(ct.mem, prog_empty, Len(fifo))
  BY WriterGoes
<1>3. awlen' = IF ~prog_empty THEN BurstLen - 1 ELSE FinalLen(Len(fifo))
  BY WriterWrites
<1>4. CASE ct.mem
  <2>1. ~prog_empty
    BY <1>2, <1>4 DEF BurstReady
  <2>2. Len(fifo) >= BurstLen
    BY <2>1 DEF IInv, FifoInv
  <2>3. ~Flushed
    <3>1. ~flush => ~(Flushed /\ mw_state = "WAIT_FIFO")
      BY <1>1 DEF IInv, CtrlInv, ShutdownInv
    <3>2. Flushed => ~ct.mem
      BY DEF IInv, CtrlInv, Flushed
    <3> QED
      BY <1>4, <3>1, <3>2
  <2> QED
    BY <1>1, <1>3, <1>4, <2>1, <2>2, <2>3
<1>5. CASE ~ct.mem
  <2>1. flush /\ prog_empty /\ Len(fifo) > 0
    BY <1>2, <1>5 DEF BurstReady
  <2>2. Flushed
    BY <1>1, <2>1 DEF IInv, CtrlInv, ShutdownInv
  <2>3. Len(fifo) < BurstLen
    BY <1>1, <2>2 DEF IInv, DrainInv, Flushed, Draining
  <2>4. FinalLen(Len(fifo)) = Len(fifo) - 1
    BY <2>1, <2>3, FinalLength, Lengths, Sizes
  <2> QED
    BY <1>1, <1>3, <1>5, <2>1, <2>2, <2>4
<1> QED
  BY <1>4, <1>5

(* The FIFO holds what a burst needs.                                      *)
LEMMA EdgeBackedInv ==
  ASSUME IInv, ~rst, NEW push \in BOOLEAN, NEW rx_quiet \in BOOLEAN,
         NEW align_done \in BOOLEAN, ClockEdge(push, rx_quiet, align_done)
  PROVE  BackedInv'
<1>1. Len(fifo') = Len(fifo) - Sent + Pushed(push)
  BY EdgeFifo
<1>2. mw_state' = "WRITE_REQ" => Len(fifo') >= awlen' + 1
  <2> SUFFICES ASSUME mw_state' = "WRITE_REQ" PROVE Len(fifo') >= awlen' + 1
    OBVIOUS
  <2>1. mw_state \in {"WAIT_FIFO", "WRITE_REQ"}
    BY WriterGoes DEF IInv, TypeOK, MwStates
  <2>2. Sent = 0
    BY <2>1, EdgePort DEF Sent
  <2>3. CASE mw_state = "WAIT_FIFO"
    <3>1. CASE ct.mem
      <4>1. awlen' + 1 = BurstLen - 1 + 1 /\ Len(fifo) >= BurstLen
        BY <2>3, <3>1, EdgeRequests
      <4>2. Len(fifo) - Sent + Pushed(push) >= BurstLen - 1 + 1
        BY <2>2, <4>1, Lengths, Sizes, PushNumbers
      <4> QED
        BY <1>1, <4>1, <4>2
    <3>2. CASE ~ct.mem
      <4>1. awlen' + 1 = Len(fifo) - 1 + 1
        BY <2>3, <3>2, EdgeRequests
      <4>2. Len(fifo) - Sent + Pushed(push) >= Len(fifo) - 1 + 1
        BY <2>2, Lengths, PushNumbers
      <4> QED
        BY <1>1, <4>1, <4>2
    <3> QED
      BY <3>1, <3>2
  <2>4. CASE mw_state = "WRITE_REQ"
    <3>1. awlen' = awlen
      BY <2>4, WriterWrites
    <3>2. Len(fifo) >= awlen + 1
      BY <2>4 DEF IInv, BackedInv
    <3>3. Len(fifo) - Sent + Pushed(push) >= awlen + 1
      BY <2>2, <3>2, Lengths, BurstNumbers, PushNumbers
    <3> QED
      BY <1>1, <3>1, <3>3
  <2> QED
    BY <2>1, <2>3, <2>4
<1>3. mw_state' = "WRITE" => Len(fifo') >= w_left'
  <2> SUFFICES ASSUME mw_state' = "WRITE" PROVE Len(fifo') >= w_left'
    OBVIOUS
  <2>1. \/ mw_state = "WRITE_REQ" /\ awvalid /\ aw_ready
        \/ mw_state = "WRITE"
    BY WriterGoes DEF IInv, TypeOK, MwStates
  <2>2. CASE mw_state = "WRITE_REQ" /\ awvalid /\ aw_ready
    <3>1. Sent = 0 /\ w_left' = awlen + 1
      BY <2>2, EdgePort DEF Sent
    <3>2. Len(fifo) >= awlen + 1
      BY <2>2 DEF IInv, BackedInv
    <3>3. Len(fifo) - Sent + Pushed(push) >= awlen + 1
      BY <3>1, <3>2, Lengths, BurstNumbers, PushNumbers
    <3> QED
      BY <1>1, <3>1, <3>3
  <2>3. CASE mw_state = "WRITE"
    <3>1. Sent \in 0 .. 1 /\ w_left' = w_left - Sent
      <4>1. ~(awvalid /\ aw_ready)
        BY <2>3, EdgePort
      <4> QED
        BY <4>1, EdgePort, EdgeFlow
    <3>2. Len(fifo) >= w_left
      BY <2>3 DEF IInv, BackedInv
    <3>3. Len(fifo) - Sent + Pushed(push) >= w_left - Sent
      <4>1. Pushed(push) \in Nat
        BY PushNumbers
      <4> QED
        BY <3>1, <3>2, <4>1, Lengths, BurstNumbers
    <3> QED
      BY <1>1, <3>1, <3>3
  <2> QED
    BY <2>1, <2>2, <2>3
<1> QED
  BY <1>2, <1>3 DEF BackedInv

(* Beats stay in order in the FIFO ...                                     *)
LEMMA EdgeFifoOrder ==
  ASSUME IInv, ~rst, NEW push \in BOOLEAN, NEW rx_quiet \in BOOLEAN,
         NEW align_done \in BOOLEAN, ClockEdge(push, rx_quiet, align_done)
  PROVE  FifoOrder'
<1> SUFFICES ASSUME sw = "started" \/ Reading,
                    NEW i \in 1 .. Len(fifo')
             PROVE  fifo'[i] = published' + Transferred' + i - 1
  BY EdgeRuns DEF FifoOrder
<1>1. /\ fifo'[i] = IF i + Sent <= Len(fifo) THEN fifo[i + Sent] ELSE fed
      /\ Len(fifo') = Len(fifo) - Sent + Pushed(push)
  BY EdgeFifo
<1>2. Sent \in 0 .. 1 /\ Pushed(push) \in 0 .. 1 /\ i \in Int /\ i >= 1
      /\ i <= Len(fifo) - Sent + Pushed(push)
  <2>1. Sent \in 0 .. 1 /\ Pushed(push) \in 0 .. 1
    BY EdgeFlow, PushNumbers
  <2>2. i \in Int /\ i >= 1 /\ i <= Len(fifo')
    <3>1. Len(fifo') \in Nat
      BY EdgeFifo
    <3> QED
      BY <3>1
  <2> QED
    BY <1>1, <2>1, <2>2
<1>3. published \in Int /\ Transferred \in Int /\ Len(fifo) \in Nat
  BY Counts, Lengths, BurstNumbers DEF Transferred
<1>4. fifo'[i] = published + Transferred + Sent + i - 1
  <2>1. CASE i + Sent <= Len(fifo)
    <3>1. i + Sent \in 1 .. Len(fifo)
      BY <1>2, <1>3, <2>1
    <3>2. fifo[i + Sent] = published + Transferred + (i + Sent) - 1
      BY <3>1 DEF IInv, FifoOrder
    <3> QED
      BY <1>1, <1>2, <1>3, <2>1, <3>2
  <2>2. CASE ~(i + Sent <= Len(fifo))
    <3>1. i + Sent = Len(fifo) + 1
      BY <1>2, <1>3, <2>2
    <3>2. fed = published + Transferred + Len(fifo)
      BY DEF IInv, FifoInv
    <3> QED
      BY <1>1, <1>2, <1>3, <2>2, <3>1, <3>2
  <2> QED
    BY <2>1, <2>2
<1>5. CASE Published
  <2>1. published' + Transferred' + i - 1 = (published + awlen + 1) + 0 + i - 1
    BY <1>5, EdgeFlow
  <2>2. Transferred = awlen + 1 /\ Sent = 0
    BY <1>5, EdgeFlow
  <2>3. (published + awlen + 1) + 0 + i - 1 = published + Transferred + Sent + i - 1
    BY <1>2, <1>3, <2>2, BurstNumbers
  <2> QED
    BY <1>4, <2>1, <2>3
<1>6. CASE ~Published
  <2>1. published' + Transferred' + i - 1 = published + (Transferred + Sent) + i - 1
    BY <1>6, EdgeFlow
  <2>2. published + (Transferred + Sent) + i - 1 = published + Transferred + Sent + i - 1
    BY <1>2, <1>3
  <2> QED
    BY <1>4, <2>1, <2>2
<1> QED
  BY <1>5, <1>6

(* The first look of software at a capture: nothing is published.          *)
LEMMA EdgeBegins ==
  ASSUME IInv, ~rst, NEW push \in BOOLEAN, NEW rx_quiet \in BOOLEAN,
         NEW align_done \in BOOLEAN, ClockEdge(push, rx_quiet, align_done),
         ~Reading, Reading'
  PROVE  /\ mw_state' = "WAIT_RING_BUFF" /\ sw' = "poll"
         /\ published' = 0 /\ got' = <<>> /\ Given' = 0
         /\ addr_wr' = 0 /\ awaddr' = 0 /\ addr_rd' = 0 /\ Fill' = 0
         /\ Transferred' = 0 /\ w_data' = <<>> /\ Landed' = 0
         /\ ~Flushed' /\ ~Draining' /\ ct_state' # "WAIT_EMPTY"
<1>1. sw = "started" /\ mw_state = "START" /\ sw' = "poll"
  BY EdgeRuns, EdgeKeeps DEF Reading
<1>2. /\ mw_state' = "WAIT_RING_BUFF" /\ addr_wr' = 0 /\ awaddr' = 0
  BY <1>1, WriterGoes, WriterWrites
<1>3. published = 0 /\ got = <<>> /\ addr_rd = 0
  BY <1>1 DEF IInv, FifoInv
<1>4. published' = 0 /\ got' = <<>> /\ addr_rd' = 0
  <2>1. ~Published
    BY <1>1 DEF Published
  <2> QED
    BY <1>3, <2>1, EdgeFlow, EdgeKeeps
<1>5. Given' = 0 /\ Fill' = 0
  <2>1. Given' = Len(got')
    BY <1>1 DEF Given
  <2>2. Fill' = addr_wr' - addr_rd'
    BY <1>2, <1>4 DEF Fill
  <2> QED
    BY <1>2, <1>4, <2>1, <2>2
<1>6. w_data' = <<>>
  <2>1. w_data = <<>> /\ ~Transfer
    BY <1>1, EdgePort DEF IInv, PortInv, Bursting
  <2> QED
    BY <2>1, EdgePort
<1>7. Transferred' = 0
  BY <1>2 DEF Transferred, Bursting
<1>8. Landed' = 0
  <2>1. Len(w_data') = 0
    BY <1>6
  <2>2. Landed' = 0 - 0
    BY <1>7, <2>1 DEF Landed
  <2> QED
    BY <2>2
<1>9. ct_state \in {"ACTIVE", "RX_DISABLE", "ALIGN"}
  BY <1>1 DEF IInv, CtrlInv, StartInv
<1>10. ~Flushed' /\ ~Draining' /\ ct_state' # "WAIT_EMPTY"
  BY <1>9, ControlGoes DEF Flushed, Draining
<1> QED
  BY <1>1, <1>2, <1>4, <1>5, <1>6, <1>7, <1>8, <1>10

(* What a response does to the ring, while software reads.                 *)
LEMMA EdgeRing ==
  ASSUME IInv, ~rst, NEW push \in BOOLEAN, NEW rx_quiet \in BOOLEAN,
         NEW align_done \in BOOLEAN, ClockEdge(push, rx_quiet, align_done),
         Reading
  PROVE  /\ Reading' /\ sw' = sw /\ Given' = Given
         /\ mw_state \in Loop \union {"INACTIVE"}
         /\ mw_state' \in Loop \union {"INACTIVE"}
         /\ Published => Fill' = Fill + awlen + 1
         /\ ~Published => Fill' = Fill /\ addr_wr' = addr_wr
<1>1. Reading' /\ sw' = sw
  BY EdgeRuns
<1>2. mw_state \in Loop \union {"INACTIVE"}
  BY DEF IInv, CtrlInv, ShutdownInv
<1>3. mw_state' \in Loop \union {"INACTIVE"}
  BY <1>1, EdgeCtrlInv DEF CtrlInv, ShutdownInv
<1>4. Given' = Given
  BY <1>1, EdgeKeeps DEF Given
<1>5. ASSUME Published PROVE Fill' = Fill + awlen + 1
  <2>1. mw_state = "WAIT_WRITE_RESP"
    BY <1>5 DEF Published
  <2>2. addr_wr' = Advance(addr_wr, awlen + 1) /\ addr_rd' = addr_rd
    BY <1>5, WriterWrites, EdgeKeeps DEF Published
  <2>3. addr_wr + awlen < RingSize
    BY <2>1, BurstBeforeEnd
  <2>4. Fill + BurstLen < RingSize
    BY <2>1, Room DEF Bursting
  <2> QED
    BY <2>2, <2>3, <2>4, Sizes, Pointers, BurstNumbers DEF Fill, Advance
<1>6. ASSUME ~Published PROVE Fill' = Fill /\ addr_wr' = addr_wr
  <2>1. addr_wr' = addr_wr
    BY <1>2, <1>6, EdgeFlow DEF Loop
  <2> QED
    BY <2>1, EdgeKeeps DEF Fill
<1> QED
  BY <1>1, <1>2, <1>3, <1>4, <1>5, <1>6

(* ... and on their way to the memory.                                     *)
LEMMA EdgeBurstInv ==
  ASSUME IInv, ~rst, NEW push \in BOOLEAN, NEW rx_quiet \in BOOLEAN,
         NEW align_done \in BOOLEAN, ClockEdge(push, rx_quiet, align_done)
  PROVE  BurstInv'
<1> SUFFICES ASSUME Reading', Bursting' PROVE BurstInv'
  BY DEF BurstInv
<1>0. Reading
  BY EdgeBegins DEF Bursting
<1>1. ~Published
  BY WriterGoes DEF Published, Bursting
<1>2. Transferred' = Transferred + Sent /\ Len(w_data') = Len(w_data) + Sent
      /\ addr_wr' = addr_wr /\ Sent \in Int
  BY <1>0, <1>1, EdgeFlow, EdgeRing
<1>3. CASE Bursting
  <2>1. w_addr = addr_wr + Transferred /\ Len(w_data) <= Transferred
    BY <1>0, <1>3 DEF IInv, BurstInv
  <2>2. w_addr' = w_addr + Sent
    BY <1>3, EdgePort DEF Bursting
  <2>3. Transferred \in Int
    BY BurstNumbers DEF Transferred
  <2>4. w_addr + Sent = addr_wr + (Transferred + Sent)
    BY <1>2, <2>1, <2>3, Pointers
  <2>5. Len(w_data) + Sent <= Transferred + Sent
    BY <1>2, <2>1, <2>3, Lengths
  <2> QED
    BY <1>2, <2>2, <2>4, <2>5 DEF BurstInv
<1>4. CASE ~Bursting
  <2>1. mw_state = "WRITE_REQ" /\ awvalid /\ aw_ready
    BY <1>4, WriterGoes DEF Bursting, IInv, TypeOK, MwStates
  <2>2. w_addr' = awaddr /\ Sent = 0
    BY <2>1, EdgePort DEF Sent
  <2>3. awaddr = addr_wr
    BY <1>0, <2>1 DEF IInv, PointerInv
  <2>4. Transferred = 0 /\ w_data = <<>>
    BY <1>0, <1>4, Flow
  <2>5. Transferred' = 0 /\ Len(w_data') = 0
    BY <1>2, <2>2, <2>4
  <2>6. addr_wr + 0 = addr_wr
    BY Pointers
  <2> QED
    BY <1>2, <2>2, <2>3, <2>5, <2>6 DEF BurstInv
<1> QED
  BY <1>3, <1>4

LEMMA EdgeBurstOrder ==
  ASSUME IInv, ~rst, NEW push \in BOOLEAN, NEW rx_quiet \in BOOLEAN,
         NEW align_done \in BOOLEAN, ClockEdge(push, rx_quiet, align_done)
  PROVE  BurstOrder'
<1> SUFFICES ASSUME Reading', NEW i \in 1 .. Len(w_data')
             PROVE  w_data'[i] = published' + Landed' + i - 1
  BY DEF BurstOrder
<1>1. Reading
  <2> SUFFICES ASSUME ~Reading PROVE FALSE
    OBVIOUS
  <2>1. w_data' = <<>>
    BY EdgeBegins
  <2> QED
    BY <2>1
<1>2. ~Published
  <2> SUFFICES ASSUME Published PROVE FALSE
    OBVIOUS
  <2>1. w_data' = <<>>
    BY EdgeFlow
  <2> QED
    BY <2>1
<1>3. published' = published /\ Landed' = Landed /\ Len(w_data') = Len(w_data) + Sent
  BY <1>2, EdgeFlow
<1>4. w_data' = IF Transfer THEN Append(w_data, Head(fifo)) ELSE w_data
  BY EdgePort
<1>5. w_data \in Seq(Int) /\ fifo \in Seq(Int)
  BY DEF IInv, TypeOK
<1>6. CASE i <= Len(w_data)
  <2>1. i \in 1 .. Len(w_data) /\ w_data'[i] = w_data[i]
    BY <1>4, <1>5, <1>6
  <2>2. w_data[i] = published + Landed + i - 1
    BY <1>1, <2>1 DEF IInv, BurstOrder
  <2> QED
    BY <1>3, <2>1, <2>2
<1>7. CASE ~(i <= Len(w_data))
  <2>1. Transfer /\ i = Len(w_data) + 1
    <3>1. ~Transfer => w_data' = w_data
      BY <1>4
    <3>2. Transfer
      BY <1>5, <1>7, <3>1
    <3>3. Len(w_data') = Len(w_data) + 1
      BY <1>4, <1>5, <3>2
    <3> QED
      BY <1>5, <1>7, <3>2, <3>3
  <2>2. w_data'[i] = Head(fifo)
    BY <1>4, <1>5, <2>1
  <2>3. fifo # <<>>
    BY <2>1, EdgePort
  <2>4. 1 \in 1 .. Len(fifo) /\ Head(fifo) = fifo[1]
    BY <1>5, <2>3
  <2>5. Head(fifo) = published + Transferred + 1 - 1
    BY <1>1, <2>4 DEF IInv, FifoOrder
  <2>6. Landed = Transferred - Len(w_data) /\ Transferred \in Nat
    BY <1>1, Flow
  <2>7. published + Landed + i - 1 = published + Transferred + 1 - 1
    BY <2>1, <2>6, Counts, Lengths
  <2> QED
    BY <1>3, <2>2, <2>5, <2>7
<1> QED
  BY <1>6, <1>7

(* What is left when the writer is stopped, and that the flush writes it.  *)
LEMMA EdgeDrainInv ==
  ASSUME IInv, ~rst, NEW push \in BOOLEAN, NEW rx_quiet \in BOOLEAN,
         NEW align_done \in BOOLEAN, ClockEdge(push, rx_quiet, align_done)
  PROVE  DrainInv'
<1> SUFFICES ASSUME Reading' PROVE DrainInv'
  BY DEF DrainInv
<1>a. CASE ~Reading
  BY <1>a, EdgeBegins DEF DrainInv, Loop
<1>b. CASE Reading
  <2>0. /\ DrainInv /\ FifoInv /\ CtrlInv /\ ShutdownInv /\ ct_state \in CtStates
        /\ mw_state \in Loop \union {"INACTIVE"}
        /\ fed = published + Transferred + Len(fifo)
        /\ total' = total /\ ctrl_active' = ctrl_active
    BY <1>b, EdgeRing, EdgeKeeps DEF IInv, CtrlInv, FifoInv, TypeOK
  <2>1. fed = total => fed' = total /\ Pushed(push) = 0
    <3> SUFFICES ASSUME fed = total PROVE fed' = total /\ Pushed(push) = 0
      OBVIOUS
    <3>1. ~push
      BY Counts DEF ClockEdge, SourceMay
    <3>2. Pushed(push) = 0 /\ fed' = fed + Pushed(push)
      BY <3>1, EdgeFifo DEF Pushed
    <3> QED
      BY <3>2, Counts
  <2>2. fed = total /\ Len(fifo) < BurstLen => Len(fifo') < BurstLen /\ prog_empty'
    <3> SUFFICES ASSUME fed = total, Len(fifo) < BurstLen
                 PROVE  Len(fifo') < BurstLen /\ prog_empty'
      OBVIOUS
    <3>1. Len(fifo') = Len(fifo) - Sent + Pushed(push) /\ prog_empty' = (Len(fifo) < BurstLen)
      BY EdgeFifo
    <3>2. Sent \in 0 .. 1 /\ Pushed(push) = 0
      BY <2>1, EdgeFlow
    <3>3. Len(fifo) - Sent + Pushed(push) < BurstLen
      BY <3>2, Lengths, Sizes
    <3> QED
      BY <3>1, <3>3
  <2>3. ct_state' = "WAIT_EMPTY" => fed' = total' /\ (prog_empty' => Len(fifo') < BurstLen)
    <3> SUFFICES ASSUME ct_state' = "WAIT_EMPTY"
                 PROVE  fed' = total' /\ (prog_empty' => Len(fifo') < BurstLen)
      OBVIOUS
    <3>1. fed = total
      <4>1. (ct_state = "WAIT_ALIGN" /\ align_done) \/ ct_state = "WAIT_EMPTY"
        BY <2>0, ControlGoes DEF CtStates
      <4> QED
        BY <1>b, <2>0, <4>1 DEF DrainInv, ClockEdge, SourceMay
    <3>2. prog_empty' => Len(fifo) < BurstLen
      BY EdgeFifo
    <3> QED
      BY <2>0, <2>1, <2>2, <3>1, <3>2
  <2>4. Draining' => /\ Draining \/ (ct_state = "WAIT_EMPTY" /\ prog_empty)
    BY <1>b, <2>0, ControlGoes DEF Draining, CtStates
  <2>5. Draining' => fed' = total' /\ Len(fifo') < BurstLen /\ prog_empty'
    <3> SUFFICES ASSUME Draining'
                 PROVE  fed' = total' /\ Len(fifo') < BurstLen /\ prog_empty'
      OBVIOUS
    <3>1. fed = total /\ Len(fifo) < BurstLen
      BY <1>b, <2>0, <2>4 DEF DrainInv
    <3> QED
      BY <2>0, <2>1, <2>2, <3>1
  <2>6. /\ Flushed => Flushed'
        /\ Flushed' => Flushed \/ (ct_state = "WAIT_FLUSH1" /\ ct.flush /\ mw_state = "INACTIVE")
    BY <1>b, <2>0, ControlGoes DEF Flushed, CtStates, CtrlInv, ShutdownInv
  <2>7. mw_state' \in {"WRITE_REQ", "WRITE", "WAIT_WRITE_RESP"} =>
          IF Flushed' THEN published' + awlen' + 1 = total' ELSE awlen' = BurstLen - 1
    <3> SUFFICES ASSUME mw_state' \in {"WRITE_REQ", "WRITE", "WAIT_WRITE_RESP"}
                 PROVE  IF Flushed' THEN published' + awlen' + 1 = total'
                        ELSE awlen' = BurstLen - 1
      OBVIOUS
    <3>1. ~Published
      BY WriterGoes DEF Published
    <3>2. published' = published
      BY <3>1, EdgeFlow
    <3>3. CASE mw_state = "WAIT_FIFO"
      <4>1. mw_state' = "WRITE_REQ"
        BY <3>3, WriterGoes
      <4>2. Flushed' = Flushed
        BY <2>6, <3>3 DEF Flushed
      <4>3. CASE ct.mem
        BY <3>3, <4>1, <4>2, <4>3, EdgeRequests
      <4>4. CASE ~ct.mem
        <5>1. Flushed /\ awlen' = Len(fifo) - 1
          BY <3>3, <4>1, <4>4, EdgeRequests
        <5>2. fed = total /\ Transferred = 0
          BY <1>b, <2>0, <3>3, <5>1, Flow DEF DrainInv, Flushed, Draining, Bursting
        <5>3. published' + awlen' + 1 = published + (Len(fifo) - 1) + 1
          BY <3>2, <5>1
        <5>4. published + (Len(fifo) - 1) + 1 = total
          BY <2>0, <5>2, Counts, Lengths
        <5> QED
          BY <2>0, <4>2, <5>1, <5>3, <5>4
      <4> QED
        BY <4>3, <4>4
    <3>4. CASE mw_state # "WAIT_FIFO"
      <4>1. mw_state \in {"WRITE_REQ", "WRITE", "WAIT_WRITE_RESP"}
        BY <2>0, <3>4, WriterGoes DEF Loop
      <4>2. awlen' = awlen
        BY <3>4, WriterWrites
      <4>3. Flushed' = Flushed
        BY <2>6, <4>1 DEF Flushed
      <4>4. IF Flushed THEN published + awlen + 1 = total ELSE awlen = BurstLen - 1
        BY <1>b, <2>0, <4>1 DEF DrainInv
      <4> QED
        BY <2>0, <3>2, <4>2, <4>3, <4>4
    <3> QED
      BY <3>3, <3>4
  <2>8. Flushed' /\ ~flush' /\ mw_state' \in {"WAIT_RING_BUFF", "INACTIVE"} =>
          published' = total'
    <3> SUFFICES ASSUME Flushed', ~flush', mw_state' \in {"WAIT_RING_BUFF", "INACTIVE"}
                 PROVE  published' = total'
      OBVIOUS
    <3>1. Flushed
      BY <2>6, WriterGoes
    <3>2. ~ct.mem /\ ~ct.flush
      BY <2>0, <3>1 DEF CtrlInv, Flushed, IInv
    <3>3. CASE mw_state \in {"WAIT_RING_BUFF", "INACTIVE"}
      <4>1. ~flush
        BY <1>b, <2>0, <3>3, WriterGoes DEF ShutdownInv
      <4>2. published = total
        BY <1>b, <2>0, <3>1, <3>3, <4>1 DEF DrainInv
      <4>3. ~Published
        BY <3>3 DEF Published
      <4> QED
        BY <2>0, <4>2, <4>3, EdgeFlow
    <3>4. CASE mw_state = "WAIT_FIFO"
      <4>1. flush /\ prog_empty /\ fed = total
        BY <1>b, <2>0, <3>1, <3>4 DEF ShutdownInv, DrainInv, Flushed, Draining
      <4>2. ~(Len(fifo) > 0)
        BY <3>2, <3>4, <4>1, WriterGoes DEF BurstReady
      <4>3. Transferred = 0
        BY <1>b, <3>4, Flow DEF Bursting
      <4>4. published = total
        BY <2>0, <4>1, <4>2, <4>3, Counts, Lengths
      <4>5. ~Published
        BY <3>4 DEF Published
      <4> QED
        BY <2>0, <4>4, <4>5, EdgeFlow
    <3>5. CASE mw_state = "WAIT_WRITE_RESP"
      <4>1. Published
        BY <3>5, WriterGoes DEF Published
      <4>2. published + awlen + 1 = total
        BY <1>b, <2>0, <3>1, <3>5 DEF DrainInv
      <4> QED
        BY <2>0, <4>1, <4>2, EdgeFlow
    <3>6. mw_state \notin {"WRITE_REQ", "WRITE"}
      BY WriterGoes
    <3> QED
      BY <2>0, <3>3, <3>4, <3>5, <3>6 DEF Loop
  <2> QED
    BY <2>3, <2>5, <2>7, <2>8 DEF DrainInv
<1> QED
  BY <1>a, <1>b

(* There is room for a burst in the ring.                                  *)
LEMMA SpaceForBurst ==
  ASSUME IInv, Reading, mw_state = "WAIT_RING_BUFF", ct.mem \/ flush,
         HasSpace(addr_rd)
  PROVE  Fill + BurstLen < RingSize
<1>1. addr_wr % BurstLen = 0
  <2>1. ct.mem => ~Flushed
    BY DEF IInv, CtrlInv, Flushed, Reading
  <2> QED
    BY <2>1 DEF IInv, AlignInv
<1>2. addr_wr + BurstLen <= RingSize
  <2>1. BurstLen \in Nat \ {0} /\ RingSize % BurstLen = 0
    BY MemWriteAssumption
  <2> QED
    BY <1>1, <2>1, RoomToEnd, Sizes, Pointers
<1> QED
  BY <1>2, Sizes, Pointers DEF HasSpace, Fill

(* The address of the next beat, and the pointer after the burst.          *)
LEMMA EdgeAddress ==
  ASSUME IInv, ~rst, NEW push \in BOOLEAN, NEW rx_quiet \in BOOLEAN,
         NEW align_done \in BOOLEAN, ClockEdge(push, rx_quiet, align_done),
         Reading
  PROVE  awaddr' = IF mw_state' = "WRITE" THEN addr_wr' + beats_cntr'
                   ELSE IF mw_state' = "WAIT_WRITE_RESP" THEN Advance(addr_wr', awlen' + 1)
                   ELSE addr_wr'
<1>0. /\ mw_state \in Loop \union {"INACTIVE"}
      /\ awaddr = IF mw_state = "WRITE" THEN addr_wr + beats_cntr
                  ELSE IF mw_state = "WAIT_WRITE_RESP" THEN Advance(addr_wr, awlen + 1)
                  ELSE addr_wr
  BY EdgeRing DEF IInv, PointerInv
<1>1. CASE mw_state = "WRITE"
  <2>0. addr_wr' = addr_wr /\ awlen' = awlen
    BY <1>1, WriterWrites
  <2>1. addr_wr + awlen < RingSize /\ beats_cntr <= awlen
    BY <1>1, BurstBeforeEnd DEF IInv, PortInv
  <2>2. awaddr' = IF Transfer THEN Advance(awaddr, 1) ELSE awaddr
    BY <1>1, EdgePort, WriterWrites
  <2>3. CASE Transfer /\ LastBeat
    <3>1. mw_state' = "WAIT_WRITE_RESP"
      BY <1>1, <2>3, EdgePort, WriterGoes
    <3>2. Advance(awaddr, 1) = Advance(addr_wr, awlen + 1)
      BY <1>0, <1>1, <2>3, Pointers, BurstNumbers DEF LastBeat, Advance
    <3> QED
      BY <2>0, <2>2, <2>3, <3>1, <3>2
  <2>4. CASE ~(Transfer /\ LastBeat)
    <3>1. mw_state' = "WRITE" /\ beats_cntr' = beats_cntr + Sent
      BY <1>1, <2>4, EdgeBeats
    <3>2. awaddr' = addr_wr + (beats_cntr + Sent)
      <4>1. CASE Transfer
        <5>1. beats_cntr < awlen
          BY <2>1, <2>4, <4>1, BurstNumbers DEF LastBeat
        <5> QED
          BY <1>0, <1>1, <2>1, <2>2, <4>1, <5>1, Sizes, Pointers, BurstNumbers DEF Advance, Sent
      <4>2. CASE ~Transfer
        BY <1>0, <1>1, <2>2, <4>2, Pointers, BurstNumbers DEF Sent
      <4> QED
        BY <4>1, <4>2
    <3> QED
      BY <2>0, <3>1, <3>2
  <2> QED
    BY <2>3, <2>4
<1>2. CASE mw_state = "WAIT_WRITE_RESP"
  BY <1>0, <1>2, WriterGoes, WriterWrites
<1>3. CASE mw_state \notin {"WRITE", "WAIT_WRITE_RESP"}
  <2>1. awaddr' = addr_wr /\ addr_wr' = addr_wr
    BY <1>0, <1>3, WriterWrites DEF Loop
  <2>2. mw_state' = "WRITE" => beats_cntr' = 0
    BY <1>0, <1>3, WriterGoes, WriterWrites DEF Loop
  <2>3. mw_state' # "WAIT_WRITE_RESP"
    BY <1>0, <1>3, WriterGoes DEF Loop
  <2>4. addr_wr + 0 = addr_wr
    BY Pointers
  <2> QED
    BY <2>1, <2>2, <2>3, <2>4
<1> QED
  BY <1>1, <1>2, <1>3

LEMMA EdgePointerInv ==
  ASSUME IInv, ~rst, NEW push \in BOOLEAN, NEW rx_quiet \in BOOLEAN,
         NEW align_done \in BOOLEAN, ClockEdge(push, rx_quiet, align_done)
  PROVE  PointerInv'
<1> SUFFICES ASSUME Reading' PROVE PointerInv'
  BY DEF PointerInv
<1>a. CASE ~Reading
  BY <1>a, EdgeBegins DEF PointerInv, Loop
<1>b. CASE Reading
  <2>0. /\ PointerInv /\ Given' = Given /\ sw' = sw
        /\ UNCHANGED <<addr_rd, chunk, got>>
        /\ mw_state \in Loop \union {"INACTIVE"}
    BY <1>b, EdgeRing, EdgeKeeps DEF IInv
  <2>n. Given \in Nat /\ Fill \in Nat /\ published = Given + Fill
    BY <1>b, FillNumbers
  <2>1. published' - Given' = Fill' /\ published' >= published
    <3>1. CASE Published
      <4>1. published' - Given' = (published + awlen + 1) - Given /\ Fill' = Fill + awlen + 1
        BY <1>b, <2>0, <3>1, EdgeRing, EdgeFlow
      <4>2. (published + awlen + 1) - Given = Fill + awlen + 1
            /\ published + awlen + 1 >= published
        BY <2>n, Counts, BurstNumbers
      <4> QED
        BY <3>1, <4>1, <4>2, EdgeFlow
    <3>2. CASE ~Published
      <4>1. published' - Given' = published - Given /\ Fill' = Fill /\ published' = published
        BY <1>b, <2>0, <3>2, EdgeRing, EdgeFlow
      <4>2. published - Given = Fill /\ published >= published
        BY <2>n, Counts
      <4> QED
        BY <4>1, <4>2
    <3> QED
      BY <3>1, <3>2
  <2>2. \A n \in Nat : n <= published => n <= published'
    <3>1. published' \in Nat
      BY EdgeTypes DEF TypeOK
    <3> QED
      BY <2>1, <3>1, Counts
  <2>3. Len(got') <= published'
    BY <1>b, <2>0, <2>2, Lengths DEF PointerInv
  <2>4. awaddr' = IF mw_state' = "WRITE" THEN addr_wr' + beats_cntr'
                  ELSE IF mw_state' = "WAIT_WRITE_RESP" THEN Advance(addr_wr', awlen' + 1)
                  ELSE addr_wr'
    BY <1>b, EdgeAddress
  <2>5. mw_state' \in Loop \ {"WAIT_RING_BUFF"} => Fill' + BurstLen < RingSize
    <3> SUFFICES ASSUME mw_state' \in Loop \ {"WAIT_RING_BUFF"}
                 PROVE  Fill' + BurstLen < RingSize
      OBVIOUS
    <3>1. ~Published
      BY WriterGoes DEF Published
    <3>2. Fill + BurstLen < RingSize
      <4>1. CASE mw_state = "WAIT_RING_BUFF"
        <5>1. HasSpace(addr_rd) /\ (ct.mem \/ flush)
          BY <4>1, WriterGoes DEF Loop
        <5> QED
          BY <1>b, <4>1, <5>1, SpaceForBurst
      <4>2. CASE mw_state # "WAIT_RING_BUFF"
        <5>1. mw_state \in Loop
          BY <2>0, WriterGoes DEF Loop
        <5> QED
          BY <1>b, <2>0, <4>2, <5>1 DEF PointerInv
      <4> QED
        BY <4>1, <4>2
    <3> QED
      BY <1>b, <3>1, <3>2, EdgeRing
  <2>6. sw' = "read" => chunk' > 0 /\ addr_rd' + chunk' <= RingSize
                        /\ Len(got') + chunk' <= published'
    <3> SUFFICES ASSUME sw = "read"
                 PROVE  chunk > 0 /\ addr_rd + chunk <= RingSize
                        /\ Len(got) + chunk <= published'
      BY <2>0
    <3>1. chunk > 0 /\ addr_rd + chunk <= RingSize /\ Len(got) + chunk <= published
      BY <1>b, <2>0 DEF PointerInv
    <3>2. Len(got) + chunk \in Nat
      BY Lengths, Counts
    <3> QED
      BY <2>2, <3>1, <3>2
  <2>7. sw' = "release" => chunk' > 0 /\ addr_rd' + chunk' <= RingSize
                           /\ chunk' <= Len(got')
    BY <1>b, <2>0 DEF PointerInv
  <2> QED
    BY <2>1, <2>3, <2>4, <2>5, <2>6, <2>7 DEF PointerInv
<1> QED
  BY <1>a, <1>b

LEMMA ZeroMultiple ==
  ASSUME NEW b \in Nat \ {0}
  PROVE  0 % b = 0
OBVIOUS

(* Bursts start at multiples of their length.                              *)
LEMMA EdgeAlignInv ==
  ASSUME IInv, ~rst, NEW push \in BOOLEAN, NEW rx_quiet \in BOOLEAN,
         NEW align_done \in BOOLEAN, ClockEdge(push, rx_quiet, align_done)
  PROVE  AlignInv'
<1> SUFFICES ASSUME Reading',
                    ~Flushed' \/ flush' \/ mw_state' \notin {"WAIT_RING_BUFF", "INACTIVE"}
             PROVE  addr_wr' % BurstLen = 0
  BY DEF AlignInv
<1>a. CASE ~Reading
  BY <1>a, EdgeBegins, ZeroMultiple, MemWriteAssumption
<1>b. CASE Reading
  <2>0. /\ mw_state \in Loop \union {"INACTIVE"} /\ ct_state \in CtStates
        /\ CtrlInv /\ ShutdownInv /\ AlignInv
    BY <1>b, EdgeRing DEF IInv, CtrlInv, TypeOK
  <2>1. Flushed => Flushed'
    BY <1>b, <2>0, EdgeKeeps, ControlGoes DEF Flushed, ShutdownInv
  <2>2. CASE Published
    <3>1. mw_state = "WAIT_WRITE_RESP" /\ b_valid
      BY <2>2 DEF Published
    <3>2. mw_state' = "WAIT_RING_BUFF" /\ ~flush'
      BY <3>1, WriterGoes
    <3>3. ~Flushed
      BY <2>1, <3>2
    <3>4. awlen = BurstLen - 1
      BY <1>b, <3>1, <3>3 DEF IInv, DrainInv
    <3>5. addr_wr % BurstLen = 0
      BY <1>b, <2>0, <3>3 DEF AlignInv
    <3>6. (addr_wr + BurstLen) % BurstLen = 0
      BY <3>5, NextMultiple, MemWriteAssumption, Pointers
    <3>7. addr_wr' = Advance(addr_wr, awlen + 1)
      BY <3>1, WriterWrites
    <3>8. awlen + 1 = BurstLen
      BY <3>4, Sizes
    <3>9. addr_wr' = 0 \/ addr_wr' = addr_wr + BurstLen
      BY <3>7, <3>8 DEF Advance
    <3> QED
      BY <3>6, <3>9, ZeroMultiple, MemWriteAssumption
  <2>3. CASE ~Published
    <3>1. addr_wr' = addr_wr
      BY <1>b, <2>3, EdgeRing
    <3>2. ct.mem \/ ct.flush => ~Flushed
      BY <1>b, <2>0 DEF CtrlInv, Flushed, Reading
    <3>3. mw_state = "INACTIVE" => ~ct.mem
      BY <1>b, <2>0 DEF CtrlInv, ShutdownInv, Loop, CtStates, Reading
    <3>4. ~Flushed \/ flush \/ mw_state \notin {"WAIT_RING_BUFF", "INACTIVE"}
      BY <2>0, <2>1, <3>2, <3>3, WriterGoes DEF Loop
    <3> QED
      BY <1>b, <2>0, <3>1, <3>4 DEF AlignInv
  <2> QED
    BY <2>2, <2>3
<1> QED
  BY <1>a, <1>b

(* The slots of the ring hold what they held.                              *)
LEMMA EdgeSlotInv ==
  ASSUME IInv, ~rst, NEW push \in BOOLEAN, NEW rx_quiet \in BOOLEAN,
         NEW align_done \in BOOLEAN, ClockEdge(push, rx_quiet, align_done)
  PROVE  SlotInv'
<1> SUFFICES ASSUME Reading' PROVE SlotInv'
  BY DEF SlotInv
<1>a. CASE ~Reading
  <2> SUFFICES ASSUME NEW i \in Slots PROVE ~(Offset(i)' < Fill' + Landed')
    BY DEF SlotInv
  <2>1. Fill' + Landed' = 0 + 0
    BY <1>a, EdgeBegins
  <2>2. Offset(i)' = i - 0
    BY <1>a, Sizes, EdgeBegins DEF Offset, Slots
  <2> QED
    BY <2>1, <2>2, Sizes DEF Slots
<1>b. CASE Reading
  <2>1. Given' = Given /\ mem' = mem /\ addr_rd' = addr_rd
    BY <1>b, EdgeRing, EdgeKeeps
  <2>2. \A i \in Slots : Offset(i)' = Offset(i)
    BY <2>1 DEF Offset
  <2>3. Fill' + Landed' = Fill + Landed
    <3>1. CASE Published
      <4>1. Fill' + Landed' = (Fill + awlen + 1) + 0
        BY <1>b, <3>1, EdgeRing, EdgeFlow
      <4>2. Landed = awlen + 1
        BY <3>1, EdgeFlow
      <4>3. (Fill + awlen + 1) + 0 = Fill + Landed
        BY <1>b, <4>2, FillNumbers, BurstNumbers
      <4> QED
        BY <4>1, <4>3
    <3>2. CASE ~Published
      BY <1>b, <3>2, EdgeRing, EdgeFlow
    <3> QED
      BY <3>1, <3>2
  <2> QED
    BY <1>b, <2>1, <2>2, <2>3 DEF IInv, SlotInv
<1> QED
  BY <1>a, <1>b

LEMMA ClockStep == ASSUME IInv, Clock PROVE IInv'
<1> SUFFICES ASSUME NEW push \in BOOLEAN, NEW rx_quiet \in BOOLEAN,
                    NEW align_done \in BOOLEAN,
                    ClockEdge(push, rx_quiet, align_done)
             PROVE  IInv'
  BY DEF Clock
<1>1. CASE rst
  BY <1>1, EdgeInReset
<1>2. CASE ~rst
  <2>1. TypeOK' /\ PortInv' /\ CtrlInv'
    BY <1>2, EdgeTypes, EdgePortInv, EdgeCtrlInv
  <2>2. FifoInv' /\ BackedInv' /\ FifoOrder'
    BY <1>2, EdgeFifoInv, EdgeBackedInv, EdgeFifoOrder
  <2>3. DrainInv' /\ PointerInv' /\ AlignInv'
    BY <1>2, EdgeDrainInv, EdgePointerInv, EdgeAlignInv
  <2>4. SlotInv' /\ BurstInv' /\ BurstOrder'
    BY <1>2, EdgeSlotInv, EdgeBurstInv, EdgeBurstOrder
  <2>5. TakenInOrder'
    BY EdgeKeeps DEF IInv, TakenInOrder
  <2> QED
    BY <2>1, <2>2, <2>3, <2>4, <2>5 DEF IInv
<1> QED
  BY <1>1, <1>2

LEMMA StutterStep == ASSUME IInv, UNCHANGED vars PROVE IInv'
<1> USE DEF vars, mwVars, ctVars, regVars, fifoVars, axiVars, swVars
<1>1. TypeOK' /\ PortInv'
  BY DEF IInv, TypeOK, PortInv, Bursting
<1>2. CtrlInv'
  BY DEF IInv, CtrlInv, StartInv, ShutdownInv, Reading, Flushed, Loop
<1>3. FifoInv' /\ BackedInv' /\ FifoOrder'
  BY DEF IInv, FifoInv, BackedInv, FifoOrder, Reading, Transferred, Bursting
<1>4. DrainInv' /\ PointerInv' /\ AlignInv'
  BY DEF IInv, DrainInv, PointerInv, AlignInv, Reading, Flushed, Draining, Loop,
     Given, Fill, Advance
<1>5. SlotInv' /\ BurstInv' /\ BurstOrder' /\ TakenInOrder'
  BY DEF IInv, SlotInv, BurstInv, BurstOrder, TakenInOrder, Reading, Given, Offset,
     Fill, Landed, Transferred, Bursting
<1> QED
  BY <1>1, <1>2, <1>3, <1>4, <1>5 DEF IInv

LEMMA NextStep == ASSUME IInv, [Next]_vars PROVE IInv'
<1>1. CASE Clock
  BY <1>1, ClockStep
<1>2. CASE Memory
  BY <1>2, AcceptAddrStep, AcceptDataStep, StoreStep, RespondStep DEF Memory
<1>3. CASE Software
  BY <1>3, ConfigureStep, StartStep, StopStep, SampleStep, ReadStep, GiveBackStep,
     FinishStep, ResetStep, ReleaseStep DEF Software
<1>4. CASE UNCHANGED vars
  BY <1>4, StutterStep
<1> QED
  BY <1>1, <1>2, <1>3, <1>4 DEF Next

(* The inductive invariant holds in every reachable state.                 *)
THEOREM RingInvariant == Spec => []IInv
<1>1. Init => IInv
  BY InitIInv
<1>2. IInv /\ [Next]_vars => IInv'
  BY NextStep
<1> QED
  BY <1>1, <1>2, PTL DEF Spec

-----------------------------------------------------------------------------
(***************************************************************************)
(* The theorems.                                                           *)
(***************************************************************************)

(* Every variable keeps its type: the pointers, the addresses and the      *)
(* counters of nt_recv_capture_mem_write.v stay inside the ring and the    *)
(* burst, and no computation of them overflows.                            *)
THEOREM RingTypes == Spec => []TypeOK
<1>1. IInv => TypeOK
  BY DEF IInv
<1> QED
  BY <1>1, RingInvariant, PTL

(* Software reads what was captured, in order, each beat once: a beat that *)
(* is read has reached the memory, and the core has not reused its slot.   *)
THEOREM CapturedOrder == Spec => []TakenInOrder
<1>1. IInv => TakenInOrder
  BY DEF IInv
<1> QED
  BY <1>1, RingInvariant, PTL

(* The lengths that WAIT_FIFO computes never make the writer read an empty *)
(* FIFO, and no burst runs over the end of the ring.                       *)
THEOREM BurstsAreBacked == Spec => []BurstIsBacked
<1>1. IInv => BurstIsBacked
  <2> SUFFICES ASSUME IInv, mw_state \in {"WRITE_REQ", "WRITE"}
               PROVE  /\ addr_wr + awlen < RingSize
                      /\ Len(fifo) >= IF mw_state = "WRITE" THEN awlen - beats_cntr + 1
                                                            ELSE awlen + 1
    BY DEF BurstIsBacked
  <2>1. addr_wr + awlen < RingSize
    BY BurstBeforeEnd
  <2>2. mw_state = "WRITE" => Len(fifo) >= awlen - beats_cntr + 1
    <3>1. mw_state = "WRITE" => Len(fifo) >= w_left /\ w_left = awlen + 1 - beats_cntr
      BY DEF IInv, BackedInv, PortInv
    <3> QED
      BY <3>1, Lengths, BurstNumbers
  <2>3. mw_state = "WRITE_REQ" => Len(fifo) >= awlen + 1
    BY DEF IInv, BackedInv
  <2> QED
    BY <2>1, <2>2, <2>3
<1> QED
  BY <1>1, RingInvariant, PTL

(* The two pointers are enough for software to tell what it may read:      *)
(* equal pointers are an empty ring, never a full one.                     *)
THEOREM PointersSound == Spec => []PointersTellFill
<1>1. IInv => PointersTellFill
  BY DEF IInv, PointerInv, PointersTellFill, Given, Fill, Reading
<1> QED
  BY <1>1, RingInvariant, PTL

-----------------------------------------------------------------------------
(***************************************************************************)
(* The refinement of CaptureStream.  Configuring prepares, starting        *)
(* starts, a response that moves the write pointer publishes, a read       *)
(* takes, and the clock edge that brings both machines to rest ends the    *)
(* capture.                                                                *)
(***************************************************************************)
LEMMA StreamInit == Init => Stream!Init
BY DEF Init, MemWriteInit, CtrlInit, Busy, Stream!Init

LEMMA StreamRead == ASSUME IInv, SwRead PROVE Stream!Take
<1>0. sw = "read" /\ Reading
  BY DEF SwRead, Reading
<1>1. chunk \in 1 .. published - Len(got)
  <2>1. chunk > 0 /\ Len(got) + chunk <= published
    BY <1>0 DEF IInv, PointerInv
  <2> QED
    BY <2>1, Counts, Lengths
<1>2. got' = got \o [i \in 1 .. chunk |-> mem[addr_rd + i - 1]]
  BY DEF SwRead
<1>3. ASSUME NEW i \in 1 .. chunk PROVE mem[addr_rd + i - 1] = Len(got) + i - 1
  BY <1>0, BeatsToRead
<1>4. [i \in 1 .. chunk |-> mem[addr_rd + i - 1]] = [i \in 1 .. chunk |-> Len(got) + i - 1]
  BY <1>3
<1>5. UNCHANGED <<Busy, total, published>>
  BY DEF SwRead, Busy, regVars, ctVars, mwVars, fifoVars
<1> QED
  BY <1>1, <1>2, <1>4, <1>5 DEF Stream!Take

LEMMA StreamClock == ASSUME IInv, Clock PROVE [Stream!Next]_Stream!csVars
<1> SUFFICES ASSUME NEW push \in BOOLEAN, NEW rx_quiet \in BOOLEAN,
                    NEW align_done \in BOOLEAN,
                    ClockEdge(push, rx_quiet, align_done)
             PROVE  [Stream!Next]_Stream!csVars
  BY DEF Clock
<1>0. UNCHANGED <<ctrl_active, rst, total, got>>
  BY EdgeKeeps
<1>1. CASE rst
  <2>1. ~Busy /\ ~Busy'
    BY <1>0, <1>1 DEF Busy
  <2>2. published' = published
    <3>1. mw_state # "WAIT_WRITE_RESP"
      BY <1>1 DEF IInv, CtrlInv, Reading
    <3> QED
      BY <3>1 DEF ClockEdge
  <2> QED
    BY <1>0, <2>1, <2>2 DEF Busy, Stream!csVars
<1>2. CASE ~rst /\ Published
  <2>1. Reading
    BY <1>2 DEF IInv, CtrlInv, Published
  <2>2. Busy /\ Busy'
    <3>1. mw_state = "WAIT_WRITE_RESP" /\ mw_state' = "WAIT_RING_BUFF"
      BY <1>2, WriterGoes DEF Published
    <3> QED
      BY <1>0, <1>2, <3>1 DEF Busy
  <2>3. /\ published' = published + awlen + 1 /\ Transferred = awlen + 1
        /\ Fill' = Fill + awlen + 1 /\ Given' = Given
    BY <1>2, <2>1, EdgeFlow, EdgeRing
  <2>4. published + awlen + 1 > published /\ published + awlen + 1 <= total
    <3>1. fed = published + Transferred + Len(fifo) /\ fed <= total
      BY <2>1 DEF IInv, FifoInv
    <3>2. published + awlen + 1 = published + Transferred /\ Transferred \in Nat
      BY <2>3, Counts, BurstNumbers
    <3>3. published + Transferred <= total
      BY <3>1, <3>2, Counts, Lengths
    <3> QED
      BY <3>2, <3>3, Counts, BurstNumbers
  <2>5. (published + awlen + 1) - Len(got) < RingSize
    <3>1. mw_state = "WAIT_WRITE_RESP"
      BY <1>2 DEF Published
    <3>2. Fill + BurstLen < RingSize
      BY <2>1, <3>1, Room DEF Bursting
    <3>3. published = Given + Fill /\ Given \in Nat /\ Fill \in Nat
      BY <2>1, FillNumbers
    <3>4. Given <= Len(got)
      BY Counts, Lengths DEF Given
    <3> QED
      BY <3>2, <3>3, <3>4, BurstNumbers, Lengths, Sizes
  <2> QED
    BY <1>0, <2>2, <2>3, <2>4, <2>5 DEF Stream!Publish, Stream!Next
<1>3. CASE ~rst /\ ~Published
  <2>1. published' = published
    BY <1>3, EdgeFlow
  <2>2. CASE ~Busy
    <3>1. ~ctrl_active /\ ct_state = "IDLE" /\ mw_state \in {"RST", "INACTIVE"}
      BY <1>3, <2>2 DEF Busy
    <3>2. ~ct.mem /\ ~ct.flush
      BY <1>3, <3>1 DEF IInv, CtrlInv
    <3>3. ct_state' = "IDLE" /\ mw_state' = "INACTIVE"
      BY <1>3, <3>1, <3>2, ControlGoes, WriterGoes
    <3>4. ~Busy'
      BY <1>0, <3>1, <3>3 DEF Busy
    <3> QED
      BY <1>0, <2>1, <2>2, <3>4 DEF Busy, Stream!csVars
  <2>3. CASE Busy /\ Busy'
    BY <1>0, <2>1, <2>3 DEF Busy, Stream!csVars
  <2>4. CASE Busy /\ ~Busy'
    <3>1. ~ctrl_active' /\ ct_state' = "IDLE" /\ mw_state' \in {"RST", "INACTIVE"}
      BY <1>0, <1>3, <2>4 DEF Busy
    <3>2. CtrlInv /\ ct_state \in CtStates
          /\ sw \in {"idle", "configured", "started", "poll", "read", "release", "reset"}
      BY DEF IInv, TypeOK
    <3>3. ~ctrl_active
      BY <1>0, <3>1
    <3>4. sw # "started"
      BY <1>3, <3>1, <3>2, <3>3, ControlGoes DEF CtrlInv, StartInv
    <3>5. sw \notin {"idle", "configured", "reset"}
      BY <1>3, <2>4, <3>2 DEF CtrlInv, Busy
    <3>6. Reading /\ Reading'
      <4>1. Reading
        BY <3>2, <3>4, <3>5 DEF Reading
      <4> QED
        BY <1>3, <4>1, EdgeRuns
    <3>7. ShutdownInv' /\ DrainInv'
      BY <1>3, EdgeCtrlInv, EdgeDrainInv DEF CtrlInv
    <3>8. Flushed' /\ ~flush' /\ mw_state' = "INACTIVE"
      BY <3>1, <3>6, <3>7 DEF Flushed, ShutdownInv, Loop
    <3>9. published' = total'
      BY <3>6, <3>7, <3>8 DEF DrainInv
    <3> QED
      BY <1>0, <2>1, <2>4, <3>9 DEF Stream!End, Stream!Next
  <2> QED
    BY <2>2, <2>3, <2>4
<1> QED
  BY <1>1, <1>2, <1>3

LEMMA StreamSoftware == ASSUME IInv, Software PROVE [Stream!Next]_Stream!csVars
<1> USE DEF mwVars, ctVars, regVars, fifoVars, axiVars, swVars
<1>0. CtrlInv
  BY DEF IInv
<1>1. CASE SwConfigure
  <2>1. ~Busy /\ Busy' = Busy
    BY <1>0, <1>1 DEF SwConfigure, CtrlInv, Busy
  <2> QED
    BY <1>1, <2>1 DEF SwConfigure, Stream!Prepare, Stream!Next
<1>2. CASE SwStart
  <2>1. ~Busy /\ Busy'
    BY <1>0, <1>2 DEF SwStart, CtrlInv, Busy
  <2>2. published = 0
    BY <1>2 DEF SwStart, IInv, FifoInv
  <2> QED
    BY <1>2, <2>1, <2>2 DEF SwStart, Stream!Start, Stream!Next
<1>3. CASE SwStop
  <2>1. Busy' <=> Busy
    BY <1>3 DEF SwStop, Busy
  <2>2. Busy' = Busy
    BY <2>1 DEF Busy
  <2> QED
    BY <1>3, <2>2 DEF SwStop, Stream!csVars
<1>4. CASE SwSample
  BY <1>4 DEF SwSample, Busy, Stream!csVars
<1>5. CASE SwRead
  BY <1>5, StreamRead DEF Stream!Next
<1>6. CASE SwGiveBack
  BY <1>6 DEF SwGiveBack, Busy, Stream!csVars
<1>7. CASE SwFinish
  BY <1>7 DEF SwFinish, Busy, Stream!csVars
<1>8. CASE SwReset
  <2>1. ~Busy'
    BY <1>8 DEF SwReset, Busy
  <2> QED
    BY <1>8, <2>1 DEF SwReset, Busy, Stream!Reset, Stream!Next
<1>9. CASE SwRelease
  <2>1. ~Busy /\ ~Busy'
    BY <1>9 DEF SwRelease, Busy
  <2> QED
    BY <1>9, <2>1 DEF SwRelease, Busy, Stream!csVars
<1> QED
  BY <1>1, <1>2, <1>3, <1>4, <1>5, <1>6, <1>7, <1>8, <1>9 DEF Software

(* The path implements the abstract stream: beats are published and taken  *)
(* in order, each once, never more than the ring holds with a slot to      *)
(* spare; and a capture ends only when all of its beats are published, so  *)
(* that the shutdown sequence of nt_recv_capture_ctrl.v loses nothing.     *)
THEOREM RingImplementsStream == Spec => StreamSpec
<1>1. Init => Stream!Init
  BY StreamInit
<1>2. IInv /\ [Next]_vars => [Stream!Next]_Stream!csVars
  <2> SUFFICES ASSUME IInv, [Next]_vars PROVE [Stream!Next]_Stream!csVars
    OBVIOUS
  <2>1. CASE Clock
    BY <2>1, StreamClock
  <2>2. CASE Software
    BY <2>2, StreamSoftware
  <2>3. CASE Memory
    BY <2>3 DEF Memory, AxiAcceptAddr, AxiAcceptData, AxiStore, AxiRespond, Busy,
       Stream!csVars, mwVars, ctVars, regVars, fifoVars, swVars
  <2>4. CASE UNCHANGED vars
    BY <2>4 DEF vars, Busy, Stream!csVars, mwVars, ctVars, regVars, fifoVars, swVars
  <2> QED
    BY <2>1, <2>2, <2>3, <2>4 DEF Next
<1> QED
  BY <1>1, <1>2, RingInvariant, PTL DEF Spec, StreamSpec, Stream!Spec
=============================================================================
