--------------------------- MODULE CaptureReceive ---------------------------
(***************************************************************************)
(* The receiving side of the capture core, as nt_recv_capture_top.v wires  *)
(* it: the receiver, its two FIFOs, the merge module and the wrapper that  *)
(* fills the memory writer's FIFO, started and stopped by the control FSM. *)
(*                                                                         *)
(* The memory writer, which CaptureRing models, takes whole beats out of   *)
(* its FIFO at any pace and shows the control FSM any flags.  The network  *)
(* sends packets at any pace, but never waits: tready is always high.      *)
(***************************************************************************)
EXTENDS CaptureRx, CaptureCtrl, SequencesExt

CONSTANTS
  PktLens,      (* the lengths in bytes of the packets that will arrive    *)
  MaxLens,      (* values software may write to max_len_capture            *)
  FifoDepth,    (* words in the data FIFO and in the meta data FIFO: 256   *)
  WriteDepth,   (* words in the memory writer's FIFO: 8192                 *)
  FwftLatency   (* clock edges from a push into an empty FIFO until its    *)
                (* empty flag falls, beyond the edge of the push           *)

(* A packet is longer than a word: an Ethernet frame has 60 bytes or more. *)
ASSUME ReceiveAssumption ==
  /\ PktLens \in Seq(Nat \ {0})
  /\ \A p \in DOMAIN PktLens : PktLens[p] > WordBytes
  /\ MaxLens \subseteq Nat
  /\ FifoDepth \in Nat \ {0}
  /\ WriteDepth \in Nat \ {0}
  /\ WriteDepth % WordsPerBeat = 0
  /\ FwftLatency \in 0 .. 2

VARIABLES
  ctrl_active, max_len, rst,   (* registers                                *)
  pkt, sent,                   (* the packet on the stream, and its words  *)
                               (* that have arrived                        *)
  meta_fifo, data_fifo,        (* each a record [q, near, shown]: content, *)
                               (* and how much of it is about to be, and   *)
                               (* is, on the output side                   *)
  stored,                      (* the words written to the memory writer's *)
                               (* FIFO in this capture                     *)
  drained,                     (* how many of them were read out           *)
  sw,                          (* where software is in its protocol        *)
  unnoticed                    (* history: something went wrong since the  *)
                               (* last reset, and no status flag tells     *)

ctlVars  == <<ctrl_active, max_len, rst, sw>>
netVars  == <<pkt, sent>>
fifoVars == <<meta_fifo, data_fifo, stored, drained>>
vars == <<rxVars, mgVars, ctVars, ctlVars, netVars, fifoVars, unnoticed>>

(* A word is part of the data of a packet, its meta data, or padding.      *)
Item(kind, p, val) == [kind |-> kind, pkt |-> p, val |-> val]
Padding   == Item("padding", 0, 0)
NoWord    == [tvalid |-> FALSE, tdata |-> Padding, tlast |-> FALSE, tkeep |-> 0,
              tuser |-> 0]
EmptyFifo == [q |-> <<>>, near |-> 0, shown |-> 0]

Init ==
  /\ RxInit(Padding) /\ MergeInit /\ CtrlInit
  /\ ctrl_active = FALSE /\ max_len \in MaxLens /\ rst = FALSE
  /\ pkt = 1 /\ sent = 0
  /\ meta_fifo = EmptyFifo /\ data_fifo = EmptyFifo
  /\ stored = <<>> /\ drained = 0
  /\ sw = "idle"
  /\ unnoticed = FALSE

-----------------------------------------------------------------------------
(***************************************************************************)
(* The network.                                                            *)
(***************************************************************************)
WireWords(p) == WordCount(PktLens[p])

NextWord ==
  LET last == sent + 1 = WireWords(pkt)
  IN  [tvalid |-> TRUE,
       tdata  |-> Item("data", pkt, sent + 1),
       tlast  |-> last,
       tkeep  |-> IF last THEN PktLens[pkt] - sent * WordBytes ELSE WordBytes,
       tuser  |-> IF last THEN pkt ELSE 0]

MayArrive == pkt <= Len(PktLens)

NetClock(arrives) ==
  IF ~arrives THEN UNCHANGED netVars
  ELSE IF sent + 1 = WireWords(pkt) THEN pkt' = pkt + 1 /\ sent' = 0
  ELSE sent' = sent + 1 /\ UNCHANGED pkt

(***************************************************************************)
(* The FIFOs.                                                              *)
(***************************************************************************)
Full(fifo)  == Len(fifo.q) = FifoDepth
Empty(fifo) == fifo.shown = 0

FifoStep(fifo, push, item, pop) ==
  LET rest == IF pop THEN Tail(fifo.q) ELSE fifo.q
      q    == IF push /\ ~Full(fifo) THEN Append(rest, item) ELSE rest
      near == Len(rest)
      late == IF pop THEN fifo.near - 1 ELSE fifo.near
  IN  [q |-> q,
       near |-> near,
       shown |-> CASE FwftLatency = 0 -> Len(q)
                   [] FwftLatency = 1 -> near
                   [] FwftLatency = 2 -> late]

write_full == Len(stored) - drained >= WriteDepth
take_meta  == TakeMeta(write_full, Empty(meta_fifo))
take_data  == TakeData(write_full, Empty(data_fifo))

(* The capture length stays behind when a record is written.               *)
MergedWord ==
  IF take_meta
  THEN Item("meta", Head(meta_fifo.q).tuser, Head(meta_fifo.q).len.wire)
  ELSE Head(data_fifo.q)

FifoClock(drain) ==
  IF rst
  THEN /\ meta_fifo' = EmptyFifo /\ data_fifo' = EmptyFifo
       /\ stored' = <<>> /\ drained' = 0
  ELSE /\ meta_fifo' = FifoStep(meta_fifo, rx_meta_o.wr, rx_meta_o, take_meta)
       /\ data_fifo' = FifoStep(data_fifo, rx_data.wr, rx_data.din, take_data)
       /\ stored' = IF Passes(take_meta \/ take_data) THEN Append(stored, MergedWord)
                    ELSE IF Pads THEN Append(stored, Padding) ELSE stored
       /\ drained' = IF drain THEN drained + WordsPerBeat ELSE drained

(***************************************************************************)
(* What no flag tells: a word is pushed into a full FIFO and the error     *)
(* state is not entered with it; a packet begins in the cycle in which     *)
(* recording is switched on; and, with software, a capture is stopped      *)
(* before it records or started to capture no byte of a packet.            *)
(***************************************************************************)
LostUnseen ==
  \/ rx_data.wr /\ Full(data_fifo) /\ rx_state # "ERR"
  \/ rx_meta_o.wr /\ Full(meta_fifo) /\ meta_state # "ERR"

BeginsUnseen(arrives) ==
  arrives /\ sent = 0 /\ rx_state = "START" /\ ~s_axis_active

Note(slip) == unnoticed' = (unnoticed \/ slip)

(* One edge of clk.  drain: the memory writer reads a beat.                *)
ClockEdge(arrives, drain, prog_empty, mw_busy) ==
  LET w == IF arrives THEN NextWord ELSE NoWord
      quiet == ~rx_active /\ Empty(meta_fifo) /\ Empty(data_fifo)
  IN  /\ arrives => MayArrive
      /\ drain => Len(stored) - drained >= WordsPerBeat
      /\ NetClock(arrives)
      /\ RxClock(rst, ct.rx, max_len, w, Full(data_fifo), Full(meta_fifo))
      /\ FifoClock(drain)
      /\ MergeClock(rst, take_meta, take_data,
                    IF take_meta THEN Head(meta_fifo.q).len.capture ELSE 0)
      /\ WrapperClock(rst, take_meta \/ take_data, ct.align)
      /\ CtrlClock(rst, ctrl_active, quiet, align_done, prog_empty, mw_busy)
      /\ Note(LostUnseen \/ BeginsUnseen(arrives))
      /\ UNCHANGED ctlVars

Clock == \E arrives, drain, prog_empty, mw_busy \in BOOLEAN :
           ClockEdge(arrives, drain, prog_empty, mw_busy)

-----------------------------------------------------------------------------
(***************************************************************************)
(* Software.                                                               *)
(***************************************************************************)
SwConfigure ==
  /\ sw = "idle"
  /\ max_len' \in MaxLens
  /\ stored' = SubSeq(stored, drained + 1, Len(stored))
  /\ drained' = 0
  /\ sw' = "configured"
  /\ UNCHANGED <<rxVars, mgVars, ctVars, ctrl_active, rst, netVars, meta_fifo,
                 data_fifo, unnoticed>>

SwStart ==
  /\ sw = "configured"
  /\ ctrl_active' = TRUE
  /\ sw' = "capture"
  /\ Note(max_len = 0)
  /\ UNCHANGED <<rxVars, mgVars, ctVars, max_len, rst, netVars, fifoVars>>

(* More than one clock edge after the start.                               *)
SwStop ==
  /\ ctrl_active
  /\ ct_state # "IDLE" \/ rst
  /\ ctrl_active' = FALSE
  /\ Note(~(rst \/ rx_active \/ rx_state = "ERR"))
  /\ UNCHANGED <<rxVars, mgVars, ctVars, max_len, rst, sw, netVars, fifoVars>>

(* The core was stopped and is inactive, and everything was read.          *)
SwFinish ==
  /\ sw = "capture"
  /\ ~ctrl_active
  /\ ct_state = "IDLE"
  /\ Len(stored) = drained
  /\ sw' = "idle"
  /\ UNCHANGED <<rxVars, mgVars, ctVars, ctrl_active, max_len, rst, netVars,
                 fifoVars, unnoticed>>

(* A reset forgets that a packet is under way; it is assumed to begin and  *)
(* to end between packets.                                                 *)
SwReset ==
  /\ ~rst
  /\ sent = 0
  /\ rst' = TRUE
  /\ sw' = "reset"
  /\ UNCHANGED <<rxVars, mgVars, ctVars, ctrl_active, max_len, netVars,
                 fifoVars, unnoticed>>

SwRelease ==
  /\ rst
  /\ sent = 0
  /\ ~ctrl_active
  /\ rx_state = "RST" /\ wr_state = "RST" /\ ct_state = "IDLE"
  /\ ct = Outputs("IDLE")
  /\ ~rx_meta.wr /\ ~rx_meta_o.wr /\ ~rx_data.wr
  /\ rst' = FALSE
  /\ sw' = "idle"
  /\ unnoticed' = FALSE
  /\ UNCHANGED <<rxVars, mgVars, ctVars, ctrl_active, max_len, netVars,
                 fifoVars>>

Next == \/ Clock
        \/ SwConfigure \/ SwStart \/ SwStop \/ SwFinish \/ SwReset \/ SwRelease

Spec == Init /\ [][Next]_vars

(* The clock runs, a packet that has begun to arrive arrives completely,   *)
(* the memory writer goes on reading and at last shows that it is done.    *)
Fairness ==
  /\ WF_vars(Clock)
  /\ WF_vars(sent > 0 /\ \E d, e, b \in BOOLEAN : ClockEdge(TRUE, d, e, b))
  /\ WF_vars(\E a, e, b \in BOOLEAN : ClockEdge(a, TRUE, e, b))
  /\ WF_vars(\E a, d, b \in BOOLEAN : ClockEdge(a, d, TRUE, b))
  /\ WF_vars(\E a, d, e \in BOOLEAN : ClockEdge(a, d, e, FALSE))

FairSpec == Spec /\ Fairness

-----------------------------------------------------------------------------
(* The record of a packet in the memory, and those of packets from f on.   *)
DataWords(p) ==
  WordCount(IF PktLens[p] < max_len THEN PktLens[p] ELSE max_len)

RecordOf(p) == <<Item("meta", p, PktLens[p])>>
               \o [i \in 1 .. DataWords(p) |-> Item("data", p, i)]

Records(f, n) == FlattenSeq([i \in 1 .. n |-> RecordOf(f + i - 1)])

(* What was written, without the padding that follows it.                  *)
Content ==
  SubSeq(stored, 1, Max({0} \cup {i \in 1 .. Len(stored) : stored[i] # Padding}))

(* An error flag is up, or about to be.                                    *)
Failed == rx_state = "ERR" \/ meta_state = "ERR"

(* What is written for the memory is a sequence of records of consecutive  *)
(* packets, each with its meta data, its wire length and exactly its first *)
(* max_len bytes, and only the last may still be incomplete.  Padding      *)
(* follows the records and, unless words were lost, tears none apart.      *)
(* (Receiver, two FIFOs and merge module agree on the number of words of   *)
(* every packet, whenever a capture starts, stops or meets a full FIFO, as *)
(* long as none of what no flag tells has happened since the reset.)       *)
RecordsAreWhole ==
  ~unnoticed =>
    /\ Content = <<>> \/ LET f == Content[1].pkt
                         IN  IsPrefix(Content, Records(f, Len(PktLens) - f + 1))
    /\ Len(Content) < Len(stored) /\ ~Failed =>
         \E f \in 1 .. Len(PktLens) : \E n \in 0 .. Len(PktLens) - f + 1 :
           Content = Records(f, n)

(* Once the alignment is done, nothing is on its way any more: no word is  *)
(* left in a FIFO or a register, all packets that were counted are         *)
(* written, and they fill whole beats.  (The control FSM judges this by    *)
(* flags that lag in different ways; what came later would be lost in the  *)
(* padding or left to the next capture.)                                   *)
AlignedMeansComplete ==
  /\ ct_state \in {"WAIT_EMPTY", "MEM_DISABLE", "FLUSH", "WAIT_FLUSH1", "WAIT_FLUSH2"}
  /\ ~rst
  /\ ~Failed /\ ~unnoticed
  => /\ Len(stored) % WordsPerBeat = 0
     /\ data_fifo.q = <<>> /\ meta_fifo.q = <<>>
     /\ mg_state = "META"
     /\ ~rx_data.wr /\ ~rx_meta.wr /\ ~rx_meta_o.wr
     /\ pkt_cnt = Cardinality({i \in DOMAIN stored : stored[i].kind = "meta"})

(* A stopped capture comes to its end, unless words were lost or one of    *)
(* the things happened that no flag tells: then it may wait for a reset    *)
(* (the control FSM's wait for the receiver, for two FIFOs and for the     *)
(* alignment, against packets that go on arriving).                        *)
StopCompletes ==
  sw = "capture" /\ ~ctrl_active ~> \/ sw = "reset" \/ ct_state = "IDLE"
                                     \/ Failed \/ unnoticed
=============================================================================
