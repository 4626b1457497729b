------------------------ MODULE CaptureReceiveProofs ------------------------
(***************************************************************************)
(* Proofs about CaptureReceive, for every size of words, beats and FIFOs,  *)
(* every latency of the FIFOs up to two, all packets and all capture       *)
(* lengths.  What they say of a capture is said while `unnoticed' is       *)
(* FALSE: since the last reset no word was lost without an error state, no *)
(* packet began in the cycle in which recording is switched on, no capture *)
(* was stopped before it recorded, and none had the length 0.              *)
(***************************************************************************)
EXTENDS CaptureReceive, FiniteSetTheorems, WellFoundedInduction, TLAPS

(***************************************************************************)
(* The inductive invariant: types and control.                             *)
(***************************************************************************)
RxStates == {"RST", "IDLE", "START", "RECORD", "ERR"}
CtStates == {"IDLE", "ACTIVE", "RX_DISABLE", "ALIGN", "WAIT_ALIGN",
             "WAIT_EMPTY", "MEM_DISABLE", "FLUSH", "WAIT_FLUSH1", "WAIT_FLUSH2"}
Stopped  == {"WAIT_EMPTY", "MEM_DISABLE", "FLUSH", "WAIT_FLUSH1", "WAIT_FLUSH2"}

ItemTypes == [kind : {"data", "meta", "padding"}, pkt : Nat, val : Nat]
LenTypes  == [capture : Nat, wire : Nat]
MetaTypes == [wr : BOOLEAN, tuser : Nat, len : LenTypes]
FifoTypes(S) == [q : Seq(S), near : Int, shown : Int]

RxTypeOK ==
  /\ s_axis_active \in BOOLEAN /\ rx_state \in RxStates
  /\ rx_len \in LenTypes /\ rx_meta \in MetaTypes
  /\ rx_data \in [wr : BOOLEAN, din : ItemTypes]
  /\ pkt_cnt \in Nat
  /\ meta_state \in {"ACTIVE", "ERR"} /\ rx_meta_o \in MetaTypes
  /\ rx_active \in BOOLEAN

TypeOK ==
  /\ RxTypeOK
  /\ mg_state \in {"META", "DATA"} /\ mg_left \in Int
  /\ wr_state \in {"RST", "PASS_THROUGH", "ALIGN"}
  /\ wr_cntr \in 0 .. WordsPerBeat - 1 /\ align_done \in BOOLEAN
  /\ ct_state \in CtStates
  /\ ct \in [status : BOOLEAN, rx : BOOLEAN, mem : BOOLEAN, flush : BOOLEAN, align : BOOLEAN]
  /\ ctrl_active \in BOOLEAN /\ max_len \in MaxLens /\ rst \in BOOLEAN
  /\ pkt \in Nat \ {0} /\ sent \in Nat
  /\ meta_fifo \in FifoTypes(MetaTypes)
  /\ data_fifo \in FifoTypes(ItemTypes)
  /\ stored \in Seq(ItemTypes) /\ drained \in Nat
  /\ sw \in {"idle", "configured", "capture", "reset"}
  /\ unnoticed \in BOOLEAN

(* What the output side of a FIFO shows is in the FIFO.                    *)
FifoSane(fifo) ==
  /\ fifo.shown >= 0 /\ fifo.near >= 0
  /\ fifo.near <= Len(fifo.q) /\ fifo.shown <= Len(fifo.q)
  /\ FwftLatency = 2 => fifo.shown <= fifo.near

FifosSane == FifoSane(meta_fifo) /\ FifoSane(data_fifo)

(* The network: a packet under way has more words to come, and the         *)
(* receiver knows of it.                                                   *)
NetInv ==
  /\ pkt <= Len(PktLens) + 1
  /\ sent > 0 => pkt <= Len(PktLens) /\ sent < WireWords(pkt)
  /\ ~rst => (s_axis_active <=> sent > 0)

(* A reset leaves nothing behind.                                          *)
ResetInv ==
  /\ rst <=> sw = "reset"
  /\ wr_state = "RST" <=> rx_state = "RST"
  /\ rx_state = "RST" =>
       /\ ~s_axis_active
       /\ meta_fifo = EmptyFifo /\ data_fifo = EmptyFifo
       /\ stored = <<>> /\ drained = 0 /\ mg_state = "META" /\ ~rx_active
       /\ meta_state = "ACTIVE"
       /\ ~rst => /\ ~rx_data.wr /\ ~rx_meta.wr /\ ~rx_meta_o.wr
                  /\ ct_state = "IDLE" /\ ct = Outputs("IDLE")

(* The control FSM and its outputs, which are one edge behind.             *)
CtrlInv ==
  ~rst =>
    /\ ct.rx => ct_state \in {"ACTIVE", "RX_DISABLE"}
    /\ ct.align => ct_state = "WAIT_ALIGN"
    /\ ctrl_active => sw = "capture" /\ ct_state \in {"IDLE", "ACTIVE"}
    /\ sw \in {"idle", "configured"} => ct_state = "IDLE"

(* The receiver in the phases of a capture.                                *)
Recording == rx_state = "RECORD" /\ rx_active

PhaseInv ==
  ~rst /\ ~unnoticed =>
    /\ rx_state = "START" => ct_state = "ACTIVE" /\ ct.rx
    /\ ct_state = "ACTIVE" /\ ~ctrl_active => (ct.rx /\ Recording) \/ rx_state = "ERR"
    /\ ct_state = "RX_DISABLE" => Recording \/ rx_state \in {"IDLE", "ERR"}
    /\ ct_state = "RX_DISABLE" /\ ct.rx => Recording \/ rx_state = "ERR"
    /\ ct_state \notin {"ACTIVE", "RX_DISABLE"} \/ (ct_state = "ACTIVE" /\ ~ct.rx) =>
         ~rx_active /\ rx_state \in {"RST", "IDLE", "ERR"}
    /\ rx_state \in {"IDLE", "START"} => ~rx_data.wr /\ ~rx_meta.wr
    /\ ~rx_active /\ rx_state # "RECORD" => ~rx_data.wr /\ ~rx_meta.wr
    /\ rx_state = "START" => ~rx_active
    /\ rx_state \in {"IDLE", "START"} /\ ~rx_active => ~rx_meta_o.wr
    /\ ct_state = "ACTIVE" /\ rx_state = "IDLE" => ~rx_active

(* The wrapper is aligned once, and stays so.                              *)
AlignInv ==
  /\ wr_state # "RST" => Len(stored) % WordsPerBeat = wr_cntr
  /\ drained % WordsPerBeat = 0 /\ drained <= Len(stored)
  /\ align_done => wr_cntr = 0
  /\ ~rst =>
       /\ wr_state = "ALIGN" => ct_state = "WAIT_ALIGN" /\ ~ct.align
       /\ align_done => /\ wr_state # "ALIGN"
                        /\ \/ wr_state = "RST"
                           \/ ct_state \in {"WAIT_ALIGN", "WAIT_EMPTY"} /\ ~ct.align
       /\ ct_state = "WAIT_ALIGN" /\ ~ct.align => wr_state = "ALIGN" \/ align_done

(* Something of every packet is captured.                                  *)
LenInv == sw = "capture" /\ ~unnoticed => max_len # 0

Control == /\ TypeOK /\ FifosSane /\ NetInv /\ ResetInv /\ CtrlInv
           /\ PhaseInv /\ AlignInv /\ LenInv

-----------------------------------------------------------------------------
(***************************************************************************)
(* The inductive invariant: the order of the words.  A record is a word of *)
(* meta data and the data words of the packet; m is the capture length.    *)
(***************************************************************************)
Shorter(a, b) == IF a < b THEN a ELSE b
One(b)        == IF b THEN 1 ELSE 0

Meta(p)    == Item("meta", p, PktLens[p])
Data(p, v) == Item("data", p, v)

MetaOf(m, p) ==
  [wr |-> TRUE, tuser |-> p,
   len |-> [capture |-> Shorter(PktLens[p], m), wire |-> PktLens[p]]]

(* DataWords, for a capture length.                                        *)
Cut(m, p) == WordCount(Shorter(PktLens[p], m))

NextData(m, x) ==
  IF x.val < Cut(m, x.pkt) THEN Data(x.pkt, x.val + 1) ELSE Data(x.pkt + 1, 1)

(* The data word the receiver stores next, after n words of packet p.      *)
DataAfter(m, p, n) == IF n * WordBytes < m THEN Data(p, n + 1) ELSE Data(p + 1, 1)

(* Data words that follow each other, and the word that is due then.       *)
Earlier(x, y) == x.pkt < y.pkt \/ (x.pkt = y.pkt /\ x.val < y.val)

Linked(m, q, first) ==
  /\ q # <<>> => q[1] = first
  /\ \A i \in 1 .. Len(q) - 1 : q[i + 1] = NextData(m, q[i])
  /\ \A i, j \in 1 .. Len(q) : i < j => Earlier(q[i], q[j])

Due(m, q, first) == IF q = <<>> THEN first ELSE NextData(m, q[Len(q)])

DataWord(m, x, rp) ==
  /\ x.kind = "data" /\ x.pkt \in 1 .. Len(PktLens) /\ x.pkt <= rp
  /\ x.val \in 1 .. Cut(m, x.pkt)

(* Nothing is on its way to the memory writer's FIFO.                      *)
NoMetas == meta_fifo.q = <<>> /\ ~rx_meta_o.wr /\ ~rx_meta.wr
Rest    == NoMetas /\ data_fifo.q = <<>> /\ ~rx_data.wr /\ mg_state = "META"

(* Words were lost, and nothing moves any more until a reset: there is no  *)
(* record to begin with, or no word to go on with.                         *)
Dead ==
  /\ rx_state = "ERR"
  /\ \/ mg_state = "META" /\ NoMetas
     \/ mg_state = "DATA" /\ data_fifo.q = <<>> /\ ~rx_data.wr

(* mp: the packet whose record is written, or comes next; rp: the packet   *)
(* that is received, or comes next.  The words of the packet that have     *)
(* left the FIFO, the first word in it, and the first meta data in its.    *)
Gone(m, mp, state, left)  == IF state = "DATA" THEN Cut(m, mp) - left ELSE 0
First(m, mp, state, left) == Data(mp, Gone(m, mp, state, left) + 1)
Base(mp, state)           == mp + One(state = "DATA")

DataDue(mp)  == Due(max_len, data_fifo.q, First(max_len, mp, mg_state, mg_left))
DataNext(mp) == IF rx_data.wr THEN NextData(max_len, rx_data.din) ELSE DataDue(mp)

RangeInv(mp, rp) ==
  /\ mp \in Nat \ {0} /\ rp \in Nat /\ mp <= rp /\ rp <= pkt
  /\ mg_state = "DATA" => mp < rp /\ mg_left \in 1 .. Cut(max_len, mp)

DataChain(mp, rp) ==
  /\ Linked(max_len, data_fifo.q, First(max_len, mp, mg_state, mg_left))
  /\ \A i \in 1 .. Len(data_fifo.q) : DataWord(max_len, data_fifo.q[i], rp)
  /\ rx_data.wr => rx_data.din = DataDue(mp) /\ DataWord(max_len, rx_data.din, rp)

MetaEnd(mp) == Base(mp, mg_state) + Len(meta_fifo.q)

MetaChain(mp, rp) ==
  /\ meta_state = "ACTIVE" => MetaEnd(mp) + One(rx_meta_o.wr) + One(rx_meta.wr) = rp
  /\ MetaEnd(mp) + One(rx_meta_o.wr) + One(rx_meta.wr) <= rp
  /\ \A i \in 1 .. Len(meta_fifo.q) :
       meta_fifo.q[i] = MetaOf(max_len, Base(mp, mg_state) + i - 1)
  /\ rx_meta_o.wr => rx_meta_o = MetaOf(max_len, MetaEnd(mp))
  /\ rx_meta.wr /\ meta_state = "ACTIVE" =>
       rx_meta = MetaOf(max_len, MetaEnd(mp) + One(rx_meta_o.wr))
  /\ rx_meta.wr => rx_state \in {"RECORD", "ERR"}

(* The receiver goes on where the words before it end.                     *)
ReceiverInv(mp, rp) ==
  /\ rx_state = "RECORD" =>
       /\ rp = pkt /\ DataNext(mp) = DataAfter(max_len, pkt, sent)
       /\ rx_len = [capture |-> Shorter(sent * WordBytes, max_len),
                    wire |-> sent * WordBytes]
  /\ rx_state \in {"RST", "IDLE", "START"} => DataNext(mp) = Data(rp, 1)
  /\ DataNext(mp).pkt < rp => DataNext(mp).val >= 2

(* What is seen when: the first word of a packet that was received is      *)
(* shown before its meta data is, and before the receiver is inactive.     *)
FirstSeen(q, rp, level) ==
  \A i \in 1 .. Len(q) : q[i].val = 1 /\ q[i].pkt < rp => i <= level
AllSeen(q, p, level) ==
  \A i \in 1 .. Len(q) : q[i].pkt = p => i <= level

SeenInv(mp, rp) ==
  /\ rx_data.wr => /\ rx_data.din.val = 1 => rx_data.din.pkt = rp
                   /\ rx_data.din.pkt >= rp - One(rx_meta.wr)
  /\ rx_state # "RECORD" => FirstSeen(data_fifo.q, rp, data_fifo.near)
  /\ ~rx_active => FirstSeen(data_fifo.q, rp, data_fifo.shown)
  /\ \A k \in 1 .. meta_fifo.near :
       AllSeen(data_fifo.q, Base(mp, mg_state) + k - 1, data_fifo.near)
  /\ \A k \in 1 .. meta_fifo.shown :
       AllSeen(data_fifo.q, Base(mp, mg_state) + k - 1, data_fifo.shown)
  /\ mg_state = "DATA" => AllSeen(data_fifo.q, mp, data_fifo.shown)

(* The words of the records in their order, and the last word of a record. *)
Ends(m, x) == IF x.kind = "meta" THEN Cut(m, x.pkt) = 0 ELSE x.val = Cut(m, x.pkt)

Follower(m, x) ==
  IF Ends(m, x) THEN Meta(x.pkt + 1)
  ELSE IF x.kind = "meta" THEN Data(x.pkt, 1) ELSE Data(x.pkt, x.val + 1)

RecordWord(m, x) ==
  /\ x.pkt \in 1 .. Len(PktLens)
  /\ \/ x = Meta(x.pkt)
     \/ x.kind = "data" /\ x.val \in 1 .. Cut(m, x.pkt)

(* The first n words of what is written are those of records, and all that *)
(* follow are padding.                                                     *)
InOrder(m, s, n) ==
  /\ n \in 0 .. Len(s)
  /\ \A i \in 1 .. n : RecordWord(m, s[i])
  /\ \A i \in n + 1 .. Len(s) : s[i] = Padding
  /\ s # <<>> => s[1].kind = "meta"
  /\ \A i \in 1 .. n - 1 : s[i + 1] = Follower(m, s[i])

StoredInv ==
  \E n \in 0 .. Len(stored) :
    /\ InOrder(max_len, stored, n)
    /\ mg_state = "META" /\ n > 0 => Ends(max_len, stored[n])

(* What was written ends with the record before the next, or is the        *)
(* beginning of one.                                                       *)
WrittenInv(mp) ==
  /\ mg_state = "DATA" =>
       LET v == Gone(max_len, mp, mg_state, mg_left)
       IN  /\ stored # <<>>
           /\ stored[Len(stored)] = IF v = 0 THEN Meta(mp) ELSE Data(mp, v)
  /\ mg_state = "META" /\ stored # <<>> /\ stored[Len(stored)] # Padding =>
       stored[Len(stored)].pkt = mp - 1

Chain(mp, rp) ==
  /\ RangeInv(mp, rp) /\ DataChain(mp, rp) /\ MetaChain(mp, rp)
  /\ ReceiverInv(mp, rp) /\ SeenInv(mp, rp) /\ WrittenInv(mp)

(* The phases in which nothing is on its way, those before the first word  *)
(* and those in which there is no padding.                                 *)
Still == \/ ct_state \notin {"ACTIVE", "RX_DISABLE"} \/ rx_state \in {"RST", "START"}
         \/ ct_state = "ACTIVE" /\ rx_state = "IDLE"
Fresh == \/ sw = "configured"
         \/ ct_state = "IDLE" /\ ctrl_active
         \/ ct_state = "ACTIVE" /\ (~ct.rx \/ rx_state \in {"RST", "IDLE", "START"})
Unpadded == ct_state \in {"ACTIVE", "RX_DISABLE", "ALIGN"} \/ ct.align

StillInv ==
  /\ Still => Rest \/ Dead
  /\ Fresh => stored = <<>>
  /\ sw = "idle" => Len(stored) = drained
  /\ Unpadded => \A i \in 1 .. Len(stored) : stored[i] # Padding
  /\ ct_state \in Stopped => wr_cntr = 0

(* The packets that were counted.                                          *)
MetaCount(s) == Cardinality({i \in DOMAIN s : s[i].kind = "meta"})

CountInv ==
  ~Failed /\ (rx_state = "RECORD" \/ ct_state \notin {"IDLE", "ACTIVE"}) =>
    pkt_cnt = MetaCount(stored) + Len(meta_fifo.q) + One(rx_meta_o.wr) + One(rx_meta.wr)

Words ==
  /\ Dead \/ \E mp, rp \in 1 .. pkt : Chain(mp, rp)
  /\ StoredInv /\ StillInv /\ CountInv

IInv == Control /\ (~unnoticed => (rst /\ stored = <<>>) \/ Words)

-----------------------------------------------------------------------------
(***************************************************************************)
(* The words that hold a number of bytes.                                  *)
(***************************************************************************)
LEMMA Sizes ==
  /\ WordBytes \in Nat \ {0} /\ WordsPerBeat \in Nat \ {0}
  /\ FifoDepth \in Nat \ {0} /\ WriteDepth \in Nat \ {0}
  /\ FwftLatency \in {0, 1, 2} /\ MaxLens \subseteq Nat
  /\ PktLens \in Seq(Nat \ {0}) /\ Len(PktLens) \in Nat
BY RxAssumption, MergeAssumption, ReceiveAssumption

LEMMA Division ==
  ASSUME NEW b \in Nat \ {0}, NEW n \in Nat
  PROVE  /\ n = b * (n \div b) + (n % b) /\ n \div b \in Nat
         /\ n % b \in Nat /\ n % b < b
OBVIOUS

LEMMA Product ==
  ASSUME NEW b \in Nat \ {0}, NEW s \in Nat, NEW t \in Nat, s < t
  PROVE  s * b + b <= t * b
<1>1. (s + 1) * b <= t * b
  OBVIOUS
<1>2. (s + 1) * b = s * b + b
  OBVIOUS
<1> QED
  BY <1>1, <1>2

(* The number of words is the number that begins within the bytes.         *)
LEMMA WordsBegin ==
  ASSUME NEW n \in Nat
  PROVE  /\ WordCount(n) \in Nat
         /\ \A s \in Nat : s * WordBytes \in Nat /\ (s < WordCount(n) <=> s * WordBytes < n)
<1> DEFINE b == WordBytes  d == n \div b  r == n % b  w == WordCount(n)
<1>b. b \in Nat \ {0}
  BY Sizes
<1>1. /\ n = b * d + r /\ d \in Nat /\ r \in Nat /\ r < b
  BY <1>b, Division
<1>2. w = (IF r = 0 THEN d ELSE d + 1)
  BY DEF WordCount
<1> HIDE DEF b, d, r, w
<1>3. w \in Nat
  BY <1>1, <1>2
<1>4. ASSUME NEW s \in Nat PROVE s * b \in Nat /\ (s < w <=> s * b < n)
  <2>1. s * b \in Nat /\ b * d = d * b /\ d * b \in Nat
    BY <1>1, <1>b
  <2>2. CASE s < d
    <3>1. s * b + b <= d * b
      BY <2>2, <1>b, <1>1, Product
    <3> QED
      BY <3>1, <2>1, <2>2, <1>1, <1>2, <1>b
  <2>3. CASE s = d
    BY <2>3, <2>1, <1>1, <1>2
  <2>4. CASE d < s
    <3>1. d * b + b <= s * b
      BY <2>4, <1>b, <1>1, Product
    <3> QED
      BY <3>1, <2>1, <2>4, <1>1, <1>2, <1>b
  <2> QED
    BY <2>2, <2>3, <2>4, <1>1
<1> QED
  BY <1>3, <1>4 DEF b, w

(* The words of a packet on the stream.                                    *)
LEMMA Packet ==
  ASSUME NEW p \in 1 .. Len(PktLens)
  PROVE  PktLens[p] \in Nat \ {0} /\ WireWords(p) \in Nat
         /\ \A s \in Nat : s * WordBytes \in Nat
                           /\ (s < WireWords(p) <=> s * WordBytes < PktLens[p])
<1>1. PktLens[p] \in Nat \ {0}
  BY Sizes
<1> QED
  BY <1>1, WordsBegin DEF WireWords

LEMMA WireWordsMany ==
  ASSUME NEW p \in 1 .. Len(PktLens)
  PROVE  WireWords(p) >= 2
<1>0. DOMAIN PktLens = 1 .. Len(PktLens)
  BY Sizes
<1>1. PktLens[p] > WordBytes /\ 1 * WordBytes = WordBytes
  BY <1>0, Sizes, ReceiveAssumption
<1>2. 1 < WireWords(p)
  BY <1>1, Packet, Sizes
<1> QED
  BY <1>2, Packet

(* The words of a packet that are stored.                                  *)
LEMMA CutIs ==
  ASSUME NEW m \in Nat, NEW p \in 1 .. Len(PktLens)
  PROVE  Cut(m, p) \in Nat
         /\ \A s \in Nat : s * WordBytes \in Nat
              /\ (s < Cut(m, p) <=> s * WordBytes < PktLens[p] /\ s * WordBytes < m)
<1>1. PktLens[p] \in Nat \ {0}
  BY Packet
<1> DEFINE c == Shorter(PktLens[p], m)
<1>2. c \in Nat /\ \A k \in Nat : k < c <=> k < PktLens[p] /\ k < m
  BY <1>1 DEF Shorter
<1>3. /\ WordCount(c) \in Nat
      /\ \A s \in Nat : s * WordBytes \in Nat /\ (s < WordCount(c) <=> s * WordBytes < c)
  BY <1>2, WordsBegin
<1> HIDE DEF c
<1>4. Cut(m, p) = WordCount(c)
  BY DEF Cut, c
<1> QED
  BY <1>2, <1>3, <1>4

LEMMA CutSome ==
  ASSUME NEW m \in Nat \ {0}, NEW p \in 1 .. Len(PktLens)
  PROVE  Cut(m, p) \in Nat \ {0}
<1>1. Cut(m, p) \in Nat /\ (0 < Cut(m, p) <=> 0 * WordBytes < PktLens[p] /\ 0 * WordBytes < m)
  BY CutIs
<1>2. 0 * WordBytes = 0
  BY Sizes
<1>3. PktLens[p] \in Nat \ {0}
  BY Packet
<1>4. 0 < Cut(m, p)
  BY <1>1, <1>2, <1>3
<1> HIDE DEF Cut
<1> QED
  BY <1>1, <1>4

(* What the receiver stores of a packet, word by word: what it does not    *)
(* store changes nothing, and after a stored word it goes on with the next.*)
LEMMA ReceiveWord ==
  ASSUME NEW m \in Nat \ {0}, NEW p \in 1 .. Len(PktLens), NEW n \in Nat,
         n < WireWords(p)
  PROVE  LET x == Data(p, n + 1)
             last == n + 1 = WireWords(p)
             after == IF last THEN DataAfter(m, p + 1, 0) ELSE DataAfter(m, p, n + 1)
         IN  /\ n * WordBytes < m => /\ DataAfter(m, p, n) = x
                                     /\ NextData(m, x) = after
                                     /\ n + 1 \in 1 .. Cut(m, p)
             /\ ~(n * WordBytes < m) => DataAfter(m, p, n) = after
<1> DEFINE b == WordBytes  c == Cut(m, p)  w == WireWords(p)  l == PktLens[p]
<1>1. /\ c \in Nat /\ w \in Nat /\ l \in Nat
      /\ n * b \in Nat /\ (n + 1) * b \in Nat /\ b \in Nat \ {0}
      /\ n < c <=> n * b < l /\ n * b < m
      /\ n + 1 < c <=> (n + 1) * b < l /\ (n + 1) * b < m
      /\ n < w <=> n * b < l
      /\ n + 1 < w <=> (n + 1) * b < l
  <2>1. n + 1 \in Nat
    OBVIOUS
  <2> QED
    BY <2>1, CutIs, Packet, Sizes
<1>2. (n + 1) * b = n * b + b /\ 0 * b = 0
  BY <1>1
<1>3. /\ DataAfter(m, p, n) = IF n * b < m THEN Data(p, n + 1) ELSE Data(p + 1, 1)
      /\ DataAfter(m, p, n + 1) = IF (n + 1) * b < m THEN Data(p, n + 2) ELSE Data(p + 1, 1)
      /\ DataAfter(m, p + 1, 0) = Data(p + 1, 1)
      /\ NextData(m, Data(p, n + 1)) = IF n + 1 < c THEN Data(p, n + 2) ELSE Data(p + 1, 1)
  <2>1. n + 1 + 1 = n + 2 /\ 0 + 1 = 1
    OBVIOUS
  <2>2. Data(p, n + 1).val = n + 1 /\ Data(p, n + 1).pkt = p
    BY DEF Data, Item
  <2> QED
    BY <1>2, <2>1, <2>2 DEF DataAfter, NextData
<1> HIDE DEF b, c, w, l
<1>4. CASE n * b < m
  <2>1. n < c
    BY <1>1, <1>4 DEF w
  <2>2. n + 1 \in 1 .. c
    BY <2>1, <1>1
  <2>3. CASE n + 1 = w
    <3>1. ~(n + 1 < c)
      BY <2>3, <1>1
    <3> QED
      BY <3>1, <2>2, <2>3, <1>3, <1>4 DEF b, c, w
  <2>4. CASE n + 1 # w
    <3>1. n + 1 < w
      BY <2>4, <1>1 DEF w
    <3>2. n + 1 < c <=> (n + 1) * b < m
      BY <3>1, <1>1
    <3> QED
      BY <3>2, <2>2, <2>4, <1>3, <1>4 DEF b, c, w
  <2> QED
    BY <2>3, <2>4
<1>5. CASE ~(n * b < m)
  <2>1. ~((n + 1) * b < m)
    BY <1>1, <1>2, <1>5
  <2> QED
    BY <2>1, <1>3, <1>5 DEF b, w
<1> QED
  BY <1>4, <1>5 DEF b

-----------------------------------------------------------------------------
(***************************************************************************)
(* A FIFO at a clock edge.                                                 *)
(***************************************************************************)
LEMMA AppendIs ==
  ASSUME NEW S, NEW s \in Seq(S), NEW x \in S
  PROVE  /\ Append(s, x) \in Seq(S) /\ Len(Append(s, x)) = Len(s) + 1
         /\ \A i \in 1 .. Len(s) : Append(s, x)[i] = s[i]
         /\ Append(s, x)[Len(s) + 1] = x
OBVIOUS

LEMMA TailIs ==
  ASSUME NEW S, NEW s \in Seq(S), Len(s) > 0
  PROVE  /\ Tail(s) \in Seq(S) /\ Len(Tail(s)) = Len(s) - 1
         /\ \A i \in 1 .. Len(s) - 1 : Tail(s)[i] = s[i + 1]
<1>1. s # <<>>
  OBVIOUS
<1> QED
  BY <1>1

LEMMA EmptyIs ==
  ASSUME NEW S, NEW s \in Seq(S)
  PROVE  Len(s) \in Nat /\ (s = <<>> <=> Len(s) = 0)
OBVIOUS

(* What a FIFO holds and shows afterwards: the words that were in it but   *)
(* for the one that was taken, and the one that was written.               *)
FifoAfter(S, fifo, n, push, item, pop) ==
  LET k   == One(pop)
      got == push /\ ~Full(fifo)
  IN  /\ n \in FifoTypes(S) /\ FifoSane(n)
      /\ Len(n.q) = Len(fifo.q) - k + One(got)
      /\ \A i \in 1 .. Len(fifo.q) - k : n.q[i] = fifo.q[i + k]
      /\ got => n.q[Len(n.q)] = item
      /\ n.near = Len(fifo.q) - k
      /\ FwftLatency = 0 => n.shown = Len(n.q)
      /\ FwftLatency = 1 => n.shown = n.near
      /\ FwftLatency = 2 => n.shown = fifo.near - k

LEMMA FifoStepIs ==
  ASSUME NEW S, NEW fifo \in FifoTypes(S), FifoSane(fifo),
         NEW push \in BOOLEAN, NEW item \in S, NEW pop \in BOOLEAN,
         pop => ~Empty(fifo)
  PROVE  FifoAfter(S, fifo, FifoStep(fifo, push, item, pop), push, item, pop)
<1> DEFINE rest == IF pop THEN Tail(fifo.q) ELSE fifo.q
           got  == push /\ ~Full(fifo)
           q    == IF got THEN Append(rest, item) ELSE rest
           late == IF pop THEN fifo.near - 1 ELSE fifo.near
           k    == One(pop)
           n    == FifoStep(fifo, push, item, pop)
<1>1. /\ fifo.q \in Seq(S) /\ fifo.near \in Int /\ fifo.shown \in Int /\ Len(fifo.q) \in Nat
  BY DEF FifoTypes
<1>2. /\ fifo.shown >= 0 /\ fifo.near >= 0
      /\ fifo.near <= Len(fifo.q) /\ fifo.shown <= Len(fifo.q)
      /\ FwftLatency = 2 => fifo.shown <= fifo.near
      /\ pop => fifo.shown > 0
  BY <1>1 DEF FifoSane, Empty
<1>3. /\ rest \in Seq(S) /\ Len(rest) = Len(fifo.q) - k /\ k \in {0, 1}
      /\ \A i \in 1 .. Len(fifo.q) - k : rest[i] = fifo.q[i + k]
  <2>1. CASE pop
    <3>1. Len(fifo.q) > 0
      BY <1>1, <1>2, <2>1
    <3> QED
      BY <3>1, <1>1, <2>1, TailIs DEF One
  <2>2. CASE ~pop
    <3>1. k = 0 /\ rest = fifo.q
      BY <2>2 DEF One
    <3> HIDE DEF rest, k
    <3> QED
      BY <1>1, <3>1
  <2> QED
    BY <2>1, <2>2
<1> HIDE DEF rest, k
<1>4. Len(rest) \in Nat
  BY <1>3
<1>5. /\ q \in Seq(S) /\ Len(q) = Len(rest) + One(got) /\ One(got) \in {0, 1}
      /\ \A i \in 1 .. Len(rest) : q[i] = rest[i]
      /\ got => q[Len(q)] = item
  <2>1. CASE got
    <3>1. q = Append(rest, item) /\ One(got) = 1
      BY <2>1 DEF One
    <3> HIDE DEF q, got
    <3> QED
      BY <3>1, <1>3, AppendIs
  <2>2. CASE ~got
    <3>1. q = rest /\ One(got) = 0
      BY <2>2 DEF One
    <3> HIDE DEF q, got
    <3> QED
      BY <3>1, <1>3, <1>4, <2>2
  <2> QED
    BY <2>1, <2>2
<1>6. n = [q |-> q, near |-> Len(rest),
           shown |-> CASE FwftLatency = 0 -> Len(q)
                       [] FwftLatency = 1 -> Len(rest)
                       [] FwftLatency = 2 -> late]
  BY DEF FifoStep, rest
<1>7. late = fifo.near - k
  BY <1>1 DEF k, One
<1> HIDE DEF q, got, late, n
<1>8. n.q = q /\ n.near = Len(rest)
  BY <1>6
<1>9. /\ FwftLatency = 0 => n.shown = Len(q)
      /\ FwftLatency = 1 => n.shown = Len(rest)
      /\ FwftLatency = 2 => n.shown = late
  BY <1>6
<1>10. Len(q) \in Nat /\ late \in Int
  BY <1>1, <1>3, <1>5, <1>7
<1>11. n.shown \in Int
  BY <1>9, <1>10, <1>4, Sizes
<1>12. n \in FifoTypes(S)
  <2>1. n = [q |-> n.q, near |-> n.near, shown |-> n.shown]
    BY <1>6
  <2>2. n.q \in Seq(S) /\ n.near \in Int /\ n.shown \in Int
    BY <1>4, <1>5, <1>8, <1>11
  <2> QED
    BY <2>1, <2>2 DEF FifoTypes
<1>13. FifoSane(n)
  <2>1. k = 1 => fifo.shown > 0
    BY <1>2 DEF k, One
  <2>2. /\ Len(rest) = Len(fifo.q) - k /\ k \in {0, 1}
        /\ Len(q) >= Len(rest)
    BY <1>3, <1>4, <1>5
  <2>3. FwftLatency = 2 => n.shown >= 0 /\ n.shown <= Len(rest)
    BY <1>1, <1>2, <1>7, <1>9, <2>1, <2>2
  <2>4. n.shown >= 0 /\ n.shown <= Len(q)
    BY <1>4, <1>9, <1>10, <2>2, <2>3, Sizes
  <2> QED
    BY <2>2, <2>3, <2>4, <1>8, <1>4, <1>10 DEF FifoSane
<1>14. \A i \in 1 .. Len(fifo.q) - k : q[i] = fifo.q[i + k]
  BY <1>3, <1>5
<1>15. Len(q) = Len(fifo.q) - k + One(got)
  BY <1>3, <1>5
<1>16. n.near = Len(fifo.q) - k /\ (got => q[Len(q)] = item)
  BY <1>3, <1>5, <1>8
<1> QED
  BY <1>7, <1>8, <1>9, <1>12, <1>13, <1>14, <1>15, <1>16 DEF FifoAfter, k, got, n

(* What remains of an empty FIFO, and of one that is not touched.          *)
LEMMA FifoUntouched ==
  ASSUME NEW S, NEW fifo \in FifoTypes(S), NEW n, NEW item,
         FifoAfter(S, fifo, n, FALSE, item, FALSE)
  PROVE  n.q = fifo.q
<1>1. /\ n.q \in Seq(S) /\ fifo.q \in Seq(S) /\ Len(fifo.q) \in Nat
      /\ Len(n.q) = Len(fifo.q) - 0 + 0
      /\ \A i \in 1 .. Len(fifo.q) - 0 : n.q[i] = fifo.q[i + 0]
  BY DEF FifoAfter, FifoTypes, One
<1>2. Len(n.q) = Len(fifo.q) /\ \A i \in 1 .. Len(fifo.q) : n.q[i] = fifo.q[i]
  BY <1>1
<1> QED
  BY <1>1, <1>2

-----------------------------------------------------------------------------
(***************************************************************************)
(* Data words in their order.                                              *)
(***************************************************************************)
LEMMA DataIs ==
  ASSUME NEW p \in Nat, NEW v \in Nat
  PROVE  /\ Data(p, v) \in ItemTypes /\ Data(p, v).kind = "data"
         /\ Data(p, v).pkt = p /\ Data(p, v).val = v
BY DEF Data, Item, ItemTypes

LEMMA NextDataIs ==
  ASSUME NEW m, NEW x \in ItemTypes
  PROVE  NextData(m, x) \in ItemTypes /\ Earlier(x, NextData(m, x))
<1>1. x.pkt \in Nat /\ x.val \in Nat
  BY DEF ItemTypes
<1>2. CASE x.val < Cut(m, x.pkt)
  <2>1. NextData(m, x) = Data(x.pkt, x.val + 1)
    BY <1>2 DEF NextData
  <2> QED
    BY <2>1, <1>1, DataIs DEF Earlier
<1>3. CASE ~(x.val < Cut(m, x.pkt))
  <2>1. NextData(m, x) = Data(x.pkt + 1, 1)
    BY <1>3 DEF NextData
  <2> QED
    BY <2>1, <1>1, DataIs DEF Earlier
<1> QED
  BY <1>2, <1>3

LEMMA EarlierTrans ==
  ASSUME NEW x \in ItemTypes, NEW y \in ItemTypes, NEW z \in ItemTypes,
         Earlier(x, y), Earlier(y, z)
  PROVE  Earlier(x, z)
<1>1. /\ x.pkt \in Nat /\ x.val \in Nat /\ y.pkt \in Nat /\ y.val \in Nat
      /\ z.pkt \in Nat /\ z.val \in Nat
  BY DEF ItemTypes
<1> QED
  BY <1>1 DEF Earlier

(* The word that is due, appended, goes on with the order.                 *)
LEMMA DueGoesOn ==
  ASSUME NEW m, NEW q \in Seq(ItemTypes), NEW first \in ItemTypes, Linked(m, q, first)
  PROVE  /\ Due(m, q, first) \in ItemTypes
         /\ Linked(m, Append(q, Due(m, q, first)), first)
         /\ \A i \in 1 .. Len(q) : Earlier(q[i], Due(m, q, first))
<1> DEFINE d == Due(m, q, first)  e == Append(q, d)  n == Len(q)
<1>1. n \in Nat /\ (q = <<>> <=> n = 0) /\ \A i \in 1 .. n : q[i] \in ItemTypes
  BY EmptyIs
<1>2. d \in ItemTypes /\ (n = 0 => d = first) /\ (n > 0 => d = NextData(m, q[n]))
  BY <1>1, NextDataIs DEF Due
<1>3. /\ e \in Seq(ItemTypes) /\ Len(e) = n + 1
      /\ \A i \in 1 .. n : e[i] = q[i]
      /\ e[n + 1] = d
  BY <1>2, AppendIs
<1>4. ASSUME NEW i \in 1 .. n PROVE Earlier(q[i], d)
  <2>1. n > 0 /\ Earlier(q[n], d)
    BY <1>1, <1>2, NextDataIs
  <2>2. i < n => Earlier(q[i], q[n])
    BY <1>1 DEF Linked
  <2>3. i = n => Earlier(q[i], d)
    BY <2>1
  <2>4. i < n => Earlier(q[i], d)
    BY <2>1, <2>2, <1>1, <1>2, EarlierTrans
  <2> QED
    BY <1>1, <2>3, <2>4
<1> HIDE DEF d, e, n
<1>5. e # <<>> => e[1] = first
  <2>1. CASE n = 0
    BY <2>1, <1>2, <1>3
  <2>2. CASE n > 0
    <3>1. q[1] = first
      BY <2>2, <1>1 DEF Linked
    <3> QED
      BY <3>1, <2>2, <1>1, <1>3
  <2> QED
    BY <2>1, <2>2, <1>1
<1>6. ASSUME NEW i \in 1 .. Len(e) - 1 PROVE e[i + 1] = NextData(m, e[i])
  <2>0. i \in 1 .. n
    BY <1>1, <1>3
  <2>1. CASE i = n
    BY <2>0, <2>1, <1>1, <1>2, <1>3
  <2>2. CASE i # n
    <3>1. i \in 1 .. n - 1 /\ i + 1 \in 1 .. n
      BY <2>0, <2>2, <1>1
    <3>2. q[i + 1] = NextData(m, q[i])
      BY <3>1 DEF Linked, n
    <3> QED
      BY <3>1, <3>2, <2>0, <1>3
  <2> QED
    BY <2>1, <2>2
<1>7. ASSUME NEW i \in 1 .. Len(e), NEW j \in 1 .. Len(e), i < j PROVE Earlier(e[i], e[j])
  <2>0. i \in 1 .. n
    BY <1>1, <1>3, <1>7
  <2>1. CASE j = n + 1
    BY <2>0, <2>1, <1>3, <1>4
  <2>2. CASE j # n + 1
    <3>1. j \in 1 .. n
      BY <2>2, <1>1, <1>3
    <3>2. Earlier(q[i], q[j])
      BY <3>1, <2>0, <1>7 DEF Linked, n
    <3> QED
      BY <3>1, <3>2, <2>0, <1>3
  <2> QED
    BY <2>1, <2>2
<1>8. Linked(m, e, first)
  BY <1>5, <1>6, <1>7 DEF Linked
<1> QED
  BY <1>2, <1>4, <1>8 DEF d, e, n

(* The words of a FIFO after a step: k were taken, and g, d, was added.    *)
Moved(q, r, k, g, d) ==
  /\ k \in {0, 1} /\ g \in {0, 1} /\ k <= Len(q)
  /\ r \in Seq(ItemTypes) /\ Len(r) = Len(q) - k + g
  /\ \A i \in 1 .. Len(q) - k : r[i] = q[i + k]
  /\ g = 1 => r[Len(r)] = d

LEMMA LinkedStep ==
  ASSUME NEW m, NEW q \in Seq(ItemTypes), NEW first \in ItemTypes, Linked(m, q, first),
         NEW k, NEW g, NEW r, Moved(q, r, k, g, Due(m, q, first)),
         NEW f, f = IF k = 0 THEN first ELSE NextData(m, first)
  PROVE  /\ Linked(m, r, f)
         /\ Due(m, r, f) = IF g = 1 THEN NextData(m, Due(m, q, first)) ELSE Due(m, q, first)
<1>0. /\ k \in {0, 1} /\ g \in {0, 1} /\ k <= Len(q)
      /\ r \in Seq(ItemTypes) /\ Len(r) = Len(q) - k + g
      /\ \A i \in 1 .. Len(q) - k : r[i] = q[i + k]
      /\ g = 1 => r[Len(r)] = Due(m, q, first)
  BY DEF Moved
<1> DEFINE d == Due(m, q, first)  e == Append(q, d)  n == Len(q)
<1>1. n \in Nat /\ Len(r) \in Nat /\ (r = <<>> <=> Len(r) = 0)
  BY <1>0, EmptyIs
<1>2. d \in ItemTypes /\ Linked(m, e, first)
  BY DueGoesOn
<1>3. /\ e \in Seq(ItemTypes) /\ Len(e) = n + 1 /\ e # <<>>
      /\ \A i \in 1 .. n : e[i] = q[i]
      /\ e[n + 1] = d
  BY <1>2, AppendIs, EmptyIs
<1> HIDE DEF d, e, n
<1>4. ASSUME NEW i \in 1 .. Len(r) PROVE i + k \in 1 .. n + 1 /\ r[i] = e[i + k]
  <2>1. CASE i <= n - k
    <3>1. i \in 1 .. n - k /\ i + k \in 1 .. n
      BY <1>0, <2>1, <1>1 DEF n
    <3> QED
      BY <1>0, <3>1, <1>1, <1>3 DEF n
  <2>2. CASE ~(i <= n - k)
    <3>1. g = 1 /\ i = Len(r) /\ i + k = n + 1
      BY <1>0, <2>2, <1>1 DEF n
    <3> QED
      BY <1>0, <3>1, <1>1, <1>3 DEF d
  <2> QED
    BY <1>0, <2>1, <2>2
<1>5. f = e[1 + k]
  <2>1. e[1] = first
    BY <1>0, <1>2, <1>3 DEF Linked
  <2>2. k = 1 => e[1 + k] = NextData(m, e[1])
    <3>1. k = 1 => 1 \in 1 .. Len(e) - 1
      BY <1>0, <1>1, <1>3 DEF n
    <3> QED
      BY <1>0, <3>1, <1>2 DEF Linked
  <2> QED
    BY <1>0, <2>1, <2>2
<1>6. r # <<>> => r[1] = f
  BY <1>0, <1>1, <1>4, <1>5
<1>7. ASSUME NEW i \in 1 .. Len(r) - 1 PROVE r[i + 1] = NextData(m, r[i])
  <2>1. i \in 1 .. Len(r) /\ i + 1 \in 1 .. Len(r) /\ i + k \in 1 .. Len(e) - 1
    BY <1>0, <1>1, <1>3 DEF n
  <2>2. e[(i + k) + 1] = NextData(m, e[i + k])
    BY <1>0, <2>1, <1>2 DEF Linked
  <2>3. (i + k) + 1 = (i + 1) + k
    BY <1>0
  <2> QED
    BY <1>0, <2>1, <2>2, <2>3, <1>4
<1>8. ASSUME NEW i \in 1 .. Len(r), NEW j \in 1 .. Len(r), i < j PROVE Earlier(r[i], r[j])
  <2>1. i + k \in 1 .. Len(e) /\ j + k \in 1 .. Len(e) /\ i + k < j + k
    BY <1>0, <1>3, <1>4, <1>8
  <2>2. Earlier(e[i + k], e[j + k])
    BY <1>0, <2>1, <1>2 DEF Linked
  <2> QED
    BY <1>0, <2>2, <1>4
<1>9. Linked(m, r, f)
  BY <1>0, <1>6, <1>7, <1>8 DEF Linked
<1>10. Due(m, r, f) = IF g = 1 THEN NextData(m, d) ELSE d
  <2>1. CASE g = 1
    <3>1. Len(r) > 0 /\ r[Len(r)] = d
      BY <1>0, <2>1, <1>1 DEF d, n
    <3> QED
      BY <1>0, <3>1, <2>1, <1>1 DEF Due
  <2>2. CASE g = 0 /\ Len(r) = 0
    <3>1. 1 + k = n + 1
      BY <1>0, <2>2, <1>1 DEF n
    <3> QED
      BY <1>0, <3>1, <2>2, <1>1, <1>3, <1>5 DEF Due
  <2>3. CASE g = 0 /\ Len(r) > 0
    <3>1. Len(r) + k = n /\ Len(r) \in 1 .. Len(r)
      BY <1>0, <2>3, <1>1 DEF n
    <3>2. r[Len(r)] = e[n]
      BY <1>0, <3>1, <1>4
    <3>3. n \in 1 .. Len(e) - 1
      BY <1>0, <3>1, <2>3, <1>1, <1>3
    <3>4. e[n + 1] = NextData(m, e[n])
      BY <1>0, <3>3, <1>2 DEF Linked
    <3> QED
      BY <1>0, <3>2, <3>4, <2>3, <1>1, <1>3 DEF Due
  <2> QED
    BY <1>0, <2>1, <2>2, <2>3, <1>1
<1> QED
  BY <1>0, <1>9, <1>10 DEF d

-----------------------------------------------------------------------------
(***************************************************************************)
(* What a clock edge sees: the word on the stream, and what is taken.      *)
(***************************************************************************)
WireTypes == [tvalid : BOOLEAN, tdata : ItemTypes, tlast : BOOLEAN, tkeep : Nat,
              tuser : Nat]

LEMMA NoWordIs ==
  NoWord \in WireTypes /\ ~NoWord.tvalid /\ ~NoWord.tlast
BY DEF NoWord, WireTypes, Padding, Item, ItemTypes

LEMMA Arriving ==
  ASSUME Control, MayArrive
  PROVE  /\ pkt \in 1 .. Len(PktLens) /\ sent < WireWords(pkt)
         /\ sent * WordBytes \in Nat /\ sent * WordBytes < PktLens[pkt]
<1>1. pkt \in 1 .. Len(PktLens) /\ sent \in Nat
  BY Sizes DEF MayArrive, Control, TypeOK
<1>2. PktLens[pkt] \in Nat \ {0} /\ 0 * WordBytes = 0
  BY <1>1, Packet, Sizes
<1>3. 0 < WireWords(pkt)
  <2>1. 0 * WordBytes < PktLens[pkt]
    BY <1>2
  <2> QED
    BY <2>1, <1>1, Packet
<1>4. sent < WireWords(pkt)
  BY <1>1, <1>3 DEF Control, NetInv
<1> QED
  BY <1>1, <1>4, Packet

LEMMA NextWordIs ==
  ASSUME Control, MayArrive
  PROVE  /\ NextWord \in WireTypes /\ NextWord.tvalid
         /\ NextWord.tdata = Data(pkt, sent + 1)
         /\ NextWord.tlast <=> sent + 1 = WireWords(pkt)
         /\ NextWord.tlast => /\ NextWord.tkeep = PktLens[pkt] - sent * WordBytes
                              /\ NextWord.tuser = pkt
<1>1. /\ pkt \in Nat /\ sent \in Nat /\ PktLens[pkt] \in Nat /\ sent * WordBytes \in Nat
      /\ sent * WordBytes < PktLens[pkt] /\ WordBytes \in Nat
  BY Arriving, Packet, Sizes DEF Control, TypeOK
<1> DEFINE last == sent + 1 = WireWords(pkt)
           keep == IF last THEN PktLens[pkt] - sent * WordBytes ELSE WordBytes
           user == IF last THEN pkt ELSE 0
<1>2. keep \in Nat
  <2> DEFINE a == PktLens[pkt]  c == sent * WordBytes
  <2>1. a \in Nat /\ c \in Nat /\ c < a
    BY <1>1
  <2> HIDE DEF a, c
  <2>2. a - c \in Nat
    BY <2>1
  <2> QED
    BY <2>2, <1>1 DEF a, c
<1>3. user \in Nat /\ last \in BOOLEAN
  BY <1>1
<1>4. Data(pkt, sent + 1) \in ItemTypes
  BY <1>1, DataIs
<1>5. NextWord = [tvalid |-> TRUE, tdata |-> Data(pkt, sent + 1), tlast |-> last,
                  tkeep |-> keep, tuser |-> user]
  BY DEF NextWord, Data
<1> HIDE DEF keep, user, last
<1>6. NextWord \in WireTypes
  BY <1>2, <1>3, <1>4, <1>5 DEF WireTypes
<1>7. NextWord.tvalid /\ NextWord.tdata = Data(pkt, sent + 1)
      /\ NextWord.tlast = last /\ NextWord.tkeep = keep /\ NextWord.tuser = user
  BY <1>5
<1> QED
  BY <1>6, <1>7 DEF last, keep, user

Word(arrives) == IF arrives THEN NextWord ELSE NoWord

LEMMA WordIs ==
  ASSUME Control, NEW arrives \in BOOLEAN, arrives => MayArrive
  PROVE  /\ Word(arrives) \in WireTypes /\ (Word(arrives).tvalid <=> arrives)
         /\ Word(arrives).tvalid \in BOOLEAN /\ Word(arrives).tlast \in BOOLEAN
         /\ Word(arrives).tdata \in ItemTypes /\ Word(arrives).tkeep \in Nat
         /\ Word(arrives).tuser \in Nat
<1>1. Word(arrives) \in WireTypes /\ (Word(arrives).tvalid <=> arrives)
  <2>1. CASE arrives
    BY <2>1, NextWordIs DEF Word
  <2>2. CASE ~arrives
    BY <2>2, NoWordIs DEF Word
  <2> QED
    BY <2>1, <2>2
<1> HIDE DEF Word
<1> QED
  BY <1>1 DEF WireTypes

(* The sides of the two FIFOs.                                             *)
LEMMA Sides ==
  ASSUME Control
  PROVE  /\ meta_fifo \in FifoTypes(MetaTypes) /\ FifoSane(meta_fifo)
         /\ data_fifo \in FifoTypes(ItemTypes) /\ FifoSane(data_fifo)
         /\ rx_meta_o.wr \in BOOLEAN /\ rx_data.wr \in BOOLEAN /\ rx_meta.wr \in BOOLEAN
         /\ rx_meta_o \in MetaTypes /\ rx_meta \in MetaTypes /\ rx_data.din \in ItemTypes
<1>1. /\ meta_fifo \in FifoTypes(MetaTypes) /\ FifoSane(meta_fifo)
      /\ data_fifo \in FifoTypes(ItemTypes) /\ FifoSane(data_fifo)
  BY DEF Control, TypeOK, FifosSane
<1>2. rx_meta_o \in MetaTypes /\ rx_meta \in MetaTypes
      /\ rx_data \in [wr : BOOLEAN, din : ItemTypes]
  BY DEF Control, TypeOK, RxTypeOK
<1>3. rx_meta_o.wr \in BOOLEAN /\ rx_meta.wr \in BOOLEAN
  BY <1>2 DEF MetaTypes
<1> QED
  BY <1>1, <1>2, <1>3

LEMMA FifoIs ==
  ASSUME NEW S, NEW fifo \in FifoTypes(S), FifoSane(fifo)
  PROVE  /\ fifo.q \in Seq(S) /\ Len(fifo.q) \in Nat /\ (fifo.q = <<>> <=> Len(fifo.q) = 0)
         /\ fifo.near \in Nat /\ fifo.near <= Len(fifo.q)
         /\ fifo.shown \in Nat /\ fifo.shown <= Len(fifo.q)
         /\ FwftLatency = 2 => fifo.shown <= fifo.near
         /\ ~Empty(fifo) => fifo.shown > 0 /\ Len(fifo.q) > 0
<1>1. fifo.q \in Seq(S) /\ fifo.near \in Int /\ fifo.shown \in Int
  BY DEF FifoTypes
<1>2. Len(fifo.q) \in Nat /\ (fifo.q = <<>> <=> Len(fifo.q) = 0)
  BY <1>1, EmptyIs
<1> QED
  BY <1>1, <1>2 DEF FifoSane, Empty

LEMMA Takes ==
  ASSUME Control
  PROVE  /\ take_meta \in BOOLEAN /\ take_data \in BOOLEAN
         /\ take_meta => mg_state = "META" /\ ~Empty(meta_fifo) /\ meta_fifo.q # <<>> /\ ~take_data
         /\ take_data => mg_state = "DATA" /\ ~Empty(data_fifo) /\ data_fifo.q # <<>> /\ ~take_meta
<1>1. /\ ~Empty(meta_fifo) => meta_fifo.q # <<>>
      /\ ~Empty(data_fifo) => data_fifo.q # <<>>
  BY Sides, FifoIs
<1> QED
  BY <1>1 DEF take_meta, take_data, TakeMeta, TakeData

LEMMA MergedWordIs ==
  ASSUME Control, take_meta \/ take_data
  PROVE  /\ MergedWord \in ItemTypes
         /\ take_meta => MergedWord = Item("meta", meta_fifo.q[1].tuser, meta_fifo.q[1].len.wire)
         /\ take_data => MergedWord = data_fifo.q[1]
<1>1. CASE take_meta
  <2>1. meta_fifo.q \in Seq(MetaTypes) /\ Len(meta_fifo.q) \in Nat /\ Len(meta_fifo.q) > 0
    BY <1>1, Takes, Sides, FifoIs
  <2>2. meta_fifo.q[1] \in MetaTypes /\ Head(meta_fifo.q) = meta_fifo.q[1]
    BY <2>1
  <2>3. meta_fifo.q[1].tuser \in Nat /\ meta_fifo.q[1].len.wire \in Nat
    BY <2>2 DEF MetaTypes, LenTypes
  <2> QED
    BY <1>1, <2>2, <2>3, Takes DEF MergedWord, Item, ItemTypes
<1>2. CASE take_data
  <2>1. data_fifo.q \in Seq(ItemTypes) /\ Len(data_fifo.q) \in Nat /\ Len(data_fifo.q) > 0
    BY <1>2, Takes, Sides, FifoIs
  <2>2. data_fifo.q[1] \in ItemTypes /\ Head(data_fifo.q) = data_fifo.q[1]
    BY <2>1
  <2> QED
    BY <1>2, <2>2, Takes DEF MergedWord
<1> QED
  BY <1>1, <1>2

LEMMA FifosAfter ==
  ASSUME Control, ~rst, NEW drain, FifoClock(drain)
  PROVE  /\ FifoAfter(MetaTypes, meta_fifo, meta_fifo', rx_meta_o.wr, rx_meta_o, take_meta)
         /\ FifoAfter(ItemTypes, data_fifo, data_fifo', rx_data.wr, rx_data.din, take_data)
<1>1. /\ meta_fifo' = FifoStep(meta_fifo, rx_meta_o.wr, rx_meta_o, take_meta)
      /\ data_fifo' = FifoStep(data_fifo, rx_data.wr, rx_data.din, take_data)
  BY DEF FifoClock
<1>2. FifoAfter(MetaTypes, meta_fifo, meta_fifo', rx_meta_o.wr, rx_meta_o, take_meta)
  <2> HIDE DEF take_meta, FifoStep, FifoAfter, MetaTypes, FifoTypes, FifoSane, Control
  <2>1. take_meta \in BOOLEAN /\ (take_meta => ~Empty(meta_fifo))
    BY Takes
  <2> QED
    BY <1>1, <2>1, Sides, FifoStepIs
<1>3. FifoAfter(ItemTypes, data_fifo, data_fifo', rx_data.wr, rx_data.din, take_data)
  <2> HIDE DEF take_data, FifoStep, FifoAfter, ItemTypes, FifoTypes, FifoSane, Control
  <2>1. take_data \in BOOLEAN /\ (take_data => ~Empty(data_fifo))
    BY Takes
  <2> QED
    BY <1>1, <2>1, Sides, FifoStepIs
<1> QED
  BY <1>2, <1>3

(* The words that were written.                                            *)
LEMMA StoredAfter ==
  ASSUME Control, ~rst, NEW drain, FifoClock(drain)
  PROVE  /\ Passes(take_meta \/ take_data) => stored' = Append(stored, MergedWord)
         /\ Pads => stored' = Append(stored, Padding)
         /\ ~Passes(take_meta \/ take_data) /\ ~Pads => stored' = stored
         /\ ~(Passes(take_meta \/ take_data) /\ Pads)
         /\ stored' \in Seq(ItemTypes)
         /\ Len(stored') = Len(stored) + One(Passes(take_meta \/ take_data) \/ Pads)
<1>1. stored' = IF Passes(take_meta \/ take_data) THEN Append(stored, MergedWord)
                ELSE IF Pads THEN Append(stored, Padding) ELSE stored
  BY DEF FifoClock
<1>2. ~(Passes(take_meta \/ take_data) /\ Pads)
  BY DEF Passes, Pads
<1>3. Padding \in ItemTypes
  BY DEF Padding, Item, ItemTypes
<1>4. stored \in Seq(ItemTypes) /\ Len(stored) \in Nat
  BY DEF Control, TypeOK
<1>5. Passes(take_meta \/ take_data) => MergedWord \in ItemTypes
  BY MergedWordIs DEF Passes
<1> HIDE DEF MergedWord, Padding, Passes, Pads, take_meta, take_data, Control
<1>6. CASE Passes(take_meta \/ take_data)
  BY <1>1, <1>2, <1>4, <1>5, <1>6, AppendIs DEF One
<1>7. CASE Pads
  BY <1>1, <1>2, <1>4, <1>3, <1>7, AppendIs DEF One
<1>8. CASE ~Passes(take_meta \/ take_data) /\ ~Pads
  <2>1. stored' = stored /\ One(Passes(take_meta \/ take_data) \/ Pads) = 0
    BY <1>1, <1>8 DEF One
  <2> QED
    BY <2>1, <1>2, <1>4, <1>8
<1> QED
  BY <1>6, <1>7, <1>8

-----------------------------------------------------------------------------
(***************************************************************************)
(* Types and control are kept by a clock edge.                             *)
(***************************************************************************)
Quiet == ~rx_active /\ Empty(meta_fifo) /\ Empty(data_fifo)

(* The parts of a clock edge.                                              *)
Edge(arrives, drain, prog_empty, mw_busy) ==
  /\ arrives => MayArrive
  /\ drain => Len(stored) - drained >= WordsPerBeat
  /\ NetClock(arrives)
  /\ RxClock(rst, ct.rx, max_len, Word(arrives), Full(data_fifo), Full(meta_fifo))
  /\ FifoClock(drain)
  /\ MergeClock(rst, take_meta, take_data,
                IF take_meta THEN Head(meta_fifo.q).len.capture ELSE 0)
  /\ WrapperClock(rst, take_meta \/ take_data, ct.align)
  /\ CtrlClock(rst, ctrl_active, Quiet, align_done, prog_empty, mw_busy)
  /\ unnoticed' = (unnoticed \/ LostUnseen \/ BeginsUnseen(arrives))
  /\ ctrl_active' = ctrl_active /\ max_len' = max_len /\ rst' = rst /\ sw' = sw

LEMMA ClockIsEdge ==
  ASSUME Clock
  PROVE  \E arrives, drain, prog_empty, mw_busy \in BOOLEAN :
           Edge(arrives, drain, prog_empty, mw_busy)
<1>1. PICK a \in BOOLEAN, d \in BOOLEAN, e \in BOOLEAN, b \in BOOLEAN : ClockEdge(a, d, e, b)
  BY DEF Clock
<1>2. Edge(a, d, e, b)
  BY <1>1 DEF ClockEdge, Edge, Word, Quiet, ctlVars, Note
<1> QED
  BY <1>2

(* The receiver.                                                           *)
LEMMA LengthsIs ==
  ASSUME Control, NEW w \in WireTypes
  PROVE  Lengths(w, max_len) \in LenTypes
<1>1. rx_len.capture \in Nat /\ rx_len.wire \in Nat /\ max_len \in Nat
  BY Sizes DEF Control, TypeOK, RxTypeOK, LenTypes
<1>2. WordLen(w) \in Nat
  BY Sizes DEF WordLen, WireTypes
<1> HIDE DEF WordLen
<1>3. rx_len.capture + WordLen(w) \in Nat /\ rx_len.wire + WordLen(w) \in Nat
  BY <1>1, <1>2
<1> QED
  BY <1>1, <1>3 DEF Lengths, LenTypes

LEMMA RxTyped ==
  ASSUME Control, NEW w \in WireTypes, NEW data_full \in BOOLEAN, NEW meta_full \in BOOLEAN,
         RxClock(rst, ct.rx, max_len, w, data_full, meta_full)
  PROVE  RxTypeOK'
<1>1. /\ w.tvalid \in BOOLEAN /\ w.tlast \in BOOLEAN /\ w.tdata \in ItemTypes
      /\ w.tkeep \in Nat /\ w.tuser \in Nat
  BY DEF WireTypes
<1>2. /\ rst \in BOOLEAN /\ s_axis_active \in BOOLEAN /\ rx_state \in RxStates
      /\ rx_len \in LenTypes /\ rx_meta \in MetaTypes /\ pkt_cnt \in Nat
      /\ meta_state \in {"ACTIVE", "ERR"} /\ rx_meta_o \in MetaTypes
  BY DEF Control, TypeOK, RxTypeOK
<1>3. Lengths(w, max_len) \in LenTypes
  BY LengthsIs
<1>4. s_axis_active' \in BOOLEAN
  BY <1>1, <1>2 DEF RxClock
<1>5. rx_active' \in BOOLEAN
  BY <1>2 DEF RxClock, RxOutputs
<1>6. [rx_meta EXCEPT !.wr = FALSE] \in MetaTypes /\ [rx_meta_o EXCEPT !.wr = FALSE] \in MetaTypes
  BY <1>2 DEF MetaTypes
<1>7. meta_state' \in {"ACTIVE", "ERR"} /\ rx_meta_o' \in MetaTypes
  BY <1>2, <1>6 DEF RxClock, RxMeta
<1>9. [wr |-> TRUE, tuser |-> w.tuser, len |-> Lengths(w, max_len)] \in MetaTypes
  BY <1>1, <1>3 DEF MetaTypes
<1>10. NoLength \in LenTypes
  BY DEF NoLength, LenTypes
<1>11. ASSUME RxWriteNothing(w)
       PROVE  rx_data' \in [wr : BOOLEAN, din : ItemTypes] /\ rx_meta' \in MetaTypes
  BY <1>1, <1>6, <1>11 DEF RxWriteNothing, RxWrite
<1>12. ASSUME NEW s \in RxStates, RxGoto(rst, s) PROVE rx_state' \in RxStates
  BY <1>12 DEF RxGoto, RxStates
<1> DEFINE Good == /\ rx_state' \in RxStates /\ rx_len' \in LenTypes /\ pkt_cnt' \in Nat
                   /\ rx_data' \in [wr : BOOLEAN, din : ItemTypes] /\ rx_meta' \in MetaTypes
<1> SUFFICES Good
  BY <1>4, <1>5, <1>7 DEF RxTypeOK
<1>13. CASE RxRst(rst, w)
  BY <1>2, <1>11, <1>12, <1>13 DEF RxRst, RxStates
<1>14. CASE RxIdle(rst, ct.rx, w)
  <2>1. (IF ct.rx THEN "START" ELSE "IDLE") \in RxStates
    BY DEF RxStates
  <2> QED
    BY <1>2, <1>11, <1>12, <1>14, <2>1 DEF RxIdle
<1>15. CASE RxStart(rst, w)
  <2>1. (IF s_axis_active THEN "START" ELSE "RECORD") \in RxStates
    BY DEF RxStates
  <2> QED
    BY <1>2, <1>10, <1>11, <1>12, <1>15, <2>1 DEF RxStart
<1>16. CASE RxRecordNothing(rst, ct.rx, w)
  <2>1. (IF RxStop(ct.rx) THEN "IDLE" ELSE "RECORD") \in RxStates
    BY DEF RxStates
  <2> QED
    BY <1>2, <1>11, <1>12, <1>16, <2>1 DEF RxRecordNothing
<1>17. CASE RxRecordWord(rst, ct.rx, max_len, w, data_full)
  <2> DEFINE store == rx_len.capture < max_len
  <2>1. /\ RxWrite(store, w)
        /\ RxGoto(rst, IF store /\ data_full THEN "ERR" ELSE "RECORD")
        /\ IF w.tlast
           THEN /\ rx_meta' = [wr |-> TRUE, tuser |-> w.tuser, len |-> Lengths(w, max_len)]
                /\ rx_len' = NoLength
                /\ pkt_cnt' = pkt_cnt + 1
           ELSE /\ rx_meta' = [rx_meta EXCEPT !.wr = FALSE]
                /\ rx_len' = Lengths(w, max_len)
                /\ UNCHANGED pkt_cnt
    BY <1>17 DEF RxRecordWord
  <2>2. store \in BOOLEAN
    OBVIOUS
  <2> HIDE DEF store
  <2>3. rx_data' \in [wr : BOOLEAN, din : ItemTypes]
    BY <1>1, <2>1, <2>2 DEF RxWrite
  <2>4. rx_state' \in RxStates
    <3>1. (IF store /\ data_full THEN "ERR" ELSE "RECORD") \in RxStates
      BY DEF RxStates
    <3> QED
      BY <2>1, <3>1, <1>12
  <2>5. rx_meta' \in MetaTypes /\ rx_len' \in LenTypes
    BY <2>1, <1>3, <1>6, <1>9, <1>10
  <2>6. pkt_cnt' \in Nat
    <3>1. pkt_cnt' = pkt_cnt + 1 \/ pkt_cnt' = pkt_cnt
      BY <2>1
    <3> QED
      BY <3>1, <1>2
  <2> QED
    BY <2>3, <2>4, <2>5, <2>6
<1>18. CASE RxErr(rst, w)
  BY <1>2, <1>11, <1>12, <1>18 DEF RxErr, RxStates
<1> QED
  BY <1>13, <1>14, <1>15, <1>16, <1>17, <1>18 DEF RxClock

LEMMA FullIs == ASSUME NEW fifo PROVE Full(fifo) \in BOOLEAN
BY DEF Full

LEMMA FifosTyped ==
  ASSUME Control, NEW drain \in BOOLEAN, drain => Len(stored) - drained >= WordsPerBeat,
         FifoClock(drain)
  PROVE  /\ meta_fifo' \in FifoTypes(MetaTypes) /\ FifoSane(meta_fifo')
         /\ data_fifo' \in FifoTypes(ItemTypes) /\ FifoSane(data_fifo')
         /\ stored' \in Seq(ItemTypes) /\ drained' \in Nat
         /\ rst => /\ meta_fifo' = EmptyFifo /\ data_fifo' = EmptyFifo
                   /\ stored' = <<>> /\ drained' = 0
         /\ drained' % WordsPerBeat = 0 /\ drained' <= Len(stored')
<1>1. drained \in Nat /\ Len(stored) \in Nat /\ drained % WordsPerBeat = 0 /\ drained <= Len(stored)
      /\ WordsPerBeat \in Nat \ {0}
  BY Sizes DEF Control, TypeOK, AlignInv
<1>2. CASE rst
  <2>1. /\ meta_fifo' = EmptyFifo /\ data_fifo' = EmptyFifo
        /\ stored' = <<>> /\ drained' = 0
    BY <1>2 DEF FifoClock
  <2>2. ASSUME NEW S PROVE EmptyFifo \in FifoTypes(S) /\ FifoSane(EmptyFifo)
    <3>1. <<>> \in Seq(S) /\ Len(<<>>) = 0
      OBVIOUS
    <3> QED
      BY <3>1 DEF EmptyFifo, FifoTypes, FifoSane
  <2>3. 0 % WordsPerBeat = 0 /\ 0 <= Len(<<>>)
    BY <1>1
  <2>4. stored' \in Seq(ItemTypes) /\ drained' \in Nat
    BY <2>1
  <2> QED
    BY <2>1, <2>2, <2>3, <2>4
<1>3. CASE ~rst
  <2>1. /\ FifoAfter(MetaTypes, meta_fifo, meta_fifo', rx_meta_o.wr, rx_meta_o, take_meta)
        /\ FifoAfter(ItemTypes, data_fifo, data_fifo', rx_data.wr, rx_data.din, take_data)
    BY <1>3, FifosAfter
  <2>2. stored' \in Seq(ItemTypes) /\ Len(stored') >= Len(stored)
    <3>1. stored' \in Seq(ItemTypes)
          /\ Len(stored') = Len(stored) + One(Passes(take_meta \/ take_data) \/ Pads)
      BY <1>3, StoredAfter
    <3>2. One(Passes(take_meta \/ take_data) \/ Pads) \in {0, 1}
      BY DEF One
    <3> QED
      BY <3>1, <3>2, <1>1
  <2>3. drained' = IF drain THEN drained + WordsPerBeat ELSE drained
    BY <1>3 DEF FifoClock
  <2>4. (drained + WordsPerBeat) % WordsPerBeat = 0
    <3> DEFINE b == WordsPerBeat  d == drained
    <3>1. d = b * (d \div b) + (d % b) /\ d \div b \in Nat
      BY <1>1, Division
    <3> DEFINE k == d \div b
    <3>2. d = b * k /\ k \in Nat /\ b \in Nat \ {0}
      BY <3>1, <1>1
    <3> HIDE DEF k, b, d
    <3>3. d + b = b * (k + 1)
      BY <3>2
    <3>4. (b * (k + 1)) % b = 0
      BY <3>2
    <3> QED
      BY <3>3, <3>4 DEF b, d
  <2>5. drained' \in Nat /\ drained' % WordsPerBeat = 0 /\ drained' <= Len(stored')
    <3>1. Len(stored') \in Nat
      BY <2>2
    <3> QED
      BY <1>1, <2>2, <2>3, <2>4, <3>1
  <2> QED
    BY <1>3, <2>1, <2>2, <2>5 DEF FifoAfter
<1> QED
  BY <1>2, <1>3

LEMMA NetKept ==
  ASSUME Control, NEW arrives \in BOOLEAN, arrives => MayArrive, NetClock(arrives),
         s_axis_active' = (~rst /\ IF Word(arrives).tvalid THEN ~Word(arrives).tlast
                                   ELSE s_axis_active),
         rst' = rst
  PROVE  NetInv' /\ pkt' \in Nat \ {0} /\ sent' \in Nat
<1>1. /\ pkt \in Nat \ {0} /\ sent \in Nat /\ pkt <= Len(PktLens) + 1
      /\ sent > 0 => pkt <= Len(PktLens) /\ sent < WireWords(pkt)
      /\ ~rst => (s_axis_active <=> sent > 0)
  BY DEF Control, TypeOK, NetInv
<1>2. CASE ~arrives
  <2>1. pkt' = pkt /\ sent' = sent
    BY <1>2 DEF NetClock, netVars
  <2>2. ~Word(arrives).tvalid
    BY <1>2, WordIs
  <2> QED
    BY <1>1, <2>1, <2>2 DEF NetInv
<1>3. CASE arrives
  <2>1. /\ Word(arrives).tvalid
        /\ Word(arrives).tlast <=> sent + 1 = WireWords(pkt)
        /\ pkt \in 1 .. Len(PktLens) /\ sent < WireWords(pkt)
    BY <1>3, NextWordIs, Arriving DEF Word
  <2>2. WireWords(pkt) \in Nat
    BY <2>1, Packet
  <2>3. CASE sent + 1 = WireWords(pkt)
    <3>1. pkt' = pkt + 1 /\ sent' = 0
      BY <1>3, <2>3 DEF NetClock
    <3>2. pkt' \in Nat \ {0} /\ sent' \in Nat /\ pkt' <= Len(PktLens) + 1 /\ ~(sent' > 0)
      BY <3>1, <2>1, Sizes
    <3>3. ~rst' => ~s_axis_active'
      BY <2>1, <2>3
    <3> QED
      BY <3>2, <3>3 DEF NetInv
  <2>4. CASE sent + 1 # WireWords(pkt)
    <3>1. pkt' = pkt /\ sent' = sent + 1
      BY <1>3, <2>4 DEF NetClock
    <3>2. /\ pkt' \in Nat \ {0} /\ sent' \in Nat /\ pkt' <= Len(PktLens) + 1 /\ sent' > 0
          /\ pkt' <= Len(PktLens)
      BY <3>1, <2>1, <1>1, Sizes
    <3>3. ~rst' => s_axis_active'
      BY <2>1, <2>4
    <3>4. sent + 1 < WireWords(pkt)
      <4> HIDE DEF WireWords
      <4> QED
        BY <1>1, <2>1, <2>2, <2>4
    <3>5. WireWords(pkt)' = WireWords(pkt)
      BY <3>1 DEF WireWords
    <3>6. sent' < WireWords(pkt)'
      BY <3>1, <3>4, <3>5
    <3> QED
      BY <3>2, <3>3, <3>6 DEF NetInv
  <2> QED
    BY <2>3, <2>4
<1> QED
  BY <1>2, <1>3

LEMMA OutputsIs ==
  ASSUME NEW s
  PROVE  /\ Outputs(s) \in [status : BOOLEAN, rx : BOOLEAN, mem : BOOLEAN, flush : BOOLEAN,
                            align : BOOLEAN]
         /\ Outputs(s).rx <=> s = "ACTIVE"
         /\ Outputs(s).align <=> s = "ALIGN"
<1> DEFINE a == s # "IDLE"  b == s = "ACTIVE"
           c == s \in {"ACTIVE", "RX_DISABLE", "ALIGN", "WAIT_ALIGN", "WAIT_EMPTY"}
           d == s = "FLUSH"  e == s = "ALIGN"
<1>1. Outputs(s) = [status |-> a, rx |-> b, mem |-> c, flush |-> d, align |-> e]
  BY DEF Outputs
<1>2. a \in BOOLEAN /\ b \in BOOLEAN /\ c \in BOOLEAN /\ d \in BOOLEAN /\ e \in BOOLEAN
  OBVIOUS
<1> HIDE DEF a, b, c, d, e
<1>3. Outputs(s).rx = b /\ Outputs(s).align = e
  BY <1>1, <1>2
<1>4. Outputs(s) \in [status : BOOLEAN, rx : BOOLEAN, mem : BOOLEAN, flush : BOOLEAN,
                      align : BOOLEAN]
  BY <1>1, <1>2
<1>5. (Outputs(s).rx <=> s = "ACTIVE") /\ (Outputs(s).align <=> s = "ALIGN")
  BY <1>3, Zenon DEF b, e
<1> QED
  BY <1>4, <1>5

LEMMA TypeKept ==
  ASSUME Control, NEW arrives \in BOOLEAN, NEW drain \in BOOLEAN, NEW prog_empty \in BOOLEAN,
         NEW mw_busy \in BOOLEAN, Edge(arrives, drain, prog_empty, mw_busy)
  PROVE  TypeOK' /\ FifosSane' /\ NetInv'
<1>1. arrives => MayArrive
  BY DEF Edge
<1>2. RxTypeOK'
  <2>1. Word(arrives) \in WireTypes
    BY <1>1, WordIs
  <2>2. Full(data_fifo) \in BOOLEAN /\ Full(meta_fifo) \in BOOLEAN
    BY FullIs
  <2>3. RxClock(rst, ct.rx, max_len, Word(arrives), Full(data_fifo), Full(meta_fifo))
    BY DEF Edge
  <2> HIDE DEF Word, Full, RxTypeOK, Control
  <2> QED
    BY <2>1, <2>2, <2>3, RxTyped
<1>3. /\ meta_fifo' \in FifoTypes(MetaTypes) /\ FifoSane(meta_fifo')
      /\ data_fifo' \in FifoTypes(ItemTypes) /\ FifoSane(data_fifo')
      /\ stored' \in Seq(ItemTypes) /\ drained' \in Nat
  BY FifosTyped DEF Edge
<1>4. NetInv' /\ pkt' \in Nat \ {0} /\ sent' \in Nat
  BY <1>1, NetKept DEF Edge, RxClock
<1>5. /\ ctrl_active' \in BOOLEAN /\ max_len' \in MaxLens /\ rst' \in BOOLEAN
      /\ sw' \in {"idle", "configured", "capture", "reset"}
  BY DEF Edge, Control, TypeOK
<1>6. unnoticed' \in BOOLEAN
  BY DEF Edge
<1>7. ct_state' \in CtStates
  BY DEF Edge, CtrlClock, CtStep, CtStates
<1>8. ct' \in [status : BOOLEAN, rx : BOOLEAN, mem : BOOLEAN, flush : BOOLEAN, align : BOOLEAN]
  BY OutputsIs DEF Edge, CtrlClock
<1>9. mg_state' \in {"META", "DATA"}
  BY DEF Edge, MergeClock, Control, TypeOK
<1>10. mg_left' \in Int
  <2>1. mg_left \in Int
    BY DEF Control, TypeOK
  <2>2. take_meta => WordCount(Head(meta_fifo.q).len.capture) \in Nat
    <3>1. take_meta => meta_fifo.q \in Seq(MetaTypes) /\ Len(meta_fifo.q) > 0
      BY Takes, Sides, FifoIs
    <3>2. take_meta => Head(meta_fifo.q) \in MetaTypes
      BY <3>1
    <3>3. take_meta => Head(meta_fifo.q).len.capture \in Nat
      BY <3>2 DEF MetaTypes, LenTypes
    <3> QED
      BY <3>3, WordsBegin
  <2>3. mg_left' = IF take_meta THEN WordCount(Head(meta_fifo.q).len.capture)
                   ELSE IF take_data THEN mg_left - 1 ELSE mg_left
    BY DEF Edge, MergeClock
  <2> QED
    BY <2>1, <2>2, <2>3
<1>11. /\ wr_state' \in {"RST", "PASS_THROUGH", "ALIGN"} /\ align_done' \in BOOLEAN
       /\ wr_cntr' \in 0 .. WordsPerBeat - 1
  <2>1. wr_cntr \in 0 .. WordsPerBeat - 1 /\ WordsPerBeat \in Nat \ {0}
    BY Sizes DEF Control, TypeOK
  <2> QED
    BY <2>1 DEF Edge, WrapperClock, NextCntr
<1> QED
  BY <1>2, <1>3, <1>4, <1>5, <1>6, <1>7, <1>8, <1>9, <1>10, <1>11 DEF TypeOK, FifosSane

(***************************************************************************)
(* Control.                                                                *)
(***************************************************************************)
LEMMA RxGoes ==
  ASSUME Control, ~rst, NEW w \in WireTypes, NEW data_full, NEW meta_full,
         RxClock(rst, ct.rx, max_len, w, data_full, meta_full)
  PROVE  /\ rx_state = "RST" => rx_state' = "IDLE"
         /\ rx_state = "IDLE" => rx_state' = IF ct.rx THEN "START" ELSE "IDLE"
         /\ rx_state = "START" => rx_state' = IF s_axis_active THEN "START" ELSE "RECORD"
         /\ rx_state = "ERR" => rx_state' = "ERR"
         /\ rx_state = "RECORD" /\ RxStop(ct.rx) => rx_state' = "IDLE"
         /\ rx_state = "RECORD" /\ ~RxStop(ct.rx) => rx_state' \in {"RECORD", "ERR"}
         /\ rx_state = "RECORD" /\ ~RxStop(ct.rx) /\ ~w.tvalid => rx_state' = "RECORD"
         /\ rx_state # "RECORD" \/ RxStop(ct.rx) \/ ~w.tvalid =>
              ~rx_data'.wr /\ ~rx_meta'.wr
         /\ rx_active' <=> rx_state = "RECORD"
         /\ rx_meta_o'.wr <=> meta_state = "ACTIVE" /\ rx_meta.wr
<1>1. rx_state \in RxStates /\ rx_meta \in MetaTypes /\ rx_meta_o \in MetaTypes
  BY DEF Control, TypeOK, RxTypeOK
<1>2. RxWriteNothing(w) => ~rx_data'.wr /\ ~rx_meta'.wr
  BY <1>1 DEF RxWriteNothing, RxWrite, MetaTypes
<1>3. rx_active' <=> rx_state = "RECORD"
  BY DEF RxClock, RxOutputs
<1>4. rx_meta_o'.wr <=> meta_state = "ACTIVE" /\ rx_meta.wr
  BY <1>1 DEF RxClock, RxMeta, MetaTypes
<1>5. \/ RxRst(rst, w) \/ RxIdle(rst, ct.rx, w) \/ RxStart(rst, w)
      \/ RxRecordNothing(rst, ct.rx, w)
      \/ RxRecordWord(rst, ct.rx, max_len, w, data_full)
      \/ RxErr(rst, w)
  BY DEF RxClock
<1>6. CASE RxRst(rst, w)
  BY <1>2, <1>3, <1>4, <1>6 DEF RxRst, RxGoto
<1>7. CASE RxIdle(rst, ct.rx, w)
  BY <1>2, <1>3, <1>4, <1>7 DEF RxIdle, RxGoto
<1>8. CASE RxStart(rst, w)
  BY <1>2, <1>3, <1>4, <1>8 DEF RxStart, RxGoto
<1>9. CASE RxRecordNothing(rst, ct.rx, w)
  BY <1>2, <1>3, <1>4, <1>9 DEF RxRecordNothing, RxGoto
<1>10. CASE RxRecordWord(rst, ct.rx, max_len, w, data_full)
  BY <1>3, <1>4, <1>10 DEF RxRecordWord, RxGoto
<1>11. CASE RxErr(rst, w)
  BY <1>2, <1>3, <1>4, <1>11 DEF RxErr, RxGoto
<1> QED
  BY <1>5, <1>6, <1>7, <1>8, <1>9, <1>10, <1>11

LEMMA EdgeRx ==
  ASSUME Control, ~rst, NEW arrives \in BOOLEAN, NEW drain \in BOOLEAN,
         NEW prog_empty \in BOOLEAN, NEW mw_busy \in BOOLEAN,
         Edge(arrives, drain, prog_empty, mw_busy)
  PROVE  /\ rx_state = "RST" => rx_state' = "IDLE"
         /\ rx_state = "IDLE" => rx_state' = IF ct.rx THEN "START" ELSE "IDLE"
         /\ rx_state = "START" => rx_state' = IF s_axis_active THEN "START" ELSE "RECORD"
         /\ rx_state = "ERR" => rx_state' = "ERR"
         /\ rx_state = "RECORD" /\ RxStop(ct.rx) => rx_state' = "IDLE"
         /\ rx_state = "RECORD" /\ ~RxStop(ct.rx) => rx_state' \in {"RECORD", "ERR"}
         /\ rx_state = "RECORD" /\ ~RxStop(ct.rx) /\ ~arrives => rx_state' = "RECORD"
         /\ rx_state # "RECORD" \/ RxStop(ct.rx) \/ ~arrives => ~rx_data'.wr /\ ~rx_meta'.wr
         /\ rx_active' <=> rx_state = "RECORD"
         /\ rx_meta_o'.wr <=> meta_state = "ACTIVE" /\ rx_meta.wr
<1>1. Word(arrives) \in WireTypes /\ (Word(arrives).tvalid <=> arrives)
  BY WordIs DEF Edge
<1>2. RxClock(rst, ct.rx, max_len, Word(arrives), Full(data_fifo), Full(meta_fifo))
  BY DEF Edge
<1> HIDE DEF Word, Full, Edge, Control
<1> QED
  BY <1>1, <1>2, RxGoes

LEMMA EdgeCtrl ==
  ASSUME Control, NEW arrives, NEW drain, NEW prog_empty, NEW mw_busy,
         Edge(arrives, drain, prog_empty, mw_busy)
  PROVE  /\ ct'.rx <=> ct_state = "ACTIVE"
         /\ ct'.align <=> ct_state = "ALIGN"
         /\ rst => ct_state' = "IDLE"
         /\ ~rst =>
              /\ ct_state = "IDLE" => ct_state' = IF ctrl_active THEN "ACTIVE" ELSE "IDLE"
              /\ ct_state = "ACTIVE" => ct_state' = IF ctrl_active THEN "ACTIVE" ELSE "RX_DISABLE"
              /\ ct_state = "RX_DISABLE" => ct_state' = IF Quiet THEN "ALIGN" ELSE "RX_DISABLE"
              /\ ct_state = "ALIGN" => ct_state' = "WAIT_ALIGN"
              /\ ct_state = "WAIT_ALIGN" =>
                   ct_state' = IF align_done THEN "WAIT_EMPTY" ELSE "WAIT_ALIGN"
              /\ ct_state \in Stopped => ct_state' \in Stopped \cup {"IDLE"}
              /\ ct_state = "WAIT_EMPTY" => ct_state' \in {"WAIT_EMPTY", "MEM_DISABLE"}
<1>1. ct' = Outputs(ct_state)
  BY DEF Edge, CtrlClock
<1>2. (ct'.rx <=> ct_state = "ACTIVE") /\ (ct'.align <=> ct_state = "ALIGN")
  BY <1>1, OutputsIs
<1> QED
  BY <1>2 DEF Edge, CtrlClock, CtStep, Stopped

LEMMA EdgeWrapper ==
  ASSUME Control, NEW arrives, NEW drain, NEW prog_empty, NEW mw_busy,
         Edge(arrives, drain, prog_empty, mw_busy)
  PROVE  /\ rst => wr_state' = "RST"
         /\ ~rst => wr_state' = IF wr_state = "PASS_THROUGH" /\ ct.align THEN "ALIGN"
                                ELSE IF wr_state = "ALIGN" /\ wr_cntr # 0 THEN "ALIGN"
                                ELSE "PASS_THROUGH"
         /\ align_done' <=> wr_state = "ALIGN" /\ wr_cntr = 0
         /\ wr_cntr' = IF wr_state = "RST" THEN 0
                       ELSE IF Passes(take_meta \/ take_data) \/ Pads THEN NextCntr ELSE wr_cntr
BY DEF Edge, WrapperClock

LEMMA ResetKept ==
  ASSUME Control, NEW arrives \in BOOLEAN, NEW drain \in BOOLEAN, NEW prog_empty \in BOOLEAN,
         NEW mw_busy \in BOOLEAN, Edge(arrives, drain, prog_empty, mw_busy)
  PROVE  ResetInv'
<1>1. rst' = rst /\ sw' = sw /\ (rst <=> sw = "reset")
  BY DEF Edge, Control, ResetInv
<1>2. CASE rst
  <2>1. /\ ~s_axis_active' /\ ~rx_active' /\ rx_state' = "RST" /\ meta_state' = "ACTIVE"
    BY <1>2 DEF Edge, RxClock, RxOutputs, RxMeta, RxRst, RxIdle, RxStart, RxRecordNothing,
       RxRecordWord, RxErr, RxGoto
  <2>2. mg_state' = "META" /\ wr_state' = "RST"
    BY <1>2 DEF Edge, MergeClock, WrapperClock
  <2>3. /\ meta_fifo' = EmptyFifo /\ data_fifo' = EmptyFifo
        /\ stored' = <<>> /\ drained' = 0
    BY <1>2 DEF Edge, FifoClock
  <2> QED
    BY <1>1, <1>2, <2>1, <2>2, <2>3 DEF ResetInv
<1>3. CASE ~rst
  <2>1. rx_state' # "RST"
    BY <1>3, EdgeRx DEF Control, TypeOK, RxTypeOK, RxStates
  <2>2. wr_state' # "RST"
    BY <1>3, EdgeWrapper
  <2> QED
    BY <1>1, <1>3, <2>1, <2>2 DEF ResetInv
<1> QED
  BY <1>2, <1>3

LEMMA CtrlKept ==
  ASSUME Control, NEW arrives \in BOOLEAN, NEW drain \in BOOLEAN, NEW prog_empty \in BOOLEAN,
         NEW mw_busy \in BOOLEAN, Edge(arrives, drain, prog_empty, mw_busy)
  PROVE  CtrlInv'
<1>1. rst' = rst /\ sw' = sw /\ ctrl_active' = ctrl_active /\ ct_state \in CtStates
  BY DEF Edge, Control, TypeOK
<1>2. ~rst => /\ ctrl_active => sw = "capture" /\ ct_state \in {"IDLE", "ACTIVE"}
              /\ sw \in {"idle", "configured"} => ct_state = "IDLE"
  BY DEF Control, CtrlInv
<1> QED
  BY <1>1, <1>2, EdgeCtrl DEF CtrlInv

LEMMA PhaseKept ==
  ASSUME Control, NEW arrives \in BOOLEAN, NEW drain \in BOOLEAN, NEW prog_empty \in BOOLEAN,
         NEW mw_busy \in BOOLEAN, Edge(arrives, drain, prog_empty, mw_busy)
  PROVE  PhaseInv'
<1> SUFFICES ASSUME ~rst, ~unnoticed PROVE PhaseInv'
  BY DEF Edge, PhaseInv
<1>1. /\ rst' = rst /\ ctrl_active' = ctrl_active /\ ct_state \in CtStates /\ rx_state \in RxStates
      /\ rx_active \in BOOLEAN
  BY DEF Edge, Control, TypeOK, RxTypeOK
<1>2. PhaseInv /\ CtrlInv
  BY DEF Control
<1>3. /\ rx_state = "RST" => ct_state = "IDLE" /\ ~ct.rx /\ ~rx_active /\ ~rx_data.wr
                             /\ ~rx_meta.wr /\ ~rx_meta_o.wr
  BY OutputsIs DEF Control, ResetInv
<1>4. Quiet => ~rx_active
  BY DEF Quiet
<1>5. RxStop(ct.rx) => ~ct.rx
  BY DEF RxStop
<1> DEFINE RxFacts ==
         /\ rx_state = "RST" => rx_state' = "IDLE"
         /\ rx_state = "IDLE" => rx_state' = IF ct.rx THEN "START" ELSE "IDLE"
         /\ rx_state = "START" => rx_state' \in {"START", "RECORD"}
         /\ rx_state = "ERR" => rx_state' = "ERR"
         /\ rx_state = "RECORD" /\ ct.rx => rx_state' \in {"RECORD", "ERR"}
         /\ rx_state = "RECORD" => rx_state' \in {"RECORD", "ERR", "IDLE"}
         /\ rx_state # "RECORD" \/ rx_state' = "IDLE" => ~rx_data'.wr /\ ~rx_meta'.wr
         /\ rx_active' <=> rx_state = "RECORD"
         /\ rx_meta_o'.wr => rx_meta.wr
<1>6. RxFacts
  BY <1>5, EdgeRx
<1> DEFINE CtFacts ==
         /\ ct'.rx <=> ct_state = "ACTIVE"
         /\ ct_state = "IDLE" => ct_state' = IF ctrl_active THEN "ACTIVE" ELSE "IDLE"
         /\ ct_state = "ACTIVE" => ct_state' = IF ctrl_active THEN "ACTIVE" ELSE "RX_DISABLE"
         /\ ct_state = "RX_DISABLE" => ct_state' = IF Quiet THEN "ALIGN" ELSE "RX_DISABLE"
         /\ ct_state \notin {"IDLE", "ACTIVE", "RX_DISABLE"} =>
              ct_state' \notin {"ACTIVE", "RX_DISABLE"}
<1>7. CtFacts
  BY <1>1, EdgeCtrl DEF CtStates, Stopped
<1> HIDE DEF Quiet
<1>8. rx_state' \in RxStates /\ ct_state' \in CtStates
  BY TypeKept DEF TypeOK, RxTypeOK
<1> DEFINE A == rx_state' = "START" => ct_state' = "ACTIVE" /\ ct'.rx
           B == ct_state' = "ACTIVE" /\ ~ctrl_active' => (ct'.rx /\ rx_state' = "RECORD" /\ rx_active') \/ rx_state' = "ERR"
           C == ct_state' = "RX_DISABLE" => (rx_state' = "RECORD" /\ rx_active') \/ rx_state' \in {"IDLE", "ERR"}
           D == ct_state' = "RX_DISABLE" /\ ct'.rx => (rx_state' = "RECORD" /\ rx_active') \/ rx_state' = "ERR"
           E == ct_state' \notin {"ACTIVE", "RX_DISABLE"} \/ (ct_state' = "ACTIVE" /\ ~ct'.rx) =>
                  ~rx_active' /\ rx_state' \in {"RST", "IDLE", "ERR"}
           F == /\ rx_state' \in {"IDLE", "START"} => ~rx_data'.wr /\ ~rx_meta'.wr
                /\ ~rx_active' /\ rx_state' # "RECORD" => ~rx_data'.wr /\ ~rx_meta'.wr
                /\ rx_state' = "START" => ~rx_active'
                /\ rx_state' \in {"IDLE", "START"} /\ ~rx_active' => ~rx_meta_o'.wr
                /\ ct_state' = "ACTIVE" /\ rx_state' = "IDLE" => ~rx_active'
<1>a. A
  BY <1>1, <1>2, <1>3, <1>4, <1>6, <1>7, <1>8 DEF PhaseInv, CtrlInv, Recording, CtStates, RxStates
<1>b. B
  BY <1>1, <1>2, <1>3, <1>4, <1>6, <1>7, <1>8 DEF PhaseInv, CtrlInv, Recording, CtStates, RxStates
<1>c. C
  BY <1>1, <1>2, <1>3, <1>4, <1>6, <1>7, <1>8 DEF PhaseInv, CtrlInv, Recording, CtStates, RxStates
<1>d. D
  BY <1>1, <1>2, <1>3, <1>4, <1>6, <1>7, <1>8 DEF PhaseInv, CtrlInv, Recording, CtStates, RxStates
<1>e. E
  BY <1>1, <1>2, <1>3, <1>4, <1>6, <1>7, <1>8 DEF PhaseInv, CtrlInv, Recording, CtStates, RxStates
<1>f. F
  BY <1>1, <1>2, <1>3, <1>4, <1>6, <1>7, <1>8 DEF PhaseInv, CtrlInv, Recording, CtStates, RxStates
<1> QED
  BY <1>a, <1>b, <1>c, <1>d, <1>e, <1>f DEF PhaseInv, Recording

LEMMA Successor ==
  ASSUME NEW b \in Nat \ {0}, NEW n \in Nat
  PROVE  (n + 1) % b = IF n % b = b - 1 THEN 0 ELSE (n % b) + 1
<1> DEFINE d == n \div b  r == n % b
<1>1. n = b * d + r /\ d \in Nat /\ r \in Nat /\ r < b
  BY Division
<1> HIDE DEF d, r
<1>2. CASE r = b - 1
  <2>1. n + 1 = b * (d + 1)
    BY <1>1, <1>2
  <2>2. (b * (d + 1)) % b = 0
    BY <1>1
  <2> QED
    BY <2>1, <2>2, <1>2 DEF r
<1>3. CASE r # b - 1
  <2>1. n + 1 = b * d + (r + 1) /\ r + 1 \in 0 .. b - 1
    BY <1>1, <1>3
  <2>2. (b * d + (r + 1)) % b = r + 1
    BY <1>1, <2>1
  <2> QED
    BY <2>1, <2>2, <1>3 DEF r
<1> QED
  BY <1>2, <1>3

LEMMA AlignKept ==
  ASSUME Control, NEW arrives \in BOOLEAN, NEW drain \in BOOLEAN, NEW prog_empty \in BOOLEAN,
         NEW mw_busy \in BOOLEAN, Edge(arrives, drain, prog_empty, mw_busy)
  PROVE  AlignInv'
<1>1. /\ rst' = rst /\ ct_state \in CtStates /\ wr_state \in {"RST", "PASS_THROUGH", "ALIGN"}
      /\ wr_cntr \in 0 .. WordsPerBeat - 1 /\ WordsPerBeat \in Nat \ {0}
      /\ Len(stored) \in Nat
  BY Sizes DEF Edge, Control, TypeOK
<1>2. AlignInv /\ CtrlInv
  BY DEF Control
<1>3. drained' % WordsPerBeat = 0 /\ drained' <= Len(stored')
  BY FifosTyped DEF Edge
<1>4. align_done' => wr_cntr' = 0
  BY EdgeWrapper DEF Passes, Pads
<1>5. wr_state' # "RST" => Len(stored') % WordsPerBeat = wr_cntr'
  <2> SUFFICES ASSUME ~rst PROVE Len(stored') % WordsPerBeat = wr_cntr'
    BY EdgeWrapper
  <2> DEFINE moves == Passes(take_meta \/ take_data) \/ Pads
  <2>1. Len(stored') = Len(stored) + One(moves)
    BY StoredAfter DEF Edge
  <2>2. wr_cntr' = IF wr_state = "RST" THEN 0 ELSE IF moves THEN NextCntr ELSE wr_cntr
    BY EdgeWrapper
  <2>3. CASE wr_state = "RST"
    <3>1. ~moves
      BY <2>3 DEF Passes, Pads
    <3>2. Len(stored) = 0
      BY <2>3 DEF Control, ResetInv
    <3>3. 0 % WordsPerBeat = 0
      BY <1>1
    <3> HIDE DEF moves
    <3>4. One(moves) = 0
      BY <3>1 DEF One
    <3> QED
      BY <2>1, <2>2, <2>3, <3>2, <3>3, <3>4
  <2>4. CASE wr_state # "RST"
    <3>1. Len(stored) % WordsPerBeat = wr_cntr
      BY <2>4, <1>2 DEF AlignInv
    <3> HIDE DEF moves
    <3>2. CASE moves
      <4>1. Len(stored') = Len(stored) + 1
        BY <2>1, <3>2 DEF One
      <4>2. (Len(stored) + 1) % WordsPerBeat =
              IF Len(stored) % WordsPerBeat = WordsPerBeat - 1 THEN 0
              ELSE (Len(stored) % WordsPerBeat) + 1
        BY <1>1, Successor
      <4> QED
        BY <4>1, <4>2, <3>1, <3>2, <2>2, <2>4 DEF NextCntr
    <3>3. CASE ~moves
      <4>1. One(moves) = 0 /\ Len(stored) \in Nat
        BY <1>1, <3>3 DEF One
      <4>2. Len(stored') = Len(stored)
        BY <2>1, <4>1
      <4> QED
        BY <4>2, <3>1, <3>3, <2>2, <2>4
    <3> QED
      BY <3>2, <3>3
  <2> QED
    BY <2>3, <2>4
<1>6. ~rst' =>
       /\ wr_state' = "ALIGN" => ct_state' = "WAIT_ALIGN" /\ ~ct'.align
       /\ align_done' => /\ wr_state' # "ALIGN"
                         /\ \/ wr_state' = "RST"
                            \/ ct_state' \in {"WAIT_ALIGN", "WAIT_EMPTY"} /\ ~ct'.align
       /\ ct_state' = "WAIT_ALIGN" /\ ~ct'.align => wr_state' = "ALIGN" \/ align_done'
  <2> SUFFICES ASSUME ~rst
      PROVE  /\ wr_state' = "ALIGN" => ct_state' = "WAIT_ALIGN" /\ ~ct'.align
             /\ align_done' => /\ wr_state' # "ALIGN"
                               /\ \/ wr_state' = "RST"
                                  \/ ct_state' \in {"WAIT_ALIGN", "WAIT_EMPTY"} /\ ~ct'.align
             /\ ct_state' = "WAIT_ALIGN" /\ ~ct'.align => wr_state' = "ALIGN" \/ align_done'
    BY <1>1
  <2>1. /\ wr_state = "ALIGN" => ct_state = "WAIT_ALIGN" /\ ~ct.align
        /\ align_done => /\ wr_state # "ALIGN"
                         /\ \/ wr_state = "RST"
                            \/ ct_state \in {"WAIT_ALIGN", "WAIT_EMPTY"} /\ ~ct.align
        /\ ct_state = "WAIT_ALIGN" /\ ~ct.align => wr_state = "ALIGN" \/ align_done
        /\ ct.align => ct_state = "WAIT_ALIGN"
    BY <1>2 DEF AlignInv, CtrlInv
  <2>2. wr_state = "RST" => ct_state = "IDLE" /\ ~ct.align
    BY OutputsIs DEF Control, ResetInv
  <2>3. /\ wr_state' = IF wr_state = "PASS_THROUGH" /\ ct.align THEN "ALIGN"
                       ELSE IF wr_state = "ALIGN" /\ wr_cntr # 0 THEN "ALIGN"
                       ELSE "PASS_THROUGH"
        /\ (align_done' <=> wr_state = "ALIGN" /\ wr_cntr = 0)
    BY EdgeWrapper
  <2>4. /\ ct'.align <=> ct_state = "ALIGN"
        /\ ct_state = "IDLE" => ct_state' \in {"IDLE", "ACTIVE"}
        /\ ct_state = "ACTIVE" => ct_state' \in {"ACTIVE", "RX_DISABLE"}
        /\ ct_state = "RX_DISABLE" => ct_state' \in {"RX_DISABLE", "ALIGN"}
        /\ ct_state = "ALIGN" => ct_state' = "WAIT_ALIGN"
        /\ ct_state = "WAIT_ALIGN" =>
             ct_state' = IF align_done THEN "WAIT_EMPTY" ELSE "WAIT_ALIGN"
        /\ ct_state \in Stopped => ct_state' \in Stopped \cup {"IDLE"}
    BY EdgeCtrl
  <2> QED
    BY <1>1, <2>1, <2>2, <2>3, <2>4 DEF CtStates, Stopped
<1> QED
  BY <1>3, <1>4, <1>5, <1>6 DEF AlignInv

LEMMA LenKept ==
  ASSUME Control, NEW arrives \in BOOLEAN, NEW drain \in BOOLEAN, NEW prog_empty \in BOOLEAN,
         NEW mw_busy \in BOOLEAN, Edge(arrives, drain, prog_empty, mw_busy)
  PROVE  LenInv'
BY DEF Control, LenInv, Edge

LEMMA ControlClock == ASSUME Control, Clock PROVE Control'
<1>1. PICK a \in BOOLEAN, d \in BOOLEAN, e \in BOOLEAN, b \in BOOLEAN : Edge(a, d, e, b)
  BY ClockIsEdge
<1> HIDE DEF Edge
<1> QED
  BY <1>1, TypeKept, ResetKept, CtrlKept, PhaseKept, AlignKept, LenKept DEF Control

-----------------------------------------------------------------------------
(***************************************************************************)
(* Types and control from the beginning and under software.                *)
(***************************************************************************)
LEMMA ControlInit == ASSUME Init PROVE Control
<1> USE Sizes DEF Init, RxInit, MergeInit, CtrlInit
<1>1. Padding \in ItemTypes /\ NoMeta \in MetaTypes /\ NoLength \in LenTypes
  BY DEF Padding, Item, ItemTypes, NoMeta, NoLength, MetaTypes, LenTypes
<1>2. ASSUME NEW S PROVE EmptyFifo \in FifoTypes(S) /\ FifoSane(EmptyFifo)
  <2>1. <<>> \in Seq(S) /\ Len(<<>>) = 0
    OBVIOUS
  <2> QED
    BY <2>1 DEF EmptyFifo, FifoTypes, FifoSane
<1>3. RxTypeOK
  BY <1>1 DEF RxTypeOK, RxStates
<1>4. TypeOK
  <2>1. ct \in [status : BOOLEAN, rx : BOOLEAN, mem : BOOLEAN, flush : BOOLEAN, align : BOOLEAN]
    BY OutputsIs
  <2>2. stored \in Seq(ItemTypes)
    OBVIOUS
  <2>3. wr_cntr \in 0 .. WordsPerBeat - 1
    OBVIOUS
  <2>4. meta_fifo \in FifoTypes(MetaTypes) /\ data_fifo \in FifoTypes(ItemTypes)
    BY <1>2
  <2>5. /\ mg_state \in {"META", "DATA"} /\ wr_state \in {"RST", "PASS_THROUGH", "ALIGN"}
        /\ align_done \in BOOLEAN /\ ctrl_active \in BOOLEAN /\ rst \in BOOLEAN
    OBVIOUS
  <2>7. ct_state \in CtStates /\ max_len \in MaxLens
    BY DEF CtStates
  <2>8. mg_left \in Int /\ pkt \in Nat \ {0} /\ sent \in Nat /\ drained \in Nat
    OBVIOUS
  <2>6. sw \in {"idle", "configured", "capture", "reset"} /\ unnoticed \in BOOLEAN
    OBVIOUS
  <2> QED
    BY <1>3, <2>1, <2>2, <2>3, <2>4, <2>5, <2>6, <2>7, <2>8 DEF TypeOK
<1>5. NetInv
  BY DEF NetInv
<1>6. ResetInv
  BY DEF ResetInv
<1>7. CtrlInv /\ PhaseInv /\ LenInv
  BY OutputsIs, <1>1 DEF CtrlInv, PhaseInv, LenInv, Recording, NoMeta
<1>8. AlignInv
  <2>1. 0 % WordsPerBeat = 0 /\ Len(<<>>) = 0
    OBVIOUS
  <2> QED
    BY <2>1 DEF AlignInv
<1> QED
  BY <1>2, <1>4, <1>5, <1>6, <1>7, <1>8 DEF Control, FifosSane

LEMMA Whole ==
  ASSUME NEW b \in Nat \ {0}, NEW n \in Nat, NEW d \in Nat, d <= n, d % b = 0
  PROVE  (n - d) % b = n % b
<1> DEFINE q == n \div b  r == n % b  k == d \div b
<1>1. /\ n = b * q + r /\ q \in Nat /\ r \in 0 .. b - 1
      /\ d = b * k /\ k \in Nat
  <2>1. n = b * q + r /\ q \in Nat /\ r \in 0 .. b - 1
    BY Division
  <2>2. d = b * k + (d % b) /\ k \in Nat
    BY Division
  <2> HIDE DEF q, r, k
  <2>3. b * k \in Nat
    BY <2>2
  <2> QED
    BY <2>1, <2>2, <2>3
<1> HIDE DEF q, r, k
<1>2. n - d = b * (q - k) + r
  BY <1>1
<1>3. k <= q
  <2> SUFFICES ASSUME k >= q + 1 PROVE FALSE
    BY <1>1
  <2>1. b * k >= b * (q + 1) /\ b * (q + 1) = b * q + b
    BY <1>1
  <2>2. b * q \in Nat /\ b * k \in Nat
    BY <1>1
  <2> QED
    BY <1>1, <2>1, <2>2
<1>4. (b * (q - k) + r) % b = r
  BY <1>1, <1>3
<1> QED
  BY <1>2, <1>4 DEF r

LEMMA ControlConfigure == ASSUME Control, SwConfigure PROVE Control'
<1> USE DEF SwConfigure, rxVars, mgVars, ctVars, netVars
<1>1. /\ stored \in Seq(ItemTypes) /\ Len(stored) \in Nat /\ drained \in Nat
      /\ drained <= Len(stored) /\ drained % WordsPerBeat = 0 /\ WordsPerBeat \in Nat \ {0}
      /\ ~rst /\ ct_state = "IDLE"
  BY Sizes DEF Control, TypeOK, AlignInv, ResetInv, CtrlInv
<1>2. stored' \in Seq(ItemTypes) /\ Len(stored') = Len(stored) - drained /\ drained' = 0
  BY <1>1
<1>3. (Len(stored) - drained) % WordsPerBeat = Len(stored) % WordsPerBeat
  BY <1>1, Whole
<1>4. TypeOK'
  <2>1. RxTypeOK'
    BY DEF Control, TypeOK, RxTypeOK
  <2> QED
    BY <1>2, <2>1 DEF Control, TypeOK
<1>5. FifosSane' /\ NetInv' /\ CtrlInv' /\ PhaseInv' /\ LenInv'
  BY <1>1 DEF Control, FifosSane, FifoSane, NetInv, CtrlInv, PhaseInv, LenInv, Recording, WireWords
<1>6. ResetInv'
  <2>1. rx_state = "RST" => stored' = <<>>
    <3>1. rx_state = "RST" => Len(stored) = 0
      BY DEF Control, ResetInv
    <3>2. rx_state = "RST" => Len(stored') = 0
      BY <1>1, <1>2, <3>1
    <3> QED
      BY <1>2, <3>2, EmptyIs
  <2> QED
    BY <2>1, <1>1 DEF Control, ResetInv
<1>7. AlignInv'
  <2>1. 0 % WordsPerBeat = 0 /\ 0 <= Len(stored')
    BY <1>1, <1>2
  <2> QED
    BY <2>1, <1>1, <1>2, <1>3 DEF Control, AlignInv
<1> QED
  BY <1>4, <1>5, <1>6, <1>7 DEF Control

(* The other actions of software change a few registers.                   *)
Others == /\ UNCHANGED <<rxVars, mgVars, ctVars, max_len, netVars, fifoVars>>
          /\ ctrl_active' \in BOOLEAN /\ rst' \in BOOLEAN
          /\ sw' \in {"idle", "configured", "capture", "reset"} /\ unnoticed' \in BOOLEAN

LEMMA OthersKeep ==
  ASSUME Control, Others
  PROVE  /\ TypeOK' /\ FifosSane'
         /\ pkt' = pkt /\ sent' = sent /\ WireWords(pkt)' = WireWords(pkt)
<1> USE DEF Others, rxVars, mgVars, ctVars, netVars, fifoVars
<1>1. RxTypeOK'
  BY DEF Control, TypeOK, RxTypeOK
<1>2. TypeOK'
  BY <1>1 DEF Control, TypeOK
<1>3. FifosSane'
  BY DEF Control, FifosSane, FifoSane
<1>4. pkt' = pkt /\ sent' = sent /\ WireWords(pkt)' = WireWords(pkt)
  BY DEF WireWords
<1> QED
  BY <1>2, <1>3, <1>4

LEMMA ControlOthers ==
  ASSUME Control, SwStart \/ SwStop \/ SwFinish \/ SwReset \/ SwRelease
  PROVE  Control' /\ Others
<1>0. rst \in BOOLEAN /\ ctrl_active \in BOOLEAN /\ unnoticed \in BOOLEAN
      /\ sw \in {"idle", "configured", "capture", "reset"}
      /\ ct_state \in CtStates /\ rx_state \in RxStates
  BY DEF Control, TypeOK, RxTypeOK
<1>1. Others
  BY <1>0 DEF Others, SwStart, SwStop, SwFinish, SwReset, SwRelease, Note
<1>2. TypeOK' /\ FifosSane' /\ pkt' = pkt /\ sent' = sent /\ WireWords(pkt)' = WireWords(pkt)
  BY <1>1, OthersKeep
<1> USE DEF Others, rxVars, mgVars, ctVars, netVars, fifoVars
<1>3. NetInv'
  <2>1. ~rst' => (s_axis_active' <=> sent' > 0)
    BY <1>0, <1>1 DEF Control, NetInv, ResetInv, TypeOK, SwStart, SwStop, SwFinish, SwReset, SwRelease
  <2> HIDE DEF WireWords
  <2> QED
    BY <1>1, <1>2, <2>1 DEF Control, NetInv
<1>4. ResetInv'
  BY <1>0, <1>1 DEF Control, ResetInv, SwStart, SwStop, SwFinish, SwReset, SwRelease
<1>5. CtrlInv'
  <2>1. CASE SwStart
    BY <1>0, <1>1, <2>1 DEF Control, CtrlInv, SwStart
  <2>2. CASE SwStop
    BY <1>0, <1>1, <2>2 DEF Control, CtrlInv, SwStop
  <2>3. CASE SwFinish
    BY <1>0, <1>1, <2>3 DEF Control, CtrlInv, SwFinish
  <2>4. CASE SwReset
    BY <1>0, <1>1, <2>4 DEF Control, CtrlInv, SwReset
  <2>5. CASE SwRelease
    BY <1>0, <1>1, <2>5, OutputsIs DEF Control, CtrlInv, SwRelease
  <2> QED
    BY <2>1, <2>2, <2>3, <2>4, <2>5
<1>6. PhaseInv'
  <2>1. CASE SwStart
    BY <1>0, <1>1, <2>1 DEF Control, PhaseInv, CtrlInv, ResetInv, Recording, SwStart, Note
  <2>2. CASE SwStop
    <3> SUFFICES ASSUME ~rst, ~unnoticed' PROVE PhaseInv'
      BY <2>2 DEF SwStop, PhaseInv
    <3>1. ~unnoticed /\ (rx_active \/ rx_state = "ERR")
      BY <2>2 DEF SwStop, Note
    <3>2. PhaseInv /\ (rx_state = "RST" => ~rx_active)
      BY DEF Control, ResetInv
    <3> QED
      BY <1>0, <1>1, <3>1, <3>2 DEF PhaseInv, Recording, RxStates
  <2>3. CASE SwFinish
    BY <1>0, <1>1, <2>3 DEF Control, PhaseInv, ResetInv, Recording, SwFinish
  <2>4. CASE SwReset
    BY <1>0, <1>1, <2>4 DEF PhaseInv, SwReset
  <2>5. CASE SwRelease
    BY <1>0, <1>1, <2>5, OutputsIs DEF Control, PhaseInv, ResetInv, Recording, SwRelease
  <2> QED
    BY <2>1, <2>2, <2>3, <2>4, <2>5
<1>7. AlignInv'
  <2>1. CASE SwRelease
    BY <1>1, <2>1 DEF Control, AlignInv, SwRelease
  <2>2. CASE ~SwRelease
    <3>1. rst => rst'
      BY <2>2 DEF SwStart, SwStop, SwFinish, SwReset
    <3> QED
      BY <1>1, <3>1 DEF Control, AlignInv
  <2> QED
    BY <2>1, <2>2
<1>8. LenInv'
  BY <1>0, <1>1 DEF Control, LenInv, SwStart, SwStop, SwFinish, SwReset, SwRelease, Note
<1> QED
  BY <1>1, <1>2, <1>3, <1>4, <1>5, <1>6, <1>7, <1>8 DEF Control

LEMMA ControlStill == ASSUME Control, UNCHANGED vars PROVE Control'
<1> USE DEF vars, rxVars, mgVars, ctVars, ctlVars, netVars, fifoVars
<1>1. Others
  BY DEF Others, Control, TypeOK
<1>2. TypeOK' /\ FifosSane' /\ pkt' = pkt /\ sent' = sent /\ WireWords(pkt)' = WireWords(pkt)
  BY <1>1, OthersKeep
<1>3. NetInv'
  BY <1>2 DEF Control, NetInv
<1>4. ResetInv' /\ CtrlInv' /\ PhaseInv' /\ AlignInv' /\ LenInv'
  BY DEF Control, ResetInv, CtrlInv, PhaseInv, AlignInv, LenInv, Recording
<1> QED
  BY <1>2, <1>3, <1>4 DEF Control

-----------------------------------------------------------------------------
(***************************************************************************)
(* A clock edge while the receiver records, or has just been stopped.      *)
(***************************************************************************)
Flowing == /\ ~rst /\ ct_state \in {"ACTIVE", "RX_DISABLE"}
           /\ rx_state \in {"RECORD", "IDLE", "ERR"}
           /\ rx_state = "IDLE" => ~ct.rx

(* Such an edge, at which no word is lost unnoticed.                       *)
Flow(arrives, drain, prog_empty, mw_busy) ==
  /\ Control /\ Flowing /\ ~unnoticed /\ ~unnoticed'
  /\ Edge(arrives, drain, prog_empty, mw_busy)

(* A word is recorded, and the last one of a packet.                       *)
Recorded(arrives) == rx_state = "RECORD" /\ ~RxStop(ct.rx) /\ arrives
Ended(arrives)    == Recorded(arrives) /\ sent + 1 = WireWords(pkt)

LEMMA MaxLen == ASSUME Control, Flowing, ~unnoticed PROVE max_len \in Nat \ {0}
<1>1. max_len \in Nat
  BY Sizes DEF Control, TypeOK
<1>2. sw = "capture"
  BY DEF Control, TypeOK, CtrlInv, ResetInv, Flowing
<1> QED
  BY <1>1, <1>2 DEF Control, LenInv

LEMMA Flows ==
  ASSUME NEW arrives \in BOOLEAN, NEW drain \in BOOLEAN, NEW prog_empty \in BOOLEAN,
         NEW mw_busy \in BOOLEAN, Flow(arrives, drain, prog_empty, mw_busy)
  PROVE  /\ wr_state = "PASS_THROUGH"
         /\ rx_data.wr /\ Full(data_fifo) => rx_state = "ERR"
         /\ rx_meta_o.wr /\ Full(meta_fifo) => meta_state = "ERR"
         /\ max_len' = max_len /\ rst' = rst
         /\ arrives => MayArrive
         /\ FifoAfter(MetaTypes, meta_fifo, meta_fifo', rx_meta_o.wr, rx_meta_o, take_meta)
         /\ FifoAfter(ItemTypes, data_fifo, data_fifo', rx_data.wr, rx_data.din, take_data)
         /\ take_meta \/ take_data => stored' = Append(stored, MergedWord)
         /\ ~take_meta /\ ~take_data => stored' = stored
<1>1. wr_state = "PASS_THROUGH"
  <2>1. wr_state # "ALIGN" /\ wr_state # "RST"
    BY DEF Flow, Flowing, Control, AlignInv, ResetInv
  <2> QED
    BY <2>1 DEF Flow, Control, TypeOK
<1>2. /\ rx_data.wr /\ Full(data_fifo) => rx_state = "ERR"
      /\ rx_meta_o.wr /\ Full(meta_fifo) => meta_state = "ERR"
      /\ max_len' = max_len /\ rst' = rst
      /\ arrives => MayArrive
  BY DEF Flow, Edge, LostUnseen
<1>3. Control /\ ~rst /\ FifoClock(drain)
  BY DEF Flow, Flowing, Edge
<1>4. /\ FifoAfter(MetaTypes, meta_fifo, meta_fifo', rx_meta_o.wr, rx_meta_o, take_meta)
      /\ FifoAfter(ItemTypes, data_fifo, data_fifo', rx_data.wr, rx_data.din, take_data)
  BY <1>3, FifosAfter
<1>5. (Passes(take_meta \/ take_data) <=> take_meta \/ take_data) /\ ~Pads
  BY <1>1 DEF Passes, Pads
<1> QED
  BY <1>1, <1>2, <1>3, <1>4, <1>5, StoredAfter

(* The packet whose record is written has arrived.                         *)
LEMMA Writing ==
  ASSUME Control, NEW mp, NEW rp, RangeInv(mp, rp), mp < rp
  PROVE  mp \in 1 .. Len(PktLens) /\ PktLens[mp] \in Nat \ {0}
<1>1. mp \in Nat \ {0} /\ rp \in Nat /\ rp <= pkt /\ pkt \in Nat /\ pkt <= Len(PktLens) + 1
  BY DEF RangeInv, Control, TypeOK, NetInv
<1>2. mp \in 1 .. Len(PktLens)
  BY <1>1, Sizes
<1> QED
  BY <1>2, Packet

(* The merge module takes the words in their order.                        *)
MergeAfter(mp, mp2, rp) ==
  LET m     == max_len
      gone  == Gone(m, mp, mg_state, mg_left)
      gone2 == Gone(m, mp2, mg_state', mg_left')
      first == First(m, mp, mg_state, mg_left)
  IN  /\ mp2 \in Nat \ {0} /\ mp2 <= rp
      /\ mg_state' = "DATA" => mp2 < rp /\ mg_left' \in 1 .. Cut(m, mp2)
      /\ gone \in Nat
      /\ First(m, mp2, mg_state', mg_left') = IF take_data THEN NextData(m, first) ELSE first
      /\ Base(mp2, mg_state') = Base(mp, mg_state) + One(take_meta)
      /\ take_meta => /\ MergedWord = Meta(mp)
                      /\ mp2 = mp /\ mg_state' = "DATA" /\ gone2 = 0
      /\ take_data =>
           /\ MergedWord = Data(mp, gone + 1) /\ gone + 1 \in 1 .. Cut(m, mp)
           /\ \/ mp2 = mp /\ mg_state' = "DATA" /\ gone2 = gone + 1
              \/ mp2 = mp + 1 /\ mg_state' = "META" /\ gone + 1 = Cut(m, mp)
      /\ ~take_meta /\ ~take_data =>
           mp2 = mp /\ mg_state' = mg_state /\ mg_left' = mg_left /\ gone2 = gone

LEMMA MergeMoves ==
  ASSUME NEW arrives \in BOOLEAN, NEW drain \in BOOLEAN, NEW prog_empty \in BOOLEAN,
         NEW mw_busy \in BOOLEAN, Flow(arrives, drain, prog_empty, mw_busy),
         NEW mp, NEW rp, RangeInv(mp, rp), DataChain(mp, rp), MetaChain(mp, rp),
         NEW mp2, mp2 = mp + One(take_data /\ mg_left = 1)
  PROVE  MergeAfter(mp, mp2, rp)
<1> DEFINE m     == max_len
           gone  == Gone(m, mp, mg_state, mg_left)
           first == First(m, mp, mg_state, mg_left)
<1>0. m \in Nat \ {0}
  BY MaxLen DEF Flow
<1>1. Control /\ ~rst /\ m \in Nat \ {0} /\ mg_state \in {"META", "DATA"} /\ mg_left \in Int
  BY <1>0 DEF Flow, Flowing, Control, TypeOK
<1>2. /\ mp \in Nat \ {0} /\ rp \in Nat /\ mp <= rp
      /\ mg_state = "DATA" => mp < rp /\ mg_left \in 1 .. Cut(m, mp)
  BY DEF RangeInv
<1>3. MergeClock(rst, take_meta, take_data,
                 IF take_meta THEN Head(meta_fifo.q).len.capture ELSE 0)
  BY DEF Flow, Edge
<1>t. /\ take_meta \in BOOLEAN /\ take_data \in BOOLEAN
      /\ take_meta => mg_state = "META" /\ ~Empty(meta_fifo) /\ meta_fifo.q # <<>> /\ ~take_data
      /\ take_data => mg_state = "DATA" /\ ~Empty(data_fifo) /\ data_fifo.q # <<>> /\ ~take_meta
  BY <1>1, Takes
<1> HIDE DEF m
<1>4. CASE take_meta
  <2>1. mg_state = "META" /\ ~take_data /\ mp2 = mp
    BY <1>2, <1>4, <1>t DEF One
  <2>2. /\ meta_fifo.q \in Seq(MetaTypes) /\ Len(meta_fifo.q) \in Nat /\ Len(meta_fifo.q) > 0
    BY <1>1, <1>4, <1>t, Sides, FifoIs
  <2>3. Base(mp, mg_state) = mp
    BY <1>2, <2>1 DEF Base, One
  <2>4. meta_fifo.q[1] = MetaOf(m, mp)
    <3>1. meta_fifo.q[1] = MetaOf(m, Base(mp, mg_state) + 1 - 1)
      BY <2>2 DEF MetaChain, m
    <3>2. Base(mp, mg_state) + 1 - 1 = mp
      BY <2>3, <1>2
    <3> QED
      BY <3>1, <3>2
  <2>5. mp < rp
    <3>1. /\ MetaEnd(mp) + One(rx_meta_o.wr) + One(rx_meta.wr) <= rp
          /\ MetaEnd(mp) = mp + Len(meta_fifo.q)
      BY <2>3 DEF MetaChain, MetaEnd
    <3>2. One(rx_meta_o.wr) \in {0, 1} /\ One(rx_meta.wr) \in {0, 1}
      BY DEF One
    <3> QED
      BY <3>1, <3>2, <2>2, <1>2
  <2>6. mp \in 1 .. Len(PktLens)
    BY <2>5, <1>1, Writing
  <2>7. Cut(m, mp) \in Nat \ {0}
    BY <2>6, <1>1, CutSome DEF m
  <2>8. /\ MetaOf(m, mp).tuser = mp /\ MetaOf(m, mp).len.wire = PktLens[mp]
        /\ WordCount(MetaOf(m, mp).len.capture) = Cut(m, mp)
    BY DEF MetaOf, Cut
  <2>9. MergedWord = Meta(mp)
    <3>1. MergedWord = Item("meta", meta_fifo.q[1].tuser, meta_fifo.q[1].len.wire)
      BY <1>1, <1>4, MergedWordIs
    <3> QED
      BY <3>1, <2>4, <2>8 DEF Meta
  <2>10. mg_left' = Cut(m, mp) /\ mg_state' = "DATA"
    <3>1. Head(meta_fifo.q).len.capture = MetaOf(m, mp).len.capture
      BY <2>2, <2>4
    <3>2. WordCount(Head(meta_fifo.q).len.capture) = Cut(m, mp)
      BY <3>1, <2>8
    <3> HIDE DEF WordCount, MetaOf, Cut
    <3> QED
      BY <3>2, <2>7, <1>1, <1>3, <1>4 DEF MergeClock
  <2>11. gone = 0 /\ Gone(m, mp2, mg_state', mg_left') = 0
    <3>1. gone = 0
      BY <2>1 DEF Gone
    <3>2. Gone(m, mp2, mg_state', mg_left') = Cut(m, mp) - Cut(m, mp)
      BY <2>1, <2>10 DEF Gone
    <3>3. Cut(m, mp) - Cut(m, mp) = 0
      BY <2>7
    <3> QED
      BY <3>1, <3>2, <3>3
  <2>12. First(m, mp2, mg_state', mg_left') = first
    BY <2>1, <2>11 DEF First
  <2>13. Base(mp2, mg_state') = Base(mp, mg_state) + One(take_meta)
    BY <1>2, <1>4, <2>1, <2>3, <2>10 DEF Base, One
  <2>14. mg_left' \in 1 .. Cut(m, mp)
    BY <2>7, <2>10
  <2>15. mg_left' \in 1 .. Cut(m, mp2) /\ mp2 < rp /\ mp2 \in Nat \ {0} /\ mp2 <= rp
    BY <1>2, <2>1, <2>5, <2>14
  <2>16. mg_state' = "DATA" /\ mp2 = mp /\ gone \in Nat /\ ~take_data
    BY <2>1, <2>10, <2>11
  <2> HIDE DEF first, gone
  <2> QED
    BY <1>4, <2>9, <2>11, <2>12, <2>13, <2>15, <2>16 DEF MergeAfter, m, first, gone
<1>5. CASE take_data
  <2>1. mg_state = "DATA" /\ ~take_meta /\ mg_left \in 1 .. Cut(m, mp) /\ mp < rp
    BY <1>2, <1>5, <1>t
  <2>2. mp \in 1 .. Len(PktLens)
    BY <1>1, <2>1, Writing
  <2>3. Cut(m, mp) \in Nat \ {0}
    BY <2>2, <1>1, CutSome DEF m
  <2>4. gone = Cut(m, mp) - mg_left /\ gone \in Nat /\ gone + 1 \in 1 .. Cut(m, mp)
    BY <2>1, <2>3 DEF Gone
  <2>5. first = Data(mp, gone + 1) /\ first.pkt = mp /\ first.val = gone + 1
    BY <2>4, <1>2, DataIs DEF First
  <2>6. MergedWord = first
    <3>1. data_fifo.q # <<>>
      BY <1>5, <1>t
    <3>2. data_fifo.q[1] = first
      BY <3>1 DEF DataChain, Linked, m
    <3> QED
      BY <3>2, <1>1, <1>5, MergedWordIs
  <2>7. mg_left' = mg_left - 1 /\ mg_state' = IF mg_left = 1 THEN "META" ELSE "DATA"
    BY <1>1, <1>3, <1>5, <2>1 DEF MergeClock
  <2>8. Base(mp, mg_state) = mp + 1 /\ One(take_meta) = 0
    BY <2>1 DEF Base, One
  <2> HIDE DEF gone, first
  <2>9. CASE mg_left = 1
    <3>1. mp2 = mp + 1 /\ mg_state' = "META" /\ gone + 1 = Cut(m, mp)
      BY <1>2, <1>5, <2>3, <2>4, <2>7, <2>9 DEF One
    <3>2. NextData(m, first) = Data(mp + 1, 1)
      BY <2>5, <3>1, <2>3 DEF NextData
    <3>3. First(m, mp2, mg_state', mg_left') = NextData(m, first)
      BY <3>1, <3>2 DEF First, Gone
    <3>4. Base(mp2, mg_state') = mp + 1 + 0
      BY <3>1, <1>2 DEF Base, One
    <3> QED
      BY <1>2, <1>5, <2>1, <2>4, <2>5, <2>6, <2>8, <3>1, <3>3, <3>4 DEF MergeAfter, m, gone, first
  <2>10. CASE mg_left # 1
    <3>1. mp2 = mp /\ mg_state' = "DATA" /\ mg_left' \in 1 .. Cut(m, mp)
      BY <1>2, <2>1, <2>3, <2>7, <2>10 DEF One
    <3>2. Gone(m, mp2, mg_state', mg_left') = gone + 1 /\ gone + 1 < Cut(m, mp)
      BY <3>1, <2>1, <2>3, <2>4, <2>7, <2>10 DEF Gone
    <3>3. NextData(m, first) = Data(mp, gone + 1 + 1)
      BY <2>5, <3>2 DEF NextData
    <3>4. First(m, mp2, mg_state', mg_left') = NextData(m, first)
      BY <3>1, <3>2, <3>3 DEF First
    <3>5. Base(mp2, mg_state') = mp + 1 + 0
      BY <3>1, <1>2 DEF Base, One
    <3> QED
      BY <1>2, <1>5, <2>1, <2>4, <2>5, <2>6, <2>8, <3>1, <3>2, <3>4, <3>5 DEF MergeAfter, m, gone, first
  <2> QED
    BY <2>9, <2>10
<1>6. CASE ~take_meta /\ ~take_data
  <2>1. mp2 = mp /\ mg_state' = mg_state /\ mg_left' = mg_left
    BY <1>1, <1>2, <1>3, <1>6 DEF MergeClock, One
  <2>2. gone \in Nat
    <3>1. CASE mg_state = "DATA"
      <4>1. Cut(m, mp) \in Nat
        BY <3>1, <1>1, <1>2, Writing, CutSome DEF m
      <4> QED
        BY <3>1, <4>1, <1>2 DEF Gone
    <3>2. CASE mg_state # "DATA"
      BY <3>2 DEF Gone
    <3> QED
      BY <3>1, <3>2
  <2>3. Base(mp, mg_state) \in Nat /\ One(take_meta) = 0
    BY <1>2, <1>6 DEF Base, One
  <2> HIDE DEF first
  <2>4. First(m, mp2, mg_state', mg_left') = first
    BY <2>1 DEF first
  <2>5. Base(mp2, mg_state') = Base(mp, mg_state) + One(take_meta)
    BY <2>1, <2>3
  <2>6. Gone(m, mp2, mg_state', mg_left') = gone
    BY <2>1
  <2>7. mg_state' = "DATA" => mp2 < rp /\ mg_left' \in 1 .. Cut(m, mp2)
    BY <2>1, <1>2
  <2> HIDE DEF gone
  <2> QED
    BY <1>2, <1>6, <2>1, <2>2, <2>4, <2>5, <2>6, <2>7 DEF MergeAfter, m, first, gone
<1> QED
  BY <1>4, <1>5, <1>6

(* The lengths are cut at the capture length.                              *)
LEMMA CutLength ==
  ASSUME NEW a \in Nat, NEW k \in Nat \ {0}, NEW m \in Nat
  PROVE  (IF Shorter(a, m) + k > m THEN m ELSE Shorter(a, m) + k) = Shorter(a + k, m)
BY DEF Shorter

LEMMA LengthsAre ==
  ASSUME NEW m \in Nat, NEW a \in Nat, NEW w, NEW k \in Nat \ {0}, WordLen(w) = k,
         rx_len = [capture |-> Shorter(a, m), wire |-> a]
  PROVE  Lengths(w, m) = [capture |-> Shorter(a + k, m), wire |-> a + k]
<1>1. rx_len.capture = Shorter(a, m) /\ rx_len.wire = a
  BY Zenon
<1>2. Lengths(w, m) = [capture |-> IF Shorter(a, m) + k > m THEN m ELSE Shorter(a, m) + k,
                       wire |-> a + k]
  BY <1>1 DEF Lengths
<1>3. (IF Shorter(a, m) + k > m THEN m ELSE Shorter(a, m) + k) = Shorter(a + k, m)
  BY CutLength
<1> QED
  BY <1>2, <1>3

(* The receiver goes on with the packet.  rp2: the packet received then.   *)
ReceiverAfter(mp, rp, rp2) ==
  LET m    == max_len
      next == IF rx_data'.wr THEN NextData(m, rx_data'.din) ELSE DataNext(mp)
  IN  /\ rp2 \in Nat /\ rp <= rp2 /\ rp2 <= pkt'
      /\ rp2 = rp + One(rx_meta'.wr)
      /\ rx_meta'.wr => rx_meta' = MetaOf(m, rp)
      /\ rx_state # "RECORD" => ~rx_data'.wr /\ ~rx_meta'.wr
      /\ rx_data'.wr \/ rx_meta'.wr => rx_state' \in {"RECORD", "ERR"}
      /\ rx_data'.wr => /\ rx_data'.din = DataNext(mp)
                        /\ DataWord(m, rx_data'.din, rp2)
                        /\ rx_data'.din.val = 1 => rx_data'.din.pkt = rp2
                        /\ rx_data'.din.pkt >= rp2 - One(rx_meta'.wr)
      /\ rx_state' = "RECORD" =>
           /\ rp2 = pkt' /\ next = DataAfter(m, pkt', sent')
           /\ rx_len' = [capture |-> Shorter(sent' * WordBytes, m),
                         wire |-> sent' * WordBytes]
      /\ rx_state' = "IDLE" => next = Data(rp2, 1)
      /\ rx_state # "ERR" => ~(next.pkt < rp2)
      /\ rx_state' \in {"RECORD", "IDLE", "ERR"}
      /\ rx_state' = "RECORD" => rx_state = "RECORD"
      /\ rx_state' = "IDLE" => rx_state \in {"RECORD", "IDLE"}

LEMMA AfterIs ==
  ASSUME NEW m, NEW p \in Nat, NEW n \in Nat
  PROVE  DataAfter(m, p, n).pkt \in Nat /\ DataAfter(m, p, n).pkt >= p
<1>1. DataAfter(m, p, n) = Data(p, n + 1) \/ DataAfter(m, p, n) = Data(p + 1, 1)
  BY DEF DataAfter
<1>2. Data(p, n + 1).pkt = p /\ Data(p + 1, 1).pkt = p + 1
  BY DataIs
<1> QED
  BY <1>1, <1>2

LEMMA ReceiverMoves ==
  ASSUME NEW arrives \in BOOLEAN, NEW drain \in BOOLEAN, NEW prog_empty \in BOOLEAN,
         NEW mw_busy \in BOOLEAN, Flow(arrives, drain, prog_empty, mw_busy),
         NEW mp, NEW rp, RangeInv(mp, rp), ReceiverInv(mp, rp),
         NEW rp2, rp2 = rp + One(Ended(arrives))
  PROVE  ReceiverAfter(mp, rp, rp2)
<1> DEFINE m == max_len  d == DataNext(mp)  w == Word(arrives)
           next == IF rx_data'.wr THEN NextData(m, rx_data'.din) ELSE d
<1>0. m \in Nat \ {0}
  BY MaxLen DEF Flow
<1>1. /\ Control /\ ~rst /\ m \in Nat \ {0}
      /\ rx_state \in {"RECORD", "IDLE", "ERR"} /\ (rx_state = "IDLE" => ~ct.rx)
      /\ pkt \in Nat \ {0} /\ sent \in Nat /\ pkt <= Len(PktLens) + 1
      /\ s_axis_active <=> sent > 0
      /\ WordBytes \in Nat \ {0} /\ 0 * WordBytes = 0
      /\ rx_data.wr \in BOOLEAN
  BY <1>0, Sizes, Sides DEF Flow, Flowing, Control, TypeOK, NetInv
<1>2. rp \in Nat /\ rp <= pkt
  BY DEF RangeInv
<1>3. /\ NetClock(arrives) /\ (arrives => MayArrive)
      /\ RxClock(rst, ct.rx, m, w, Full(data_fifo), Full(meta_fifo))
  BY DEF Flow, Edge
<1>4. /\ rx_state = "IDLE" => rx_state' = "IDLE"
      /\ rx_state = "ERR" => rx_state' = "ERR"
      /\ rx_state = "RECORD" /\ RxStop(ct.rx) => rx_state' = "IDLE"
      /\ rx_state = "RECORD" /\ ~RxStop(ct.rx) => rx_state' \in {"RECORD", "ERR"}
      /\ rx_state = "RECORD" /\ ~RxStop(ct.rx) /\ ~arrives => rx_state' = "RECORD"
      /\ ~Recorded(arrives) => ~rx_data'.wr /\ ~rx_meta'.wr
  BY <1>1, EdgeRx DEF Flow, Recorded
<1>5. pkt' \in Nat /\ sent' \in Nat /\ pkt <= pkt'
      /\ (~arrives => pkt' = pkt /\ sent' = sent)
  <2>1. CASE arrives
    BY <1>1, <1>3, <2>1 DEF NetClock, netVars
  <2>2. CASE ~arrives
    BY <1>1, <1>3, <2>2 DEF NetClock, netVars
  <2> QED
    BY <2>1, <2>2
<1> HIDE DEF m, d, w
<1>6. CASE ~Recorded(arrives)
  <2>1. rp2 = rp /\ ~rx_data'.wr /\ ~rx_meta'.wr /\ next = d
    BY <1>2, <1>4, <1>6 DEF Ended, One
  <2>2. rp2 = rp + One(rx_meta'.wr) /\ rp2 \in Nat /\ rp <= rp2 /\ rp2 <= pkt'
    BY <2>1, <1>1, <1>2, <1>5 DEF One
  <2>3. CASE rx_state = "ERR"
    <3>1. rx_state' = "ERR"
      BY <1>4, <2>3
    <3> HIDE DEF next
    <3> QED
      BY <2>1, <2>2, <2>3, <3>1 DEF ReceiverAfter
  <2>4. CASE rx_state = "IDLE"
    <3>1. rx_state' = "IDLE" /\ d = Data(rp, 1) /\ Data(rp, 1).pkt = rp
      BY <1>2, <1>4, <2>4, DataIs DEF ReceiverInv, d
    <3>2. next = Data(rp2, 1) /\ ~(next.pkt < rp2)
      BY <2>1, <3>1, <1>2
    <3> HIDE DEF next
    <3> QED
      BY <2>1, <2>2, <2>4, <3>1, <3>2 DEF ReceiverAfter, m, d, next
  <2>5. CASE rx_state = "RECORD"
    <3>1. /\ rp = pkt /\ d = DataAfter(m, pkt, sent)
          /\ rx_len = [capture |-> Shorter(sent * WordBytes, m), wire |-> sent * WordBytes]
      BY <2>5 DEF ReceiverInv, m, d
    <3>2. CASE RxStop(ct.rx)
      <4>1. sent = 0 /\ rx_state' = "IDLE"
        BY <1>1, <1>4, <2>5, <3>2 DEF RxStop
      <4>2. d = Data(rp, 1)
        BY <3>1, <4>1, <1>1 DEF DataAfter
      <4>3. next = Data(rp2, 1) /\ ~(next.pkt < rp2)
        BY <2>1, <4>2, <1>2, DataIs
      <4> HIDE DEF next
      <4> QED
        BY <2>1, <2>2, <2>5, <4>1, <4>3 DEF ReceiverAfter, m, d, next
    <3>3. CASE ~RxStop(ct.rx)
      <4>1. ~arrives /\ rx_state' = "RECORD" /\ pkt' = pkt /\ sent' = sent
        BY <1>4, <1>5, <1>6, <2>5, <3>3 DEF Recorded
      <4>2. rx_len' = rx_len
        <5>1. ~w.tvalid
          BY <1>1, <1>3, <4>1, WordIs DEF w
        <5> QED
          BY <1>3, <2>5, <3>3, <5>1 DEF RxClock, RxRst, RxIdle, RxStart, RxRecordNothing,
             RxRecordWord, RxErr
      <4>3. next = DataAfter(m, pkt', sent') /\ rp2 = pkt'
        BY <2>1, <3>1, <4>1
      <4>4. ~(next.pkt < rp2)
        BY <4>1, <4>3, <1>1, AfterIs
      <4>5. rx_len' = [capture |-> Shorter(sent' * WordBytes, m), wire |-> sent' * WordBytes]
        BY <3>1, <4>1, <4>2
      <4> HIDE DEF next
      <4> QED
        BY <2>1, <2>2, <2>5, <4>1, <4>3, <4>4, <4>5 DEF ReceiverAfter, m, d, next
    <3> QED
      BY <3>2, <3>3
  <2> QED
    BY <1>1, <2>3, <2>4, <2>5
<1>7. CASE Recorded(arrives)
  <2>1. rx_state = "RECORD" /\ ~RxStop(ct.rx) /\ arrives /\ rx_state' \in {"RECORD", "ERR"}
    BY <1>4, <1>7 DEF Recorded
  <2>2. /\ rp = pkt /\ d = DataAfter(m, pkt, sent)
        /\ rx_len = [capture |-> Shorter(sent * WordBytes, m), wire |-> sent * WordBytes]
    BY <2>1 DEF ReceiverInv, m, d
  <2>3. /\ pkt \in 1 .. Len(PktLens) /\ sent < WireWords(pkt)
        /\ sent * WordBytes \in Nat /\ sent * WordBytes < PktLens[pkt]
        /\ PktLens[pkt] \in Nat /\ WireWords(pkt) \in Nat
    BY <1>1, <1>3, <2>1, Arriving, Packet
  <2>4. /\ w.tvalid /\ w.tdata = Data(pkt, sent + 1)
        /\ w.tlast <=> sent + 1 = WireWords(pkt)
        /\ w.tlast => w.tkeep = PktLens[pkt] - sent * WordBytes /\ w.tuser = pkt
    BY <1>1, <1>3, <2>1, NextWordIs DEF w, Word
  <2>5. RxRecordWord(rst, ct.rx, m, w, Full(data_fifo))
    BY <1>3, <2>1, <2>4 DEF RxClock, RxRst, RxIdle, RxStart, RxRecordNothing, RxErr
  <2> DEFINE store == rx_len.capture < m
             last  == sent + 1 = WireWords(pkt)
             after == IF last THEN DataAfter(m, pkt + 1, 0) ELSE DataAfter(m, pkt, sent + 1)
  <2>6. store <=> sent * WordBytes < m
    <3>1. rx_len.capture = Shorter(sent * WordBytes, m)
      BY <2>2
    <3> QED
      BY <3>1, <2>3, <1>1 DEF Shorter
  <2>7. /\ rx_data'.wr <=> store
        /\ rx_data'.din = Data(pkt, sent + 1)
    BY <2>4, <2>5 DEF RxRecordWord, RxWrite
  <2>8. /\ store => /\ d = Data(pkt, sent + 1)
                    /\ NextData(m, Data(pkt, sent + 1)) = after
                    /\ sent + 1 \in 1 .. Cut(m, pkt)
        /\ ~store => d = after
    BY <1>1, <2>2, <2>3, <2>6, ReceiveWord
  <2>9. next = after
    BY <2>7, <2>8
  <2>10. pkt' = (IF last THEN pkt + 1 ELSE pkt) /\ sent' = (IF last THEN 0 ELSE sent + 1)
    BY <1>3, <2>1 DEF NetClock
  <2>11. after = DataAfter(m, pkt', sent')
    BY <2>10
  <2>12. rp2 = pkt' /\ rp2 = rp + One(last)
    BY <1>1, <1>2, <1>7, <2>2, <2>10 DEF Ended, One
  <2>13. (rx_meta'.wr <=> last) /\ (last => rx_meta' = MetaOf(m, pkt))
         /\ rx_len' = [capture |-> Shorter(sent' * WordBytes, m), wire |-> sent' * WordBytes]
    <3> DEFINE a == sent * WordBytes  l == PktLens[pkt]
    <3>1. a \in Nat /\ l \in Nat /\ a < l
      BY <2>3
    <3> HIDE DEF a, l
    <3>2. l - a \in Nat \ {0} /\ a + (l - a) = l
      BY <3>1
    <3>3. CASE last
      <4>1. w.tlast /\ WordLen(w) = l - a
        BY <2>4, <3>3 DEF WordLen, a, l
      <4>2. Lengths(w, m) = [capture |-> Shorter(a + (l - a), m), wire |-> a + (l - a)]
        BY <1>1, <2>2, <3>1, <3>2, <4>1, LengthsAre DEF a
      <4>3. rx_meta' = [wr |-> TRUE, tuser |-> w.tuser, len |-> Lengths(w, m)]
            /\ rx_len' = NoLength
        BY <2>5, <4>1 DEF RxRecordWord
      <4>4. rx_meta' = MetaOf(m, pkt)
        BY <2>4, <3>2, <4>1, <4>2, <4>3 DEF MetaOf, l
      <4>5. rx_meta'.wr
        BY <4>4 DEF MetaOf
      <4>6. sent' * WordBytes = 0 /\ Shorter(0, m) = 0
        BY <1>1, <2>10, <3>3 DEF Shorter
      <4> QED
        BY <3>3, <4>3, <4>4, <4>5, <4>6 DEF NoLength
    <3>4. CASE ~last
      <4>1. ~w.tlast /\ WordLen(w) = WordBytes
        BY <2>4, <3>4 DEF WordLen
      <4>2. Lengths(w, m) = [capture |-> Shorter(a + WordBytes, m), wire |-> a + WordBytes]
        BY <1>1, <2>2, <3>1, <4>1, LengthsAre DEF a
      <4>3. rx_meta' = [rx_meta EXCEPT !.wr = FALSE] /\ rx_len' = Lengths(w, m)
        BY <2>5, <4>1 DEF RxRecordWord
      <4>4. ~rx_meta'.wr
        BY <1>1, <4>3, Sides DEF MetaTypes
      <4>5. sent' * WordBytes = a + WordBytes
        BY <1>1, <2>10, <3>4 DEF a
      <4> QED
        BY <3>4, <4>2, <4>3, <4>4, <4>5
    <3> QED
      BY <3>3, <3>4
  <2>14. Data(pkt, sent + 1).kind = "data" /\ Data(pkt, sent + 1).pkt = pkt
         /\ Data(pkt, sent + 1).val = sent + 1
    BY <1>1, DataIs
  <2>15. sent + 1 = 1 => ~last
    <3>1. WireWords(pkt) >= 2
      BY <1>1, <2>3, WireWordsMany
    <3> QED
      BY <3>1, <1>1, <2>3
  <2>16. ~(after.pkt < rp2)
    BY <1>5, <2>11, <2>12, AfterIs
  <2> HIDE DEF store, last, after, next
  <2>17. One(last) \in {0, 1} /\ (last => One(last) = 1) /\ (~last => One(last) = 0)
         /\ One(rx_meta'.wr) = One(last)
    BY <2>13 DEF One
  <2>18. rx_data'.wr =>
           /\ rx_data'.din = d
           /\ DataWord(m, rx_data'.din, rp2)
           /\ rx_data'.din.val = 1 => rx_data'.din.pkt = rp2
           /\ rx_data'.din.pkt >= rp2 - One(rx_meta'.wr)
    <3> SUFFICES ASSUME rx_data'.wr
        PROVE  /\ rx_data'.din = d
               /\ DataWord(m, rx_data'.din, rp2)
               /\ rx_data'.din.val = 1 => rx_data'.din.pkt = rp2
               /\ rx_data'.din.pkt >= rp2 - One(rx_meta'.wr)
      OBVIOUS
    <3>1. rx_data'.din = d /\ sent + 1 \in 1 .. Cut(m, pkt)
      BY <2>7, <2>8
    <3>2. rp2 \in Nat /\ pkt <= rp2 /\ pkt = rp
      BY <1>2, <2>2, <2>12, <2>17
    <3>3. DataWord(m, rx_data'.din, rp2)
      BY <2>3, <2>7, <2>14, <3>1, <3>2 DEF DataWord
    <3>4. rx_data'.din.val = 1 => rx_data'.din.pkt = rp2
      BY <1>2, <2>2, <2>7, <2>12, <2>14, <2>15, <2>17
    <3>5. rx_data'.din.pkt >= rp2 - One(rx_meta'.wr)
      BY <1>2, <2>2, <2>7, <2>12, <2>14, <2>17
    <3> QED
      BY <3>1, <3>3, <3>4, <3>5
  <2>19. /\ rp2 \in Nat /\ rp <= rp2 /\ rp2 <= pkt' /\ rp2 = rp + One(rx_meta'.wr)
    BY <1>2, <1>5, <2>12, <2>17
  <2>20. rx_meta'.wr => rx_meta' = MetaOf(m, rp)
    BY <2>2, <2>13
  <2>21. next = DataAfter(m, pkt', sent') /\ ~(next.pkt < rp2)
    BY <2>9, <2>11, <2>16
  <2> QED
    BY <2>1, <2>12, <2>13, <2>18, <2>19, <2>20, <2>21 DEF ReceiverAfter, m, d, next
<1> QED
  BY <1>6, <1>7

(* The data words.                                                         *)
LEMMA FirstIs ==
  ASSUME NEW mp \in Nat, Gone(max_len, mp, mg_state, mg_left) \in Nat
  PROVE  First(max_len, mp, mg_state, mg_left) \in ItemTypes
<1> DEFINE g == Gone(max_len, mp, mg_state, mg_left)
<1> HIDE DEF g
<1>1. g \in Nat
  BY DEF g
<1>2. Data(mp, g + 1) \in ItemTypes
  BY <1>1, DataIs
<1> QED
  BY <1>2 DEF First, g

(* Where the data words go on after the edge.                              *)
Ahead(mp2) == Due(max_len, data_fifo'.q, First(max_len, mp2, mg_state', mg_left'))

LEMMA DataMoves ==
  ASSUME NEW arrives \in BOOLEAN, NEW drain \in BOOLEAN, NEW prog_empty \in BOOLEAN,
         NEW mw_busy \in BOOLEAN, Flow(arrives, drain, prog_empty, mw_busy),
         NEW mp, NEW rp, RangeInv(mp, rp), DataChain(mp, rp),
         NEW mp2, MergeAfter(mp, mp2, rp)
  PROVE  /\ Linked(max_len, data_fifo'.q, First(max_len, mp2, mg_state', mg_left'))
         /\ \A i \in 1 .. Len(data_fifo'.q) : DataWord(max_len, data_fifo'.q[i], rp)
         /\ ~(rx_data.wr /\ Full(data_fifo)) => Ahead(mp2) = DataNext(mp)
         /\ rx_data.wr /\ Full(data_fifo) => Ahead(mp2) = rx_data.din
<1> DEFINE m == max_len  q == data_fifo.q  r == data_fifo'.q
           first == First(m, mp, mg_state, mg_left)
           k == One(take_data)  got == rx_data.wr /\ ~Full(data_fifo)  g == One(got)
           f == First(m, mp2, mg_state', mg_left')
<1>1. Control
  BY DEF Flow
<1>2. /\ q \in Seq(ItemTypes) /\ Len(q) \in Nat /\ rx_data.din \in ItemTypes
      /\ take_data => Len(q) > 0
  BY <1>1, Sides, FifoIs, Takes
<1>3. /\ r \in Seq(ItemTypes) /\ Len(r) = Len(q) - k + g
      /\ \A i \in 1 .. Len(q) - k : r[i] = q[i + k]
      /\ got => r[Len(r)] = rx_data.din
  BY Flows DEF FifoAfter, FifoTypes
<1>4. mp \in Nat /\ first \in ItemTypes
  <2>1. mp \in Nat
    BY DEF RangeInv
  <2>2. Gone(m, mp, mg_state, mg_left) \in Nat
    BY DEF MergeAfter
  <2> QED
    BY <2>1, <2>2, FirstIs
<1>5. /\ Linked(m, q, first)
      /\ \A i \in 1 .. Len(q) : DataWord(m, q[i], rp)
      /\ rx_data.wr => rx_data.din = Due(m, q, first) /\ DataWord(m, rx_data.din, rp)
  BY DEF DataChain, DataDue
<1>6. f = IF take_data THEN NextData(m, first) ELSE first
  BY DEF MergeAfter
<1>7. k \in {0, 1} /\ g \in {0, 1} /\ (k = 0 <=> ~take_data) /\ (g = 1 <=> got)
  BY DEF One
<1> HIDE DEF m, q, r, first, k, g, got, f
<1>8. k <= Len(q)
  BY <1>2, <1>7
<1>9. g = 1 => r[Len(r)] = Due(m, q, first)
  BY <1>3, <1>5, <1>7 DEF got
<1>10. f = IF k = 0 THEN first ELSE NextData(m, first)
  BY <1>6, <1>7
<1>11. /\ Linked(m, r, f)
       /\ Due(m, r, f) = IF g = 1 THEN NextData(m, Due(m, q, first)) ELSE Due(m, q, first)
  <2>1. /\ q \in Seq(ItemTypes) /\ first \in ItemTypes /\ Linked(m, q, first)
        /\ k \in {0, 1} /\ g \in {0, 1} /\ k <= Len(q)
    BY <1>2, <1>4, <1>5, <1>7, <1>8
  <2>2. Moved(q, r, k, g, Due(m, q, first))
    BY <1>3, <1>9, <2>1 DEF Moved
  <2> QED
    BY <2>1, <2>2, <1>10, LinkedStep
<1>12. ASSUME NEW i \in 1 .. Len(r) PROVE DataWord(m, r[i], rp)
  <2>0. Len(r) \in Nat
    BY <1>3, EmptyIs
  <2>1. CASE i <= Len(q) - k
    <3>1. i \in 1 .. Len(q) - k /\ i + k \in 1 .. Len(q)
      BY <2>0, <2>1, <1>2, <1>7
    <3> QED
      BY <3>1, <1>3, <1>5
  <2>2. CASE ~(i <= Len(q) - k)
    <3>1. g = 1 /\ i = Len(r)
      BY <2>0, <2>2, <1>2, <1>3, <1>7
    <3>2. r[i] = rx_data.din /\ rx_data.wr
      BY <3>1, <1>3, <1>7 DEF got
    <3> QED
      BY <3>2, <1>5
  <2> QED
    BY <2>1, <2>2
<1>13. Due(m, q, first) = DataDue(mp)
  BY DEF DataDue, m, q, first
<1>14. ~(rx_data.wr /\ Full(data_fifo)) => Due(m, r, f) = DataNext(mp)
  BY <1>5, <1>7, <1>11, <1>13 DEF DataNext, got, m
<1>15. rx_data.wr /\ Full(data_fifo) => Due(m, r, f) = rx_data.din
  BY <1>5, <1>7, <1>11 DEF got
<1> QED
  BY <1>11, <1>12, <1>14, <1>15 DEF Ahead, m, r, f

(* The receiver, and the data words, after the edge.                       *)
LEMMA DataKept ==
  ASSUME NEW arrives \in BOOLEAN, NEW drain \in BOOLEAN, NEW prog_empty \in BOOLEAN,
         NEW mw_busy \in BOOLEAN, Flow(arrives, drain, prog_empty, mw_busy),
         NEW mp, NEW rp, RangeInv(mp, rp), DataChain(mp, rp), ReceiverInv(mp, rp),
         SeenInv(mp, rp),
         NEW mp2, MergeAfter(mp, mp2, rp), NEW rp2, ReceiverAfter(mp, rp, rp2)
  PROVE  RangeInv(mp2, rp2)' /\ DataChain(mp2, rp2)' /\ ReceiverInv(mp2, rp2)'
<1> DEFINE m == max_len
           next == IF rx_data'.wr THEN NextData(m, rx_data'.din) ELSE DataNext(mp)
<1>1. /\ Control /\ max_len' = m /\ (rx_data.wr /\ Full(data_fifo) => rx_state = "ERR")
  BY Flows DEF Flow
<1>2. /\ Linked(m, data_fifo'.q, First(m, mp2, mg_state', mg_left'))
      /\ \A i \in 1 .. Len(data_fifo'.q) : DataWord(m, data_fifo'.q[i], rp)
      /\ ~(rx_data.wr /\ Full(data_fifo)) => Ahead(mp2) = DataNext(mp)
      /\ rx_data.wr /\ Full(data_fifo) => Ahead(mp2) = rx_data.din
  BY DataMoves
<1>3. DataDue(mp2)' = Ahead(mp2)
  BY <1>1 DEF DataDue, Ahead
<1>4. rp \in Nat /\ rp2 \in Nat /\ rp <= rp2 /\ rp2 <= pkt'
  BY DEF RangeInv, ReceiverAfter
<1>5. RangeInv(mp2, rp2)'
  <2>1. /\ mp2 \in Nat \ {0} /\ mp2 <= rp
        /\ mg_state' = "DATA" => mp2 < rp /\ mg_left' \in 1 .. Cut(m, mp2)
    BY DEF MergeAfter
  <2> QED
    BY <2>1, <1>1, <1>4 DEF RangeInv
<1>6. DataChain(mp2, rp2)'
  <2>1. ASSUME NEW i \in 1 .. Len(data_fifo'.q) PROVE DataWord(m, data_fifo'.q[i], rp2)
    BY <1>2, <1>4 DEF DataWord
  <2>2. rx_data'.wr => rx_data'.din = DataDue(mp2)' /\ DataWord(m, rx_data'.din, rp2)
    BY <1>1, <1>2, <1>3 DEF ReceiverAfter
  <2> QED
    BY <1>1, <1>2, <2>1, <2>2 DEF DataChain
<1>7. ReceiverInv(mp2, rp2)'
  <2>1. DataNext(mp2)' = IF rx_data'.wr THEN NextData(m, rx_data'.din) ELSE Ahead(mp2)
    BY <1>1, <1>3 DEF DataNext
  <2>2. rx_state # "ERR" => DataNext(mp2)' = next
    BY <1>1, <1>2, <2>1
  <2>3. rx_state' = "RECORD" =>
          /\ rp2 = pkt' /\ next = DataAfter(m, pkt', sent')
          /\ rx_len' = [capture |-> Shorter(sent' * WordBytes, m), wire |-> sent' * WordBytes]
    BY DEF ReceiverAfter
  <2>4. /\ rx_state' \in {"RECORD", "IDLE"} => rx_state # "ERR"
        /\ rx_state' = "IDLE" => next = Data(rp2, 1)
        /\ rx_state' \in {"RECORD", "IDLE", "ERR"}
        /\ rx_state # "ERR" => ~(next.pkt < rp2)
        /\ rx_state = "ERR" => ~rx_data'.wr /\ rp2 = rp + One(rx_meta'.wr) /\ ~rx_meta'.wr
    BY DEF ReceiverAfter
  <2>5. DataNext(mp2)'.pkt < rp2 => DataNext(mp2)'.val >= 2
    <3>1. CASE rx_state # "ERR"
      BY <2>2, <2>4, <3>1
    <3>2. CASE rx_state = "ERR" /\ rx_data.wr /\ Full(data_fifo)
      <4>1. DataNext(mp2)' = rx_data.din /\ rp2 = rp
        BY <1>2, <1>4, <2>1, <2>4, <3>2 DEF One
      <4>2. rx_data.din.val = 1 => rx_data.din.pkt = rp
        BY <3>2 DEF SeenInv
      <4>3. rx_data.din.val \in Nat \ {0} /\ rx_data.din.pkt \in Nat
        <5>1. DataWord(m, rx_data.din, rp)
          BY <3>2 DEF DataChain
        <5>2. rx_data.din.pkt \in 1 .. Len(PktLens) /\ rx_data.din.val \in 1 .. Cut(m, rx_data.din.pkt)
          BY <5>1 DEF DataWord
        <5>3. Cut(m, rx_data.din.pkt) \in Nat
          BY <5>2, <1>1, MaxLen, CutSome DEF Flow
        <5> QED
          BY <5>2, <5>3, Sizes
      <4> QED
        BY <4>1, <4>2, <4>3, <1>4
    <3>3. CASE rx_state = "ERR" /\ ~(rx_data.wr /\ Full(data_fifo))
      <4>1. DataNext(mp2)' = DataNext(mp) /\ rp2 = rp
        BY <1>2, <1>4, <2>1, <2>4, <3>3 DEF One
      <4>2. DataNext(mp).pkt < rp => DataNext(mp).val >= 2
        BY DEF ReceiverInv
      <4> QED
        BY <4>1, <4>2
    <3> QED
      BY <3>1, <3>2, <3>3
  <2>6. rx_state' = "RECORD" =>
          /\ rp2 = pkt' /\ DataNext(mp2)' = DataAfter(m, pkt', sent')
          /\ rx_len' = [capture |-> Shorter(sent' * WordBytes, m), wire |-> sent' * WordBytes]
    BY <2>2, <2>3, <2>4
  <2>7. rx_state' \in {"RST", "IDLE", "START"} => DataNext(mp2)' = Data(rp2, 1)
    BY <2>2, <2>4
  <2> HIDE DEF next, m
  <2> QED
    BY <1>1, <2>5, <2>6, <2>7 DEF ReceiverInv
<1> QED
  BY <1>5, <1>6, <1>7

(* The meta data.                                                          *)
LEMMA MetaKept ==
  ASSUME NEW arrives \in BOOLEAN, NEW drain \in BOOLEAN, NEW prog_empty \in BOOLEAN,
         NEW mw_busy \in BOOLEAN, Flow(arrives, drain, prog_empty, mw_busy),
         NEW mp, NEW rp, RangeInv(mp, rp), MetaChain(mp, rp),
         NEW mp2, MergeAfter(mp, mp2, rp), NEW rp2, ReceiverAfter(mp, rp, rp2)
  PROVE  MetaChain(mp2, rp2)'
<1> DEFINE m == max_len  q == meta_fifo.q  r == meta_fifo'.q
           b == Base(mp, mg_state)  b2 == Base(mp2, mg_state')
           k == One(take_meta)  got == rx_meta_o.wr /\ ~Full(meta_fifo)  g == One(got)
           o == One(rx_meta_o.wr)  w == One(rx_meta.wr)
           o2 == One(rx_meta_o'.wr)  w2 == One(rx_meta'.wr)
           e == MetaEnd(mp)  e2 == b2 + Len(r)
<1>1. Control /\ max_len' = m /\ ~rst /\ meta_state \in {"ACTIVE", "ERR"}
      /\ (rx_meta_o.wr /\ Full(meta_fifo) => meta_state = "ERR")
      /\ rx_meta_o.wr \in BOOLEAN /\ rx_meta.wr \in BOOLEAN
  <2>1. Control /\ ~rst /\ meta_state \in {"ACTIVE", "ERR"}
    BY DEF Flow, Flowing, Control, TypeOK, RxTypeOK
  <2>2. max_len' = m /\ (rx_meta_o.wr /\ Full(meta_fifo) => meta_state = "ERR")
    BY Flows
  <2> QED
    BY <2>1, <2>2, Sides
<1>2. /\ q \in Seq(MetaTypes) /\ Len(q) \in Nat /\ (take_meta => Len(q) > 0)
  BY <1>1, Sides, FifoIs, Takes
<1>3. /\ r \in Seq(MetaTypes) /\ Len(r) = Len(q) - k + g
      /\ \A i \in 1 .. Len(q) - k : r[i] = q[i + k]
      /\ got => r[Len(r)] = rx_meta_o
  BY Flows DEF FifoAfter, FifoTypes
<1>4. k \in {0, 1} /\ g \in {0, 1} /\ o \in {0, 1} /\ w \in {0, 1} /\ o2 \in {0, 1} /\ w2 \in {0, 1}
      /\ (got <=> g = 1) /\ (rx_meta_o.wr <=> o = 1) /\ (rx_meta.wr <=> w = 1)
      /\ (rx_meta_o'.wr <=> o2 = 1) /\ (rx_meta'.wr <=> w2 = 1) /\ (take_meta <=> k = 1)
  BY DEF One
<1>5. b \in Nat /\ b2 = b + k /\ e = b + Len(q) /\ rp \in Nat
  <2>1. mp \in Nat /\ One(mg_state = "DATA") \in {0, 1} /\ rp \in Nat
    BY DEF RangeInv, One
  <2>2. b \in Nat
    BY <2>1 DEF Base
  <2>3. b2 = b + k
    BY DEF MergeAfter
  <2> QED
    BY <2>1, <2>2, <2>3 DEF MetaEnd
<1>6. /\ meta_state = "ACTIVE" => e + o + w = rp
      /\ e + o + w <= rp
      /\ \A i \in 1 .. Len(q) : q[i] = MetaOf(m, b + i - 1)
      /\ rx_meta_o.wr => rx_meta_o = MetaOf(m, e)
      /\ rx_meta.wr /\ meta_state = "ACTIVE" => rx_meta = MetaOf(m, e + o)
  BY DEF MetaChain
<1>7. /\ rx_meta_o'.wr <=> meta_state = "ACTIVE" /\ rx_meta.wr
      /\ rx_meta_o'.wr => rx_meta_o' = rx_meta
      /\ meta_state = "ERR" => meta_state' = "ERR"
  <2>1. RxMeta(rst, Full(meta_fifo))
    BY DEF Flow, Edge, RxClock
  <2>2. rx_meta_o'.wr <=> meta_state = "ACTIVE" /\ rx_meta.wr
    BY <1>1, EdgeRx DEF Flow
  <2> QED
    BY <1>1, <2>1, <2>2 DEF RxMeta
<1>8. rp2 = rp + w2 /\ (rx_meta'.wr => rx_meta' = MetaOf(m, rp) /\ rx_state' \in {"RECORD", "ERR"})
  BY DEF ReceiverAfter
<1> HIDE DEF m, q, r, b, b2, k, got, g, o, w, o2, w2, e, e2
<1>9. e2 = e + g /\ e2 \in Nat /\ Len(r) \in Nat
  <2>1. Len(r) \in Nat /\ Len(r) = Len(q) - k + g
    BY <1>3, EmptyIs
  <2>2. Len(q) \in Nat /\ k \in {0, 1} /\ g \in {0, 1}
    BY <1>2, <1>4
  <2>3. b \in Nat /\ b2 = b + k /\ e = b + Len(q) /\ e2 = b2 + Len(r)
    BY <1>5 DEF e2
  <2> QED
    BY <2>1, <2>2, <2>3
<1>10. ASSUME NEW i \in 1 .. Len(r) PROVE r[i] = MetaOf(m, b2 + i - 1)
  <2>1. CASE i <= Len(q) - k
    <3>1. i \in 1 .. Len(q) - k /\ i + k \in 1 .. Len(q)
      BY <2>1, <1>2, <1>4, <1>9
    <3>2. r[i] = MetaOf(m, b + (i + k) - 1)
      BY <3>1, <1>3, <1>6
    <3>3. b + (i + k) - 1 = b2 + i - 1
      BY <3>1, <1>4, <1>5
    <3> QED
      BY <3>2, <3>3
  <2>2. CASE ~(i <= Len(q) - k)
    <3>1. g = 1 /\ i = Len(r) /\ i = Len(q) - k + 1
      BY <2>2, <1>2, <1>3, <1>4, <1>9
    <3>2. r[i] = MetaOf(m, e)
      BY <3>1, <1>3, <1>4, <1>6 DEF got
    <3>3. e = b2 + i - 1
      BY <3>1, <1>2, <1>4, <1>5
    <3> QED
      BY <3>2, <3>3
  <2> QED
    BY <2>1, <2>2
<1>11. meta_state = "ACTIVE" => g = o
  BY <1>1, <1>4 DEF got
<1>12. rx_meta_o'.wr => rx_meta_o' = MetaOf(m, e2)
  BY <1>6, <1>7, <1>9, <1>11
<1>13. meta_state = "ACTIVE" => o2 = w
  BY <1>1, <1>4, <1>7
<1>14. meta_state = "ACTIVE" => e2 + o2 + w2 = rp2 /\ e2 + o2 = rp
  BY <1>4, <1>5, <1>6, <1>8, <1>9, <1>11, <1>13
<1>15. meta_state = "ERR" => e2 + o2 + w2 <= rp2 /\ meta_state' = "ERR"
  <2>1. meta_state = "ERR" => o2 = 0
    BY <1>4, <1>7
  <2>2. g <= o
    BY <1>4 DEF got
  <2> QED
    BY <1>4, <1>5, <1>6, <1>7, <1>8, <1>9, <2>1, <2>2
<1>16. e2 + o2 + w2 <= rp2
  <2>1. rp2 \in Nat
    BY <1>4, <1>5, <1>8
  <2> QED
    BY <2>1, <1>1, <1>4, <1>9, <1>14, <1>15
<1>17. meta_state' = "ACTIVE" => e2 + o2 + w2 = rp2
  BY <1>1, <1>14, <1>15
<1>18. rx_meta'.wr /\ meta_state' = "ACTIVE" => rx_meta' = MetaOf(m, e2 + o2)
  BY <1>1, <1>8, <1>14, <1>15
<1> QED
  BY <1>1, <1>8, <1>10, <1>12, <1>16, <1>17, <1>18
  DEF MetaChain, MetaEnd, m, r, b2, o2, w2, e2

(* What is seen: the levels of the FIFOs follow their content.             *)
LEMMA AllSeenStep ==
  ASSUME NEW q \in Seq(ItemTypes), NEW r, NEW k, NEW g, NEW d, Moved(q, r, k, g, d),
         NEW p, NEW a \in Int, NEW b \in Int,
         \/ b >= Len(r)
         \/ /\ g = 1 => d.pkt # p
            /\ b >= Len(q) - k \/ (AllSeen(q, p, a) /\ b >= a - k)
  PROVE  AllSeen(r, p, b)
<1>1. /\ k \in {0, 1} /\ g \in {0, 1} /\ k <= Len(q) /\ r \in Seq(ItemTypes)
      /\ Len(q) \in Nat /\ Len(r) \in Nat /\ Len(r) = Len(q) - k + g
      /\ \A i \in 1 .. Len(q) - k : r[i] = q[i + k]
      /\ g = 1 => r[Len(r)] = d
  BY EmptyIs DEF Moved
<1> SUFFICES ASSUME NEW i \in 1 .. Len(r), r[i].pkt = p PROVE i <= b
  BY DEF AllSeen
<1>2. CASE b >= Len(r)
  BY <1>1, <1>2
<1>3. CASE /\ g = 1 => d.pkt # p
           /\ b >= Len(q) - k \/ (AllSeen(q, p, a) /\ b >= a - k)
  <2>1. i # Len(r) \/ g = 0
    BY <1>1, <1>3
  <2>2. i \in 1 .. Len(q) - k /\ i + k \in 1 .. Len(q)
    BY <1>1, <2>1
  <2>3. r[i] = q[i + k]
    BY <1>1, <2>2
  <2>4. AllSeen(q, p, a) => i + k <= a
    BY <2>2, <2>3 DEF AllSeen
  <2> QED
    BY <1>1, <1>3, <2>2, <2>4
<1> QED
  BY <1>2, <1>3

LEMMA FirstSeenStep ==
  ASSUME NEW q \in Seq(ItemTypes), NEW r, NEW k, NEW g, NEW d, Moved(q, r, k, g, d),
         NEW p, NEW a \in Int, NEW b \in Int,
         \/ b >= Len(r)
         \/ /\ g = 1 => ~(d.val = 1 /\ d.pkt < p)
            /\ b >= Len(q) - k \/ (FirstSeen(q, p, a) /\ b >= a - k)
  PROVE  FirstSeen(r, p, b)
<1>1. /\ k \in {0, 1} /\ g \in {0, 1} /\ k <= Len(q) /\ r \in Seq(ItemTypes)
      /\ Len(q) \in Nat /\ Len(r) \in Nat /\ Len(r) = Len(q) - k + g
      /\ \A i \in 1 .. Len(q) - k : r[i] = q[i + k]
      /\ g = 1 => r[Len(r)] = d
  BY EmptyIs DEF Moved
<1> SUFFICES ASSUME NEW i \in 1 .. Len(r), r[i].val = 1, r[i].pkt < p PROVE i <= b
  BY DEF FirstSeen
<1>2. CASE b >= Len(r)
  BY <1>1, <1>2
<1>3. CASE /\ g = 1 => ~(d.val = 1 /\ d.pkt < p)
           /\ b >= Len(q) - k \/ (FirstSeen(q, p, a) /\ b >= a - k)
  <2>1. i # Len(r) \/ g = 0
    BY <1>1, <1>3
  <2>2. i \in 1 .. Len(q) - k /\ i + k \in 1 .. Len(q)
    BY <1>1, <2>1
  <2>3. r[i] = q[i + k]
    BY <1>1, <2>2
  <2>4. FirstSeen(q, p, a) => i + k <= a
    BY <2>2, <2>3 DEF FirstSeen
  <2> QED
    BY <1>1, <1>3, <2>2, <2>4
<1> QED
  BY <1>2, <1>3

(* A full FIFO takes no word: the receiver enters its error state without  *)
(* one.                                                                    *)
LEMMA ErrorIsFull ==
  ASSUME NEW arrives \in BOOLEAN, NEW drain \in BOOLEAN, NEW prog_empty \in BOOLEAN,
         NEW mw_busy \in BOOLEAN, Flow(arrives, drain, prog_empty, mw_busy),
         rx_state = "RECORD", rx_state' = "ERR"
  PROVE  Full(data_fifo)
<1>1. RxClock(rst, ct.rx, max_len, Word(arrives), Full(data_fifo), Full(meta_fifo)) /\ ~rst
  BY DEF Flow, Flowing, Edge
<1> HIDE DEF Full, Word
<1> QED
  BY <1>1 DEF RxClock, RxRst, RxIdle, RxStart, RxRecordNothing, RxRecordWord, RxErr, RxGoto

LEMMA SeenKept ==
  ASSUME NEW arrives \in BOOLEAN, NEW drain \in BOOLEAN, NEW prog_empty \in BOOLEAN,
         NEW mw_busy \in BOOLEAN, Flow(arrives, drain, prog_empty, mw_busy),
         NEW mp, NEW rp, RangeInv(mp, rp), DataChain(mp, rp), MetaChain(mp, rp),
         SeenInv(mp, rp),
         NEW mp2, MergeAfter(mp, mp2, rp), NEW rp2, ReceiverAfter(mp, rp, rp2)
  PROVE  SeenInv(mp2, rp2)'
<1> DEFINE q == data_fifo.q  r == data_fifo'.q  d == rx_data.din
           k == One(take_data)  got == rx_data.wr /\ ~Full(data_fifo)  g == One(got)
           near == data_fifo.near  near2 == data_fifo'.near
           shown == data_fifo.shown  shown2 == data_fifo'.shown
           mq == meta_fifo.q  mk == One(take_meta)
           mnear == meta_fifo.near  mnear2 == meta_fifo'.near
           mshown == meta_fifo.shown  mshown2 == meta_fifo'.shown
           b == Base(mp, mg_state)  b2 == Base(mp2, mg_state')
           o == One(rx_meta_o.wr)  w == One(rx_meta.wr)  w2 == One(rx_meta'.wr)
<1>1. Control /\ ~rst /\ mg_state \in {"META", "DATA"} /\ rx_state' \in RxStates
  BY TypeKept DEF Flow, Flowing, Control, TypeOK, RxTypeOK
<1>2. /\ q \in Seq(ItemTypes) /\ Len(q) \in Nat /\ near \in Nat /\ shown \in Nat
      /\ near <= Len(q) /\ shown <= Len(q) /\ (FwftLatency = 2 => shown <= near)
      /\ mq \in Seq(MetaTypes) /\ Len(mq) \in Nat /\ mnear \in Nat /\ mshown \in Nat
      /\ mnear <= Len(mq) /\ mshown <= Len(mq)
      /\ d \in ItemTypes /\ FwftLatency \in {0, 1, 2}
  BY <1>1, Sides, FifoIs, Sizes
<1>3. /\ take_data => Len(q) > 0 /\ mg_state = "DATA"
      /\ take_meta => Len(mq) > 0 /\ mshown > 0 /\ mg_state = "META"
  BY <1>1, Sides, FifoIs, Takes
<1>4. /\ r \in Seq(ItemTypes) /\ Len(r) = Len(q) - k + g /\ near2 \in Int /\ shown2 \in Int
      /\ \A i \in 1 .. Len(q) - k : r[i] = q[i + k]
      /\ got => r[Len(r)] = d
      /\ near2 = Len(q) - k
      /\ FwftLatency = 0 => shown2 = Len(r)
      /\ FwftLatency = 1 => shown2 = near2
      /\ FwftLatency = 2 => shown2 = near - k
  BY Flows DEF FifoAfter, FifoTypes
<1>5. /\ mnear2 = Len(mq) - mk /\ mshown2 \in Int
      /\ FwftLatency = 1 => mshown2 = mnear2
      /\ FwftLatency = 2 => mshown2 = mnear - mk
  BY Flows DEF FifoAfter, FifoTypes
<1>6. /\ k \in {0, 1} /\ g \in {0, 1} /\ mk \in {0, 1} /\ o \in {0, 1} /\ w \in {0, 1}
      /\ w2 \in {0, 1} /\ (g = 1 <=> got) /\ (take_data <=> k = 1) /\ (take_meta <=> mk = 1)
      /\ (rx_meta'.wr <=> w2 = 1)
  BY DEF One
<1>7. /\ b \in Nat /\ b2 = b + mk /\ b + Len(mq) + o + w <= rp /\ rp \in Nat /\ mp \in Nat
      /\ b = mp + One(mg_state = "DATA")
  <2>1. mp \in Nat /\ One(mg_state = "DATA") \in {0, 1} /\ rp \in Nat
    BY DEF RangeInv, One
  <2>2. b = mp + One(mg_state = "DATA")
    BY DEF Base
  <2>3. b2 = b + mk
    BY DEF MergeAfter
  <2>4. b + Len(mq) + o + w <= rp
    BY DEF MetaChain, MetaEnd
  <2> QED
    BY <2>1, <2>2, <2>3, <2>4
<1>8. /\ rx_data.wr => (d.val = 1 => d.pkt = rp) /\ d.pkt >= rp - w
      /\ rx_state # "RECORD" => FirstSeen(q, rp, near)
      /\ \A j \in 1 .. mnear : AllSeen(q, b + j - 1, near)
      /\ \A j \in 1 .. mshown : AllSeen(q, b + j - 1, shown)
      /\ mg_state = "DATA" => AllSeen(q, mp, shown)
  BY DEF SeenInv
<1>9. /\ rp2 = rp + w2
      /\ rx_state # "RECORD" => ~rx_meta'.wr
      /\ rx_meta'.wr => rx_state' \in {"RECORD", "ERR"}
      /\ rx_data'.wr => /\ rx_data'.din.val = 1 => rx_data'.din.pkt = rp2
                        /\ rx_data'.din.pkt >= rp2 - w2
  BY DEF ReceiverAfter
<1>10. rx_state = "RECORD" /\ rx_state' = "ERR" => ~got
  BY ErrorIsFull
<1>11. rx_active' <=> rx_state = "RECORD"
  BY <1>1, EdgeRx DEF Flow
<1>12. /\ mg_state' = "DATA" /\ ~take_meta => mp2 = mp /\ mg_state = "DATA"
       /\ take_meta => mp2 = mp
  BY <1>3 DEF MergeAfter
<1>13. got => rx_data.wr
  OBVIOUS
<1> HIDE DEF q, r, d, k, got, g, near, near2, shown, shown2, mq, mk, mnear, mnear2, mshown, mshown2,
             b, b2, o, w, w2
<1>14. Moved(q, r, k, g, d) /\ Len(r) \in Nat
  BY <1>2, <1>3, <1>4, <1>6 DEF Moved
<1>15. d.pkt \in Nat /\ d.val \in Nat
  BY <1>2 DEF ItemTypes
<1>a. /\ b \in Nat /\ b2 = b + mk /\ b + Len(mq) + o + w <= rp /\ rp \in Nat
      /\ Len(mq) \in Nat /\ o \in {0, 1} /\ w \in {0, 1} /\ mk \in {0, 1}
  BY <1>2, <1>6, <1>7
<1>c. g = 1 => (d.val = 1 => d.pkt = rp) /\ d.pkt >= rp - w
  BY <1>6, <1>8, <1>13
<1>d. Len(q) \in Nat /\ k \in {0, 1} /\ near \in Nat /\ near2 = Len(q) - k
  BY <1>2, <1>4, <1>6
<1>e. mnear \in Nat /\ mnear <= Len(mq) /\ mnear2 = Len(mq) - mk
  BY <1>2, <1>5
<1>f. ~rx_meta'.wr => rp2 = rp
  <2> SUFFICES ASSUME ~rx_meta'.wr PROVE rp2 = rp
    OBVIOUS
  <2>1. w2 = 0
    BY <1>6
  <2>2. rp2 = rp + w2 /\ rp \in Nat
    BY <1>7, <1>9
  <2> QED
    BY <2>1, <2>2
<1>16. rx_state' # "RECORD" => FirstSeen(r, rp2, near2)
  <2> SUFFICES ASSUME rx_state' # "RECORD" PROVE FirstSeen(r, rp2, near2)
    OBVIOUS
  <2>1. g = 1 => ~(d.val = 1 /\ d.pkt < rp2)
    <3>1. g = 1 => rx_state # "RECORD" \/ rx_state' # "ERR"
      BY <1>6, <1>10
    <3>2. g = 1 => ~rx_meta'.wr
      BY <1>9, <3>1
    <3>3. g = 1 => rp2 = rp
      BY <1>f, <3>2
    <3> QED
      BY <1>a, <1>c, <1>15, <3>3
  <2>2. near2 >= Len(q) - k
    BY <1>2, <1>4, <1>6
  <2> QED
    BY <1>2, <1>4, <1>14, <2>1, <2>2, FirstSeenStep
<1>17. ~rx_active' => FirstSeen(r, rp2, shown2)
  <2> SUFFICES ASSUME rx_state # "RECORD" PROVE FirstSeen(r, rp2, shown2)
    BY <1>11
  <2>1. rp2 = rp
    BY <1>9, <1>f
  <2>2. g = 1 => ~(d.val = 1 /\ d.pkt < rp2)
    BY <1>a, <1>c, <1>15, <2>1
  <2>3. FirstSeen(q, rp2, near)
    BY <1>8, <2>1
  <2>4. shown2 >= Len(r) \/ shown2 >= Len(q) - k \/ shown2 >= near - k
    <3>1. shown2 = Len(r) \/ shown2 = Len(q) - k \/ shown2 = near - k
      BY <1>2, <1>4
    <3>2. Len(r) \in Nat /\ Len(q) - k \in Int /\ near - k \in Int
      BY <1>14, <1>d
    <3> QED
      BY <3>1, <3>2
  <2> QED
    BY <1>2, <1>4, <1>14, <2>2, <2>3, <2>4, FirstSeenStep
<1>18. ASSUME NEW p \in Int, p < b + Len(mq) PROVE g = 1 => d.pkt # p
  BY <1>a, <1>c, <1>15, <1>18
<1>19. ASSUME NEW j \in 1 .. mnear2 PROVE AllSeen(r, b2 + j - 1, near2)
  <2>1. b2 + j - 1 \in Int /\ b2 + j - 1 < b + Len(mq)
    BY <1>a, <1>e
  <2>2. near2 >= Len(q) - k
    BY <1>d
  <2>3. g = 1 => d.pkt # b2 + j - 1
    BY <2>1, <1>18
  <2> DEFINE p == b2 + j - 1
  <2>4. g = 1 => d.pkt # p
    BY <2>3
  <2>5. AllSeen(q, p, Len(q))
    BY <1>d DEF AllSeen
  <2> HIDE DEF p
  <2> QED
    BY <1>d, <1>2, <1>4, <1>14, <2>2, <2>4, <2>5, AllSeenStep DEF p
<1>20. ASSUME NEW j \in 1 .. mshown2 PROVE AllSeen(r, b2 + j - 1, shown2)
  <2> DEFINE p == b2 + j - 1
  <2>1. CASE FwftLatency = 0
    <3>1. shown2 >= Len(r)
      BY <1>4, <1>14, <2>1
    <3> HIDE DEF p
    <3> QED
      BY <1>2, <1>4, <1>14, <3>1, AllSeenStep DEF p
  <2>2. CASE FwftLatency = 1
    BY <1>4, <1>5, <1>19, <2>2
  <2>3. CASE FwftLatency = 2
    <3>1. j + mk \in 1 .. mnear /\ b + (j + mk) - 1 = p
      BY <1>a, <1>e, <1>5, <2>3
    <3>2. AllSeen(q, p, near)
      BY <1>8, <3>1
    <3>3. p \in Int /\ p < b + Len(mq)
      BY <1>a, <1>e, <3>1
    <3>5. shown2 = near - k
      BY <1>4, <2>3
    <3>6. shown2 >= near - k
      BY <1>d, <3>5
    <3>4. g = 1 => d.pkt # p
      BY <1>18, <3>3
    <3> HIDE DEF p
    <3> QED
      BY <1>2, <1>4, <1>14, <3>2, <3>6, <3>4, AllSeenStep DEF p
  <2> QED
    BY <1>2, <2>1, <2>2, <2>3
<1>21. mg_state' = "DATA" => AllSeen(r, mp2, shown2)
  <2> SUFFICES ASSUME mg_state' = "DATA" PROVE AllSeen(r, mp2, shown2)
    OBVIOUS
  <2>1. mp2 = mp
    BY <1>12
  <2>2. AllSeen(q, mp, shown) /\ mp < b + Len(mq)
    <3>1. CASE take_meta
      <4>1. b = mp /\ 1 \in 1 .. mshown /\ b + 1 - 1 = mp
        BY <1>1, <1>2, <1>3, <1>7, <3>1 DEF One
      <4>2. AllSeen(q, b + 1 - 1, shown)
        BY <1>8, <4>1
      <4> QED
        BY <1>2, <1>3, <1>7, <3>1, <4>1, <4>2
    <3>2. CASE ~take_meta
      <4>1. mg_state = "DATA"
        BY <1>12, <3>2
      <4>2. b = mp + 1
        BY <1>7, <4>1 DEF One
      <4> QED
        BY <1>2, <1>7, <1>8, <4>1, <4>2
    <3> QED
      BY <3>1, <3>2
  <2>3. g = 1 => d.pkt # mp
    BY <1>7, <1>18, <2>2
  <2>4. shown2 >= Len(r) \/ shown2 >= Len(q) - k \/ shown2 >= shown - k
    BY <1>2, <1>4, <1>6, <1>14
  <2> QED
    BY <1>2, <1>4, <1>14, <2>1, <2>2, <2>3, <2>4, AllSeenStep
<1> QED
  BY <1>9, <1>16, <1>17, <1>19, <1>20, <1>21
  DEF SeenInv, r, near2, shown2, mnear2, mshown2, b2, w2

-----------------------------------------------------------------------------
(***************************************************************************)
(* What is written.                                                        *)
(***************************************************************************)
LEMMA AllRecords ==
  ASSUME NEW m, NEW s \in Seq(ItemTypes), NEW n, InOrder(m, s, n),
         \A i \in 1 .. Len(s) : s[i] # Padding
  PROVE  n = Len(s)
<1>1. n \in 0 .. Len(s) /\ Len(s) \in Nat
  BY EmptyIs DEF InOrder
<1>2. SUFFICES ASSUME n < Len(s) PROVE FALSE
  BY <1>1
<1>3. n + 1 \in n + 1 .. Len(s) /\ n + 1 \in 1 .. Len(s)
  BY <1>1, <1>2
<1> QED
  BY <1>3 DEF InOrder

LEMMA OrderGrows ==
  ASSUME NEW m, NEW s \in Seq(ItemTypes), NEW x \in ItemTypes, InOrder(m, s, Len(s)),
         RecordWord(m, x),
         IF s = <<>> THEN x.kind = "meta" ELSE x = Follower(m, s[Len(s)])
  PROVE  InOrder(m, Append(s, x), Len(s) + 1)
<1> DEFINE t == Append(s, x)  n == Len(s)
<1>1. /\ n \in Nat /\ t \in Seq(ItemTypes) /\ Len(t) = n + 1 /\ (s = <<>> <=> n = 0)
      /\ \A i \in 1 .. n : t[i] = s[i]
      /\ t[n + 1] = x
  BY AppendIs, EmptyIs
<1>2. /\ \A i \in 1 .. n : RecordWord(m, s[i])
      /\ n > 0 => s[1].kind = "meta"
      /\ \A i \in 1 .. n - 1 : s[i + 1] = Follower(m, s[i])
  BY <1>1 DEF InOrder
<1> HIDE DEF t
<1>3. n + 1 \in 0 .. Len(t) /\ \A i \in n + 1 + 1 .. Len(t) : t[i] = Padding
  BY <1>1
<1>4. ASSUME NEW i \in 1 .. n + 1 PROVE RecordWord(m, t[i])
  <2>1. CASE i = n + 1
    BY <1>1, <2>1
  <2>2. CASE i # n + 1
    <3>1. i \in 1 .. n
      BY <2>2, <1>1
    <3> QED
      BY <3>1, <1>1, <1>2
  <2> QED
    BY <2>1, <2>2
<1>5. t[1].kind = "meta"
  <2>1. CASE n = 0
    BY <2>1, <1>1
  <2>2. CASE n > 0
    BY <2>2, <1>1, <1>2
  <2> QED
    BY <1>1, <2>1, <2>2
<1>6. ASSUME NEW i \in 1 .. n + 1 - 1 PROVE t[i + 1] = Follower(m, t[i])
  <2>1. CASE i = n
    BY <1>1, <2>1
  <2>2. CASE i # n
    <3>1. i \in 1 .. n - 1 /\ i \in 1 .. n /\ i + 1 \in 1 .. n
      BY <2>2, <1>1
    <3> QED
      BY <3>1, <1>1, <1>2
  <2> QED
    BY <2>1, <2>2
<1> QED
  BY <1>3, <1>4, <1>5, <1>6 DEF InOrder, t, n

LEMMA OrderPads ==
  ASSUME NEW m, NEW s \in Seq(ItemTypes), NEW n, InOrder(m, s, n), s # <<>>
  PROVE  InOrder(m, Append(s, Padding), n)
<1> DEFINE t == Append(s, Padding)
<1>0. Padding \in ItemTypes
  BY DEF Padding, Item, ItemTypes
<1>1. /\ Len(s) \in Nat /\ t \in Seq(ItemTypes) /\ Len(t) = Len(s) + 1
      /\ \A i \in 1 .. Len(s) : t[i] = s[i]
      /\ t[Len(s) + 1] = Padding
      /\ Len(s) > 0
  BY <1>0, AppendIs, EmptyIs
<1>2. /\ n \in 0 .. Len(s)
      /\ \A i \in 1 .. n : RecordWord(m, s[i])
      /\ \A i \in n + 1 .. Len(s) : s[i] = Padding
      /\ s[1].kind = "meta"
      /\ \A i \in 1 .. n - 1 : s[i + 1] = Follower(m, s[i])
  BY DEF InOrder
<1> HIDE DEF t
<1>3. n \in 0 .. Len(t) /\ n \in Nat
  BY <1>1, <1>2
<1>4. \A i \in 1 .. n : t[i] = s[i]
  BY <1>1, <1>2
<1>5. \A i \in 1 .. n : RecordWord(m, t[i])
  BY <1>2, <1>4
<1>6. ASSUME NEW i \in n + 1 .. Len(t) PROVE t[i] = Padding
  <2>1. CASE i = Len(s) + 1
    BY <1>1, <2>1
  <2>2. CASE i # Len(s) + 1
    <3>1. i \in n + 1 .. Len(s) /\ i \in 1 .. Len(s)
      BY <2>2, <1>1, <1>3
    <3> QED
      BY <3>1, <1>1, <1>2
  <2> QED
    BY <2>1, <2>2
<1>7. t[1].kind = "meta"
  BY <1>1, <1>2
<1>8. ASSUME NEW i \in 1 .. n - 1 PROVE t[i + 1] = Follower(m, t[i])
  <2>1. i \in 1 .. n /\ i + 1 \in 1 .. n
    BY <1>3
  <2> QED
    BY <2>1, <1>2, <1>4
<1> QED
  BY <1>3, <1>5, <1>6, <1>7, <1>8 DEF InOrder, t

LEMMA NoneIsWhole == 0 % WordsPerBeat = 0 /\ Len(<<>>) = 0
<1>1. WordsPerBeat \in Nat \ {0}
  BY Sizes
<1> QED
  BY <1>1

LEMMA MetaCountIs ==
  ASSUME NEW s \in Seq(ItemTypes), NEW x \in ItemTypes
  PROVE  /\ MetaCount(s) \in Nat
         /\ MetaCount(Append(s, x)) = MetaCount(s) + One(x.kind = "meta")
<1> DEFINE t == Append(s, x)  n == Len(s)
           A == {i \in 1 .. n : s[i].kind = "meta"}
           B == {i \in 1 .. n + 1 : t[i].kind = "meta"}
<1>1. /\ n \in Nat /\ Len(t) = n + 1
      /\ \A i \in 1 .. n : t[i] = s[i]
      /\ t[n + 1] = x
  BY AppendIs, EmptyIs
<1>2. DOMAIN s = 1 .. n
  OBVIOUS
<1>3. DOMAIN t = 1 .. n + 1
  <2>1. t \in Seq(ItemTypes)
    OBVIOUS
  <2>2. DOMAIN t = 1 .. Len(t)
    BY <2>1
  <2> QED
    BY <1>1, <2>2
<1> HIDE DEF t
<1>4. MetaCount(s) = Cardinality(A) /\ MetaCount(t) = Cardinality(B)
  BY <1>2, <1>3 DEF MetaCount
<1>5. IsFiniteSet(A)
  <2>1. IsFiniteSet(1 .. n) /\ A \subseteq 1 .. n
    BY <1>1, FS_Interval
  <2> QED
    BY <2>1, FS_Subset
<1>6. Cardinality(A) \in Nat
  BY <1>5, FS_CardinalityType
<1>7. CASE x.kind = "meta"
  <2>1. B = A \cup {n + 1} /\ n + 1 \notin A
    BY <1>1, <1>7
  <2> HIDE DEF A, B
  <2>2. Cardinality(A \cup {n + 1}) = Cardinality(A) + 1
    BY <1>5, <2>1, FS_AddElement
  <2> QED
    BY <1>4, <1>6, <1>7, <2>1, <2>2 DEF One, t
<1>8. CASE x.kind # "meta"
  <2>1. B = A
    BY <1>1, <1>8
  <2> HIDE DEF A, B
  <2> QED
    BY <1>4, <1>6, <1>8, <2>1 DEF One, t
<1> QED
  BY <1>7, <1>8

LEMMA MetaCountNone == MetaCount(<<>>) = 0
<1>1. {i \in DOMAIN <<>> : <<>>[i].kind = "meta"} = {}
  OBVIOUS
<1> QED
  BY <1>1, FS_EmptySet DEF MetaCount

LEMMA RecordWordIs ==
  ASSUME NEW m, NEW x, RecordWord(m, x)
  PROVE  x # Padding
<1>1. CASE x = Meta(x.pkt)
  <2>1. Meta(x.pkt).kind = "meta" /\ Padding.kind = "padding"
    BY DEF Meta, Item, Padding
  <2> QED
    BY <1>1, <2>1
<1>2. CASE x.kind = "data"
  BY <1>2 DEF Padding, Item
<1> QED
  BY <1>1, <1>2 DEF RecordWord

(* The next word goes on with the records.                                 *)
GoesOn(m, s, x) ==
  /\ s \in Seq(ItemTypes) /\ InOrder(m, s, Len(s))
  /\ \A i \in 1 .. Len(s) : s[i] # Padding
  /\ x \in ItemTypes /\ RecordWord(m, x)
  /\ IF s = <<>> THEN x.kind = "meta" ELSE x = Follower(m, s[Len(s)])

LEMMA WordAppended ==
  ASSUME NEW m, NEW s, NEW x, GoesOn(m, s, x), NEW t, t = Append(s, x)
  PROVE  /\ InOrder(m, t, Len(t)) /\ t # <<>> /\ t[Len(t)] = x
         /\ \A i \in 1 .. Len(t) : t[i] # Padding
<1>0. /\ s \in Seq(ItemTypes) /\ InOrder(m, s, Len(s))
      /\ \A i \in 1 .. Len(s) : s[i] # Padding
      /\ x \in ItemTypes /\ RecordWord(m, x)
      /\ IF s = <<>> THEN x.kind = "meta" ELSE x = Follower(m, s[Len(s)])
  BY DEF GoesOn
<1>1. /\ Len(s) \in Nat /\ t \in Seq(ItemTypes) /\ Len(t) = Len(s) + 1
      /\ \A i \in 1 .. Len(s) : t[i] = s[i]
      /\ t[Len(s) + 1] = x
  BY <1>0, AppendIs, EmptyIs
<1>2. x # Padding
  BY <1>0, RecordWordIs
<1>3. InOrder(m, t, Len(t))
  BY <1>0, <1>1, OrderGrows
<1>4. t # <<>> /\ t[Len(t)] = x
  BY <1>1
<1>5. ASSUME NEW i \in 1 .. Len(t) PROVE t[i] # Padding
  <2>1. i \in 1 .. Len(s) \/ i = Len(s) + 1
    BY <1>1
  <2> QED
    BY <2>1, <1>0, <1>1, <1>2
<1> QED
  BY <1>3, <1>4, <1>5

LEMMA MetaIs ==
  ASSUME NEW m \in Nat \ {0}, NEW p \in 1 .. Len(PktLens)
  PROVE  /\ Meta(p) \in ItemTypes /\ Meta(p).kind = "meta" /\ Meta(p).pkt = p
         /\ RecordWord(m, Meta(p)) /\ ~Ends(m, Meta(p)) /\ Follower(m, Meta(p)) = Data(p, 1)
<1>0. PktLens[p] \in Nat /\ Cut(m, p) \in Nat \ {0}
  BY Packet, CutSome
<1>1. PktLens[p] \in Nat /\ p \in Nat /\ Cut(m, p) \in Nat \ {0}
  BY <1>0
<1>2. Meta(p) \in ItemTypes /\ Meta(p).kind = "meta" /\ Meta(p).pkt = p
  BY <1>1 DEF Meta, Item, ItemTypes
<1> HIDE DEF Meta
<1>3. RecordWord(m, Meta(p))
  BY <1>2 DEF RecordWord
<1>4. ~Ends(m, Meta(p))
  BY <1>1, <1>2 DEF Ends
<1>5. Follower(m, Meta(p)) = Data(p, 1)
  BY <1>2, <1>4 DEF Follower
<1> QED
  BY <1>2, <1>3, <1>4, <1>5

LEMMA DataWordIs ==
  ASSUME NEW m \in Nat \ {0}, NEW p \in 1 .. Len(PktLens), NEW v \in 1 .. Cut(m, p)
  PROVE  /\ Data(p, v) \in ItemTypes /\ Data(p, v).kind = "data" /\ Data(p, v).pkt = p
         /\ RecordWord(m, Data(p, v))
         /\ Ends(m, Data(p, v)) <=> v = Cut(m, p)
         /\ v < Cut(m, p) => Follower(m, Data(p, v)) = Data(p, v + 1)
<1>1. p \in Nat /\ v \in Nat /\ Cut(m, p) \in Nat \ {0}
  BY CutSome, Sizes
<1>2. /\ Data(p, v) \in ItemTypes /\ Data(p, v).kind = "data" /\ Data(p, v).pkt = p
      /\ Data(p, v).val = v
  BY <1>1, DataIs
<1> HIDE DEF Data
<1>3. RecordWord(m, Data(p, v))
  BY <1>2 DEF RecordWord
<1>4. Ends(m, Data(p, v)) <=> v = Cut(m, p)
  BY <1>2 DEF Ends
<1>5. v < Cut(m, p) => Follower(m, Data(p, v)) = Data(p, v + 1)
  BY <1>1, <1>2, <1>4 DEF Follower
<1> QED
  BY <1>2, <1>3, <1>4, <1>5

(* What was written so far.                                                *)
LEMMA StoredIs ==
  ASSUME Control, StoredInv, StillInv, Unpadded
  PROVE  /\ stored \in Seq(ItemTypes) /\ Len(stored) \in Nat
         /\ \A i \in 1 .. Len(stored) : stored[i] # Padding
         /\ InOrder(max_len, stored, Len(stored))
         /\ mg_state = "META" /\ stored # <<>> => Ends(max_len, stored[Len(stored)])
<1>1. stored \in Seq(ItemTypes) /\ Len(stored) \in Nat /\ (stored = <<>> <=> Len(stored) = 0)
  BY EmptyIs DEF Control, TypeOK
<1>2. \A i \in 1 .. Len(stored) : stored[i] # Padding
  BY DEF StillInv
<1>3. PICK n \in 0 .. Len(stored) :
        /\ InOrder(max_len, stored, n)
        /\ mg_state = "META" /\ n > 0 => Ends(max_len, stored[n])
  BY DEF StoredInv
<1>4. n = Len(stored)
  BY <1>1, <1>2, <1>3, AllRecords
<1> QED
  BY <1>1, <1>2, <1>3, <1>4

LEMMA WrittenKept ==
  ASSUME NEW arrives \in BOOLEAN, NEW drain \in BOOLEAN, NEW prog_empty \in BOOLEAN,
         NEW mw_busy \in BOOLEAN, Flow(arrives, drain, prog_empty, mw_busy),
         NEW mp, NEW rp, RangeInv(mp, rp), WrittenInv(mp), StoredInv, StillInv,
         NEW mp2, MergeAfter(mp, mp2, rp)
  PROVE  /\ WrittenInv(mp2)' /\ StoredInv'
         /\ \A i \in 1 .. Len(stored') : stored'[i] # Padding
<1> DEFINE m == max_len  s == stored  t == stored'
           gone == Gone(m, mp, mg_state, mg_left)
           gone2 == Gone(m, mp2, mg_state', mg_left')
<1>0. m \in Nat \ {0}
  BY MaxLen DEF Flow
<1>1. /\ Control /\ ~rst /\ Unpadded /\ m \in Nat \ {0} /\ max_len' = m
      /\ mg_state \in {"META", "DATA"} /\ mg_state' \in {"META", "DATA"}
  BY <1>0, Flows, TypeKept DEF Flow, Flowing, Unpadded, Control, TypeOK
<1>2. /\ s \in Seq(ItemTypes) /\ Len(s) \in Nat
      /\ \A i \in 1 .. Len(s) : s[i] # Padding
      /\ InOrder(m, s, Len(s))
      /\ mg_state = "META" /\ s # <<>> => Ends(m, s[Len(s)])
      /\ s # <<>> => Len(s) \in 1 .. Len(s)
  <2>1. s = <<>> <=> Len(s) = 0
    BY <1>1, StoredIs, EmptyIs
  <2> QED
    BY <1>1, <2>1, StoredIs
<1>3. /\ mg_state = "DATA" => s # <<>> /\ s[Len(s)] = IF gone = 0 THEN Meta(mp) ELSE Data(mp, gone)
      /\ mg_state = "META" /\ s # <<>> => s[Len(s)].pkt = mp - 1
  BY <1>2 DEF WrittenInv
<1>4. /\ gone \in Nat /\ mp \in Nat \ {0} /\ mp2 \in Nat \ {0}
      /\ take_meta => MergedWord = Meta(mp) /\ mp2 = mp /\ mg_state' = "DATA" /\ gone2 = 0
      /\ take_data =>
           /\ MergedWord = Data(mp, gone + 1) /\ gone + 1 \in 1 .. Cut(m, mp)
           /\ \/ mp2 = mp /\ mg_state' = "DATA" /\ gone2 = gone + 1
              \/ mp2 = mp + 1 /\ mg_state' = "META" /\ gone + 1 = Cut(m, mp)
      /\ ~take_meta /\ ~take_data =>
           mp2 = mp /\ mg_state' = mg_state /\ gone2 = gone
  BY DEF MergeAfter, RangeInv
<1>5. /\ take_meta \/ take_data => t = Append(s, MergedWord)
      /\ ~take_meta /\ ~take_data => t = s
  BY Flows
<1>6. /\ take_meta => mg_state = "META"
      /\ take_data => mg_state = "DATA"
      /\ take_meta \/ take_data => mp \in 1 .. Len(PktLens)
  <2>1. take_meta => mg_state = "META" /\ mp < rp
    BY <1>1, Takes DEF MergeAfter
  <2>2. take_data => mg_state = "DATA" /\ mp < rp
    BY <1>1, Takes DEF RangeInv
  <2> QED
    BY <1>1, <2>1, <2>2, Writing
<1>7. SUFFICES /\ InOrder(m, t, Len(t)) /\ Len(t) \in Nat /\ \A i \in 1 .. Len(t) : t[i] # Padding
               /\ mg_state' = "META" /\ t # <<>> => Ends(m, t[Len(t)]) /\ t[Len(t)].pkt = mp2 - 1
               /\ mg_state' = "DATA" =>
                    t # <<>> /\ t[Len(t)] = IF gone2 = 0 THEN Meta(mp2) ELSE Data(mp2, gone2)
  <2>1. WrittenInv(mp2)'
    BY <1>1, <1>7 DEF WrittenInv
  <2>2. StoredInv'
    <3>1. Len(t) \in 0 .. Len(t) /\ (Len(t) > 0 => t # <<>>)
      BY <1>7
    <3> QED
      BY <1>1, <1>7, <3>1 DEF StoredInv
  <2> QED
    BY <1>7, <2>1, <2>2
<1> HIDE DEF m, s, t, gone, gone2
<1>8. CASE take_meta
  <2> DEFINE x == Meta(mp)
  <2>1. /\ x \in ItemTypes /\ x.kind = "meta" /\ x.pkt = mp /\ RecordWord(m, x)
    BY <1>1, <1>6, <1>8, MetaIs
  <2>2. ASSUME s # <<>> PROVE x = Follower(m, s[Len(s)])
    <3>1. Ends(m, s[Len(s)]) /\ s[Len(s)].pkt = mp - 1
      BY <1>2, <1>3, <1>6, <1>8, <2>2
    <3>2. s[Len(s)].pkt + 1 = mp
      BY <1>4, <3>1
    <3> QED
      BY <3>1, <3>2 DEF Follower
  <2>3. t = Append(s, x)
    BY <1>4, <1>5, <1>8
  <2>4. t \in Seq(ItemTypes) /\ Len(t) \in Nat
    BY <1>2, <2>1, <2>3, AppendIs, EmptyIs
  <2> HIDE DEF x
  <2>5. InOrder(m, t, Len(t)) /\ t # <<>> /\ t[Len(t)] = x /\ \A i \in 1 .. Len(t) : t[i] # Padding
    <3>1. IF s = <<>> THEN x.kind = "meta" ELSE x = Follower(m, s[Len(s)])
      BY <2>1, <2>2
    <3>2. GoesOn(m, s, x)
      BY <1>2, <2>1, <3>1 DEF GoesOn
    <3>3. InOrder(m, t, Len(t))
      BY <2>3, <3>2, WordAppended
    <3>4. t # <<>>
      BY <2>3, <3>2, WordAppended
    <3>5. t[Len(t)] = x
      BY <2>3, <3>2, WordAppended
    <3>6. \A i \in 1 .. Len(t) : t[i] # Padding
      BY <2>3, <3>2, WordAppended
    <3> QED
      BY <3>3, <3>4, <3>5, <3>6
  <2> QED
    BY <1>4, <1>8, <2>4, <2>5 DEF x
<1>9. CASE take_data
  <2> DEFINE x == Data(mp, gone + 1)
  <2>0. mp \in 1 .. Len(PktLens) /\ gone + 1 \in 1 .. Cut(m, mp) /\ Cut(m, mp) \in Nat
    BY <1>1, <1>4, <1>6, <1>9, CutSome
  <2>1. /\ x \in ItemTypes /\ x.kind = "data" /\ x.pkt = mp /\ RecordWord(m, x)
        /\ Ends(m, x) <=> gone + 1 = Cut(m, mp)
    BY <1>1, <2>0, DataWordIs
  <2>2. s # <<>> /\ x = Follower(m, s[Len(s)])
    <3>1. s # <<>> /\ s[Len(s)] = IF gone = 0 THEN Meta(mp) ELSE Data(mp, gone)
      BY <1>3, <1>6, <1>9
    <3>2. gone = 0 => Follower(m, Meta(mp)) = Data(mp, gone + 1)
      BY <1>1, <2>0, MetaIs
    <3>3. gone # 0 => gone \in 1 .. Cut(m, mp) /\ gone < Cut(m, mp)
      BY <1>4, <2>0
    <3>4. gone # 0 => Follower(m, Data(mp, gone)) = Data(mp, gone + 1)
      BY <1>1, <2>0, <3>3, DataWordIs
    <3> QED
      BY <3>1, <3>2, <3>4
  <2>3. t = Append(s, x)
    BY <1>4, <1>5, <1>9
  <2>4. t \in Seq(ItemTypes) /\ Len(t) \in Nat
    BY <1>2, <2>1, <2>3, AppendIs, EmptyIs
  <2> HIDE DEF x
  <2>5. InOrder(m, t, Len(t)) /\ t # <<>> /\ t[Len(t)] = x /\ \A i \in 1 .. Len(t) : t[i] # Padding
    <3>1. IF s = <<>> THEN x.kind = "meta" ELSE x = Follower(m, s[Len(s)])
      BY <2>1, <2>2
    <3>2. GoesOn(m, s, x)
      BY <1>2, <2>1, <3>1 DEF GoesOn
    <3>3. InOrder(m, t, Len(t))
      BY <2>3, <3>2, WordAppended
    <3>4. t # <<>>
      BY <2>3, <3>2, WordAppended
    <3>5. t[Len(t)] = x
      BY <2>3, <3>2, WordAppended
    <3>6. \A i \in 1 .. Len(t) : t[i] # Padding
      BY <2>3, <3>2, WordAppended
    <3> QED
      BY <3>3, <3>4, <3>5, <3>6
  <2>6. CASE mp2 = mp /\ mg_state' = "DATA" /\ gone2 = gone + 1
    <3>1. gone2 # 0
      BY <1>4, <2>6
    <3> QED
      BY <2>4, <2>5, <2>6, <3>1 DEF x
  <2>7. CASE mp2 = mp + 1 /\ mg_state' = "META" /\ gone + 1 = Cut(m, mp)
    <3>1. mp = mp2 - 1
      BY <1>4, <2>7
    <3> QED
      BY <2>1, <2>4, <2>5, <2>7, <3>1
  <2> QED
    BY <1>4, <1>9, <2>6, <2>7
<1>10. CASE ~take_meta /\ ~take_data
  BY <1>2, <1>3, <1>4, <1>5, <1>10
<1> QED
  BY <1>8, <1>9, <1>10

(* What was counted.                                                       *)
LEMMA CountKept ==
  ASSUME NEW arrives \in BOOLEAN, NEW drain \in BOOLEAN, NEW prog_empty \in BOOLEAN,
         NEW mw_busy \in BOOLEAN, Flow(arrives, drain, prog_empty, mw_busy),
         NEW mp, NEW rp, NEW mp2, MergeAfter(mp, mp2, rp),
         ~Failed, rx_state = "RECORD" \/ ct_state = "RX_DISABLE", CountInv
  PROVE  pkt_cnt' = MetaCount(stored') + Len(meta_fifo'.q) + One(rx_meta_o'.wr) + One(rx_meta'.wr)
<1> DEFINE mc == MetaCount(stored)  mc2 == MetaCount(stored')
           l == Len(meta_fifo.q)  l2 == Len(meta_fifo'.q)
           o == One(rx_meta_o.wr)  o2 == One(rx_meta_o'.wr)
           w == One(rx_meta.wr)  w2 == One(rx_meta'.wr)  k == One(take_meta)
           got == rx_meta_o.wr /\ ~Full(meta_fifo)  g == One(got)
<1>1. /\ Control /\ ~rst /\ stored \in Seq(ItemTypes) /\ meta_state \in {"ACTIVE", "ERR"}
      /\ rx_state \in {"RECORD", "IDLE", "ERR"}
  BY DEF Flow, Flowing, Control, TypeOK, RxTypeOK
<1>2. pkt_cnt = mc + l + o + w
  BY DEF CountInv
<1>3. /\ l2 = l - k + g /\ meta_state = "ACTIVE" /\ (rx_meta_o.wr => ~Full(meta_fifo))
  BY <1>1, Flows DEF FifoAfter, Failed
<1>4. g = o
  BY <1>3 DEF One
<1>5. o2 = w
  BY <1>1, <1>3, EdgeRx DEF Flow, One
<1>6. mc \in Nat /\ mc2 = mc + k
  <2>1. CASE take_meta
    <3>1. stored' = Append(stored, MergedWord) /\ MergedWord \in ItemTypes /\ MergedWord = Meta(mp)
      BY <1>1, <2>1, Flows, MergedWordIs DEF MergeAfter
    <3>2. MergedWord.kind = "meta"
      BY <3>1 DEF Meta, Item
    <3> HIDE DEF MergedWord
    <3> QED
      BY <1>1, <2>1, <3>1, <3>2, MetaCountIs DEF One
  <2>2. CASE take_data
    <3>1. stored' = Append(stored, MergedWord) /\ MergedWord \in ItemTypes
          /\ MergedWord = Data(mp, Gone(max_len, mp, mg_state, mg_left) + 1) /\ ~take_meta
      BY <1>1, <2>2, Flows, MergedWordIs, Takes DEF MergeAfter
    <3>2. MergedWord.kind # "meta"
      BY <3>1 DEF Data, Item
    <3> HIDE DEF MergedWord
    <3> QED
      BY <1>1, <2>2, <3>1, <3>2, MetaCountIs DEF One
  <2>3. CASE ~take_meta /\ ~take_data
    <3>1. stored' = stored /\ k = 0
      BY <2>3, Flows DEF One
    <3>2. Padding \in ItemTypes
      BY DEF Padding, Item, ItemTypes
    <3>3. mc \in Nat
      BY <1>1, <3>2, MetaCountIs
    <3> HIDE DEF k
    <3> QED
      BY <3>1, <3>3
  <2> QED
    BY <2>1, <2>2, <2>3
<1>7. pkt_cnt' = pkt_cnt + w2 /\ pkt_cnt \in Nat
  <2>1. RxClock(rst, ct.rx, max_len, Word(arrives), Full(data_fifo), Full(meta_fifo))
    BY DEF Flow, Edge
  <2>2. rx_meta \in MetaTypes /\ pkt_cnt \in Nat
    BY <1>1 DEF Control, TypeOK, RxTypeOK
  <2> DEFINE word == rx_state = "RECORD" /\ ~RxStop(ct.rx) /\ Word(arrives).tvalid
             last == word /\ Word(arrives).tlast
  <2>3. CASE word
    <3>1. RxRecordWord(rst, ct.rx, max_len, Word(arrives), Full(data_fifo))
      BY <2>1, <2>3 DEF RxClock, RxRst, RxIdle, RxStart, RxRecordNothing, RxErr
    <3>2. (rx_meta'.wr <=> last) /\ pkt_cnt' = IF last THEN pkt_cnt + 1 ELSE pkt_cnt
      BY <2>2, <2>3, <3>1 DEF RxRecordWord, MetaTypes
    <3> QED
      BY <2>2, <3>2 DEF One
  <2>4. CASE ~word
    <3>1. ~rx_meta'.wr /\ pkt_cnt' = pkt_cnt
      BY <1>1, <2>1, <2>2, <2>4 DEF RxClock, RxRst, RxIdle, RxStart, RxRecordNothing, RxRecordWord,
         RxErr, RxWriteNothing, MetaTypes
    <3> QED
      BY <2>2, <3>1 DEF One
  <2> QED
    BY <2>3, <2>4
<1>8. l \in Nat /\ o \in {0, 1} /\ w \in {0, 1} /\ w2 \in {0, 1} /\ k \in {0, 1}
  BY <1>1, Sides, FifoIs DEF One
<1> HIDE DEF mc, mc2, l, l2, o, o2, w, w2, k, got, g
<1>9. pkt_cnt' = mc2 + l2 + o2 + w2
  BY <1>2, <1>3, <1>4, <1>5, <1>6, <1>7, <1>8
<1> QED
  BY <1>9 DEF mc2, l2, o2, w2

-----------------------------------------------------------------------------
(***************************************************************************)
(* When nothing is on its way.                                             *)
(***************************************************************************)
(* What is known of a packet p that comes next then.                       *)
Settled(p) ==
  /\ p \in 1 .. pkt
  /\ rx_state = "RECORD" => p = pkt /\ sent = 0 /\ rx_len = NoLength /\ max_len # 0
  /\ stored # <<>> /\ stored[Len(stored)] # Padding => stored[Len(stored)].pkt = p - 1

LEMMA SettledChain ==
  \A p : Control /\ Rest /\ Settled(p) => Chain(p, p)
<1> SUFFICES ASSUME Control, Rest, NEW p, Settled(p) PROVE Chain(p, p)
  OBVIOUS
<1> DEFINE m == max_len
<1>1. /\ pkt \in Nat \ {0} /\ p \in Nat \ {0} /\ p <= pkt /\ m \in Nat /\ 0 * WordBytes = 0
      /\ data_fifo.q = <<>> /\ meta_fifo.q = <<>> /\ Len(<<>>) = 0
      /\ ~rx_meta_o.wr /\ ~rx_meta.wr /\ ~rx_data.wr /\ mg_state = "META"
  BY Sizes DEF Settled, Control, TypeOK, Rest, NoMetas
<1>2. /\ Gone(m, p, mg_state, mg_left) = 0 /\ First(m, p, mg_state, mg_left) = Data(p, 1)
      /\ Base(p, mg_state) = p
  BY <1>1 DEF Gone, First, Base, One
<1>3. DataDue(p) = Data(p, 1) /\ DataNext(p) = Data(p, 1) /\ Data(p, 1).pkt = p
  BY <1>1, <1>2, DataIs DEF DataDue, DataNext, Due
<1>4. RangeInv(p, p)
  BY <1>1 DEF RangeInv
<1>5. DataChain(p, p)
  BY <1>1 DEF DataChain, Linked
<1>6. MetaChain(p, p)
  BY <1>1, <1>2 DEF MetaChain, MetaEnd, One
<1>7. ReceiverInv(p, p)
  <2>1. rx_state = "RECORD" =>
          /\ p = pkt /\ DataAfter(m, pkt, sent) = Data(p, 1)
          /\ rx_len = [capture |-> Shorter(sent * WordBytes, m), wire |-> sent * WordBytes]
    <3> SUFFICES ASSUME rx_state = "RECORD"
        PROVE  /\ p = pkt /\ DataAfter(m, pkt, sent) = Data(p, 1)
               /\ rx_len = [capture |-> Shorter(sent * WordBytes, m), wire |-> sent * WordBytes]
      OBVIOUS
    <3>1. p = pkt /\ sent = 0 /\ rx_len = NoLength /\ m > 0
      BY <1>1 DEF Settled
    <3>2. Shorter(0, m) = 0
      BY <1>1 DEF Shorter
    <3> QED
      BY <1>1, <3>1, <3>2 DEF DataAfter, NoLength
  <2> QED
    BY <1>1, <1>3, <2>1 DEF ReceiverInv
<1>8. SeenInv(p, p)
  <2>1. meta_fifo.near \in Nat /\ meta_fifo.near <= 0 /\ meta_fifo.shown \in Nat /\ meta_fifo.shown <= 0
    BY <1>1, Sides, FifoIs
  <2> QED
    BY <1>1, <2>1 DEF SeenInv, FirstSeen, AllSeen
<1>9. WrittenInv(p)
  BY <1>1 DEF WrittenInv, Settled
<1> QED
  BY <1>4, <1>5, <1>6, <1>7, <1>8, <1>9 DEF Chain

LEMMA SettledChainNext ==
  (\A p : Control /\ Rest /\ Settled(p) => Chain(p, p))'
BY SettledChain, PTL

(* And the packet that comes next, when nothing is on its way.             *)
LEMMA ChainSettled ==
  ASSUME Control, Rest, rx_state \in {"RST", "IDLE", "START"}, NEW mp, NEW rp, Chain(mp, rp),
         mp \in 1 .. pkt
  PROVE  Settled(mp)
BY DEF Chain, WrittenInv, Rest, Settled

(* The control FSM takes three flags for the end of everything.            *)
LEMMA QuietIs ==
  ASSUME Control, ~rst, ~unnoticed, ct_state = "RX_DISABLE", Quiet, NEW mp, NEW rp, Chain(mp, rp)
  PROVE  Rest \/ Dead
<1> DEFINE q == data_fifo.q  m == max_len
           first == First(m, mp, mg_state, mg_left)
<1>1. /\ rx_state \in {"IDLE", "ERR"} /\ ~rx_active /\ ~rx_data.wr /\ ~rx_meta.wr
      /\ mg_state \in {"META", "DATA"}
      /\ data_fifo.shown = 0
  BY DEF Control, PhaseInv, Recording, Quiet, Empty, TypeOK
<1>2. q \in Seq(ItemTypes) /\ Len(q) \in Nat /\ (q = <<>> <=> Len(q) = 0)
  BY Sides, FifoIs
<1>3. mp \in Nat \ {0} /\ rp \in Nat /\ mp <= rp /\ (mg_state = "DATA" => mp < rp)
  BY DEF Chain, RangeInv
<1>4. /\ Linked(m, q, first) /\ (q # <<>> => q[1] = first)
      /\ rx_state = "IDLE" => DataNext(mp) = Data(rp, 1)
      /\ DataNext(mp).pkt < rp => DataNext(mp).val >= 2
      /\ FirstSeen(q, rp, 0)
      /\ mg_state = "DATA" => AllSeen(q, mp, 0)
  BY <1>1 DEF Chain, DataChain, Linked, ReceiverInv, SeenInv
<1>5. DataNext(mp) = Due(m, q, first)
  BY <1>1 DEF DataNext, DataDue
<1>6. /\ mg_state = "META" => first = Data(mp, 1)
      /\ first = Data(mp, Gone(m, mp, mg_state, mg_left) + 1) /\ first.pkt = mp
  <2>1. Data(mp, Gone(m, mp, mg_state, mg_left) + 1).pkt = mp
    BY DEF Data, Item
  <2> QED
    BY <2>1 DEF First, Gone
<1>7. Data(mp, 1).pkt = mp /\ Data(mp, 1).val = 1 /\ Data(rp, 1).pkt = rp /\ Data(rp, 1).val = 1
      /\ Data(mp, 1) \in ItemTypes
  BY <1>3, DataIs
<1>8. q # <<>> => 1 \in 1 .. Len(q) /\ ~(1 <= 0)
  BY <1>2
<1>9. mg_state = "META" /\ ~NoMetas => mp < rp
  <2>1. /\ MetaEnd(mp) + One(rx_meta_o.wr) + One(rx_meta.wr) <= rp
        /\ MetaEnd(mp) = Base(mp, mg_state) + Len(meta_fifo.q)
    BY DEF Chain, MetaChain, MetaEnd
  <2>2. Len(meta_fifo.q) \in Nat /\ (meta_fifo.q = <<>> <=> Len(meta_fifo.q) = 0)
    BY Sides, FifoIs
  <2>3. mg_state = "META" => Base(mp, mg_state) = mp
    BY <1>3 DEF Base, One
  <2>4. One(rx_meta_o.wr) \in {0, 1} /\ One(rx_meta.wr) \in {0, 1} /\ (rx_meta_o.wr => One(rx_meta_o.wr) = 1)
    BY DEF One
  <2>5. ~NoMetas => Len(meta_fifo.q) > 0 \/ rx_meta_o.wr
    BY <1>1, <2>2 DEF NoMetas
  <2> QED
    BY <1>3, <2>1, <2>2, <2>3, <2>4, <2>5
<1> HIDE DEF q, m, first
<1>10. CASE mg_state = "META" /\ NoMetas
  <2>1. CASE rx_state = "ERR"
    BY <1>10, <2>1 DEF Dead
  <2>2. CASE rx_state = "IDLE" /\ q = <<>>
    BY <1>1, <1>10, <2>2 DEF Rest, q
  <2>3. CASE rx_state = "IDLE" /\ q # <<>>
    <3>1. q[1] = Data(mp, 1) /\ mp = rp
      BY <1>3, <1>4, <1>6, <1>7, <1>8, <1>10, <2>3 DEF FirstSeen
    <3>2. Earlier(q[1], Due(m, q, first))
      BY <1>2, <1>4, <1>6, <1>7, <1>8, <1>10, <2>3, DueGoesOn
    <3>3. Due(m, q, first) = Data(mp, 1)
      BY <1>4, <1>5, <2>3, <3>1
    <3> QED
      BY <1>3, <1>7, <3>1, <3>2, <3>3 DEF Earlier
  <2> QED
    BY <1>1, <2>1, <2>2, <2>3
<1>11. CASE mg_state = "META" /\ ~NoMetas
  <2>1. mp < rp /\ first = Data(mp, 1)
    BY <1>6, <1>9, <1>11
  <2>2. q = <<>>
    BY <1>4, <1>7, <1>8, <2>1 DEF FirstSeen
  <2>3. DataNext(mp) = Data(mp, 1)
    BY <1>5, <2>1, <2>2 DEF Due
  <2> QED
    BY <1>1, <1>3, <1>4, <1>7, <2>1, <2>3
<1>12. CASE mg_state = "DATA"
  <2>1. q = <<>>
    BY <1>4, <1>6, <1>8, <1>12 DEF AllSeen
  <2>2. DataNext(mp).pkt = mp /\ mp < rp
    BY <1>3, <1>5, <1>6, <1>12, <2>1 DEF Due
  <2>3. rx_state = "ERR"
    BY <1>1, <1>3, <1>4, <1>7, <2>2
  <2> QED
    BY <1>1, <1>12, <2>1, <2>3 DEF Dead, q
<1> QED
  BY <1>1, <1>10, <1>11, <1>12

(* At an edge then nothing moves, unless recording begins.                 *)
LEMMA RestKept ==
  ASSUME Control, ~rst, NEW arrives \in BOOLEAN, NEW drain \in BOOLEAN,
         NEW prog_empty \in BOOLEAN, NEW mw_busy \in BOOLEAN,
         Edge(arrives, drain, prog_empty, mw_busy), Rest \/ Dead, rx_state # "RECORD"
  PROVE  /\ ~take_meta /\ ~take_data
         /\ mg_state' = mg_state /\ mg_left' = mg_left
         /\ Rest => Rest'
         /\ Dead => Dead'
<1>1. FifoClock(drain) /\ MergeClock(rst, take_meta, take_data,
                 IF take_meta THEN Head(meta_fifo.q).len.capture ELSE 0)
  BY DEF Edge
<1>2. ~take_meta /\ ~take_data
  BY Takes DEF Rest, Dead, NoMetas
<1>3. mg_state' = mg_state /\ mg_left' = mg_left
  BY <1>1, <1>2 DEF MergeClock
<1>4. ~rx_data'.wr /\ ~rx_meta'.wr /\ (rx_meta_o'.wr => rx_meta.wr) /\ (rx_state = "ERR" => rx_state' = "ERR")
  BY EdgeRx
<1>5. /\ meta_fifo \in FifoTypes(MetaTypes) /\ data_fifo \in FifoTypes(ItemTypes)
      /\ take_meta = FALSE /\ take_data = FALSE
      /\ ~rx_meta_o.wr => rx_meta_o.wr = FALSE
      /\ ~rx_data.wr => rx_data.wr = FALSE
  BY <1>2, Sides, Takes
<1>6. ~rx_meta_o.wr => meta_fifo'.q = meta_fifo.q
  <2>1. FifoAfter(MetaTypes, meta_fifo, meta_fifo', rx_meta_o.wr, rx_meta_o, take_meta)
    BY <1>1, FifosAfter
  <2> QED
    BY <1>5, <2>1, FifoUntouched
<1>7. ~rx_data.wr => data_fifo'.q = data_fifo.q
  <2>1. FifoAfter(ItemTypes, data_fifo, data_fifo', rx_data.wr, rx_data.din, take_data)
    BY <1>1, FifosAfter
  <2> QED
    BY <1>5, <2>1, FifoUntouched
<1>8. NoMetas => NoMetas'
  BY <1>4, <1>6 DEF NoMetas
<1>9. Rest => Rest'
  BY <1>3, <1>4, <1>7, <1>8 DEF Rest
<1>10. Dead => Dead'
  BY <1>3, <1>4, <1>7, <1>8 DEF Dead
<1> QED
  BY <1>2, <1>3, <1>9, <1>10

-----------------------------------------------------------------------------
(***************************************************************************)
(* A clock edge keeps the order of the words.                              *)
(***************************************************************************)
(* While words are on their way.                                           *)
LEMMA FlowPhase ==
  ASSUME Control, ~rst, ~unnoticed, ~Still, NEW arrives \in BOOLEAN, NEW drain \in BOOLEAN,
         NEW prog_empty \in BOOLEAN, NEW mw_busy \in BOOLEAN,
         Edge(arrives, drain, prog_empty, mw_busy)
  PROVE  /\ Flowing /\ Unpadded
         /\ Still' => ct_state = "RX_DISABLE" /\ Quiet
         /\ ~Fresh' /\ sw' # "idle" /\ ct_state' \notin Stopped
         /\ rx_state' = "RECORD" \/ ct_state' \notin {"IDLE", "ACTIVE"} =>
              rx_state' = "ERR" \/ rx_state = "RECORD" \/ ct_state = "RX_DISABLE"
<1>1. /\ ct_state \in {"ACTIVE", "RX_DISABLE"} /\ rx_state \in {"RECORD", "IDLE", "ERR"}
      /\ ct_state = "ACTIVE" => rx_state # "IDLE"
  BY DEF Still, Control, TypeOK, RxTypeOK, RxStates
<1>2. PhaseInv /\ CtrlInv /\ sw' = sw /\ ctrl_active' = ctrl_active
  BY DEF Control, Edge
<1>3. /\ ct_state = "ACTIVE" => rx_state = "ERR" \/ ct.rx
      /\ ct_state = "RX_DISABLE" /\ rx_state = "IDLE" => ~ct.rx
      /\ ct_state = "ACTIVE" /\ ~ctrl_active => (rx_state = "RECORD" /\ ct.rx) \/ rx_state = "ERR"
      /\ sw \notin {"idle", "configured"}
  BY <1>1, <1>2 DEF PhaseInv, CtrlInv, Recording
<1>4. Flowing /\ Unpadded
  BY <1>1, <1>3 DEF Flowing, Unpadded
<1>5. /\ rx_state = "IDLE" => rx_state' = "IDLE"
      /\ rx_state = "ERR" => rx_state' = "ERR"
      /\ rx_state = "RECORD" => rx_state' \in {"RECORD", "ERR", "IDLE"}
      /\ rx_state = "RECORD" /\ ct.rx => rx_state' # "IDLE"
  BY <1>1, <1>3, EdgeRx DEF RxStop
<1>6. /\ ct'.rx <=> ct_state = "ACTIVE"
      /\ ct_state = "ACTIVE" => ct_state' = IF ctrl_active THEN "ACTIVE" ELSE "RX_DISABLE"
      /\ ct_state = "RX_DISABLE" => ct_state' = IF Quiet THEN "ALIGN" ELSE "RX_DISABLE"
  BY <1>1, EdgeCtrl
<1> HIDE DEF Quiet
<1>7. Still' => ct_state = "RX_DISABLE" /\ Quiet
  BY <1>1, <1>3, <1>5, <1>6 DEF Still
<1>8. ~Fresh' /\ sw' # "idle"
  BY <1>1, <1>2, <1>3, <1>5, <1>6 DEF Fresh
<1>9. ct_state' \notin Stopped
  BY <1>1, <1>6 DEF Stopped
<1>10. rx_state' = "RECORD" \/ ct_state' \notin {"IDLE", "ACTIVE"} =>
         rx_state' = "ERR" \/ rx_state = "RECORD" \/ ct_state = "RX_DISABLE"
  BY <1>1, <1>3, <1>5, <1>6
<1> QED
  BY <1>4, <1>7, <1>8, <1>9, <1>10

LEMMA FlowKept ==
  ASSUME Control, Words, ~rst, ~Still, NEW arrives \in BOOLEAN, NEW drain \in BOOLEAN,
         NEW prog_empty \in BOOLEAN, NEW mw_busy \in BOOLEAN,
         Edge(arrives, drain, prog_empty, mw_busy), ~unnoticed'
  PROVE  Words'
<1>0. ~unnoticed
  BY DEF Edge
<1>1. Flow(arrives, drain, prog_empty, mw_busy) /\ Unpadded
  BY <1>0, FlowPhase DEF Flow
<1>2. StoredInv /\ StillInv /\ CountInv /\ (Dead \/ \E mp, rp \in 1 .. pkt : Chain(mp, rp))
  BY DEF Words
<1>3. /\ ~unnoticed /\ (rx_state = "ERR" => rx_state' = "ERR")
      /\ meta_state = "ERR" => meta_state' = "ERR"
  <2>1. ~unnoticed /\ (meta_state = "ERR" => meta_state' = "ERR")
    BY DEF Edge, RxClock, RxMeta
  <2> QED
    BY <2>1, EdgeRx
<1> DEFINE NoPad == \A i \in 1 .. Len(stored') : stored'[i] # Padding
           InChain == \E mp, rp \in 1 .. pkt : Chain(mp, rp)
<1>4. CASE Dead
  <2>1. rx_state = "ERR" /\ rx_state' = "ERR"
    BY <1>3, <1>4 DEF Dead
  <2>2. ~take_meta /\ ~take_data /\ mg_state' = mg_state /\ Dead'
    BY <1>4, <2>1, RestKept
  <2>3. stored' = stored /\ max_len' = max_len
    BY <1>1, <2>2, Flows
  <2>4. StoredInv' /\ NoPad
    BY <1>1, <1>2, <2>2, <2>3 DEF StoredInv, StillInv
  <2>5. StillInv'
    BY <1>0, <2>2, <2>4, FlowPhase DEF StillInv
  <2>6. CountInv'
    BY <2>1 DEF CountInv, Failed
  <2> QED
    BY <2>2, <2>4, <2>5, <2>6 DEF Words
<1>5. CASE ~Dead
  <2>1. PICK mp \in 1 .. pkt, rp \in 1 .. pkt : Chain(mp, rp)
    BY <1>2, <1>5
  <2>2. PICK mp2 : mp2 = mp + One(take_data /\ mg_left = 1)
    OBVIOUS
  <2>3. PICK rp2 : rp2 = rp + One(Ended(arrives))
    OBVIOUS
  <2>4. /\ RangeInv(mp, rp) /\ DataChain(mp, rp) /\ MetaChain(mp, rp)
        /\ ReceiverInv(mp, rp) /\ SeenInv(mp, rp) /\ WrittenInv(mp)
    BY <2>1 DEF Chain
  <2>5. MergeAfter(mp, mp2, rp)
    BY <1>1, <2>2, <2>4, MergeMoves
  <2>6. ReceiverAfter(mp, rp, rp2)
    BY <1>1, <2>3, <2>4, ReceiverMoves
  <2>7. RangeInv(mp2, rp2)' /\ DataChain(mp2, rp2)' /\ ReceiverInv(mp2, rp2)'
    BY <1>1, <2>4, <2>5, <2>6, DataKept
  <2>8. MetaChain(mp2, rp2)'
    BY <1>1, <2>4, <2>5, <2>6, MetaKept
  <2>9. SeenInv(mp2, rp2)'
    BY <1>1, <2>4, <2>5, <2>6, SeenKept
  <2>10. WrittenInv(mp2)' /\ StoredInv' /\ NoPad
    BY <1>1, <1>2, <2>4, <2>5, WrittenKept
  <2>11. Chain(mp2, rp2)'
    BY <2>7, <2>8, <2>9, <2>10 DEF Chain
  <2>12. InChain'
    <3>1. mp2 \in 1 .. pkt' /\ rp2 \in 1 .. pkt'
      <4>1. mp2 \in Nat \ {0} /\ rp2 \in Nat /\ mp2 <= rp2 /\ rp2 <= pkt'
        BY <2>7 DEF RangeInv
      <4>2. pkt' \in Nat
        BY TypeKept DEF TypeOK
      <4> QED
        BY <4>1, <4>2
    <3> QED
      BY <2>11, <3>1
  <2>13. StillInv'
    <3>1. Still' => Rest' \/ Dead'
      <4> SUFFICES ASSUME Still' PROVE Rest' \/ Dead'
        OBVIOUS
      <4>1. ct_state = "RX_DISABLE" /\ Quiet
        BY <1>0, FlowPhase
      <4>2. Rest \/ Dead
        BY <1>0, <2>1, <4>1, QuietIs
      <4>3. rx_state # "RECORD"
        BY <1>0, <4>1 DEF Control, PhaseInv, Recording, Quiet
      <4> QED
        BY <4>2, <4>3, RestKept
    <3> QED
      BY <1>0, <2>10, <3>1, FlowPhase DEF StillInv
  <2>14. CountInv'
    <3> SUFFICES ASSUME ~Failed', rx_state' = "RECORD" \/ ct_state' \notin {"IDLE", "ACTIVE"}
        PROVE  pkt_cnt' = MetaCount(stored') + Len(meta_fifo'.q) + One(rx_meta_o'.wr) + One(rx_meta'.wr)
      BY DEF CountInv
    <3>1. ~Failed /\ rx_state' # "ERR"
      BY <1>3 DEF Failed
    <3>2. rx_state = "RECORD" \/ ct_state = "RX_DISABLE"
      BY <1>0, <3>1, FlowPhase
    <3> QED
      BY <1>1, <1>2, <2>5, <3>1, <3>2, CountKept
  <2> QED
    BY <2>10, <2>12, <2>13, <2>14 DEF Words
<1> QED
  BY <1>4, <1>5

(* When nothing is on its way.                                             *)
LEMMA StillPhase ==
  ASSUME Control, ~rst, ~unnoticed, Still, NEW arrives \in BOOLEAN, NEW drain \in BOOLEAN,
         NEW prog_empty \in BOOLEAN, NEW mw_busy \in BOOLEAN,
         Edge(arrives, drain, prog_empty, mw_busy)
  PROVE  /\ rx_state \in {"RST", "IDLE", "START", "ERR"}
         /\ rx_state' = "RECORD" =>
              rx_state = "START" /\ ct_state = "ACTIVE" /\ ct.rx /\ ~s_axis_active /\ Fresh
         /\ Fresh' => Fresh
         /\ sw' = "idle" => sw = "idle"
         /\ Unpadded' => Fresh \/ Unpadded
         /\ Fresh \/ Unpadded \/ sw = "idle" => wr_state # "ALIGN"
         /\ ct_state' \in Stopped => ct_state \in Stopped \/ (ct_state = "WAIT_ALIGN" /\ align_done)
         /\ ct_state' \notin {"IDLE", "ACTIVE"} =>
              rx_state = "ERR" \/ (rx_state = "IDLE" /\ ct_state \notin {"IDLE", "ACTIVE"})
<1>1. /\ PhaseInv /\ CtrlInv /\ sw' = sw /\ ctrl_active' = ctrl_active
      /\ rx_state \in RxStates /\ ct_state \in CtStates
  BY DEF Control, Edge, TypeOK, RxTypeOK
<1>2. /\ rx_state = "RST" => ct_state = "IDLE"
      /\ wr_state = "ALIGN" => ct_state = "WAIT_ALIGN" /\ ~ct.align
  BY DEF Control, ResetInv, AlignInv
<1>3. /\ rx_state \in {"RST", "IDLE", "START", "ERR"}
      /\ rx_state = "START" => ct_state = "ACTIVE" /\ ct.rx
      /\ ct_state = "ACTIVE" /\ ~ctrl_active => rx_state = "ERR"
      /\ ctrl_active => ct_state \in {"IDLE", "ACTIVE"}
      /\ sw \in {"idle", "configured"} => ct_state = "IDLE"
      /\ ct_state = "RX_DISABLE" => FALSE
  BY <1>1, <1>2 DEF Still, PhaseInv, CtrlInv, RxStates, Recording
<1>4. /\ rx_state = "RST" => rx_state' = "IDLE"
      /\ rx_state = "IDLE" => rx_state' = IF ct.rx THEN "START" ELSE "IDLE"
      /\ rx_state = "START" => rx_state' = IF s_axis_active THEN "START" ELSE "RECORD"
      /\ rx_state = "ERR" => rx_state' = "ERR"
  BY EdgeRx
<1>5. /\ ct'.rx <=> ct_state = "ACTIVE"
      /\ ct'.align <=> ct_state = "ALIGN"
      /\ ct_state = "IDLE" => ct_state' = IF ctrl_active THEN "ACTIVE" ELSE "IDLE"
      /\ ct_state = "ACTIVE" => ct_state' = IF ctrl_active THEN "ACTIVE" ELSE "RX_DISABLE"
      /\ ct_state = "ALIGN" => ct_state' = "WAIT_ALIGN"
      /\ ct_state = "WAIT_ALIGN" => ct_state' = IF align_done THEN "WAIT_EMPTY" ELSE "WAIT_ALIGN"
      /\ ct_state \in Stopped => ct_state' \in Stopped \cup {"IDLE"}
  BY EdgeCtrl
<1>6. rx_state' = "RECORD" =>
        rx_state = "START" /\ ct_state = "ACTIVE" /\ ct.rx /\ ~s_axis_active /\ Fresh
  BY <1>3, <1>4 DEF Fresh
<1>7. ct_state \in {"IDLE", "ACTIVE", "ALIGN", "WAIT_ALIGN"} \cup Stopped
  BY <1>1, <1>3 DEF CtStates, Stopped
<1>8. "IDLE" \notin Stopped /\ "ACTIVE" \notin Stopped /\ "RX_DISABLE" \notin Stopped
      /\ "ALIGN" \notin Stopped /\ "WAIT_ALIGN" \notin Stopped
  BY DEF Stopped
<1>9. Fresh' => Fresh
  <2>1. CASE ct_state = "IDLE"
    BY <1>1, <1>5, <2>1 DEF Fresh
  <2>2. CASE ct_state = "ACTIVE"
    BY <1>1, <1>3, <1>4, <1>5, <2>2 DEF Fresh
  <2>3. CASE ct_state \notin {"IDLE", "ACTIVE"}
    BY <1>1, <1>3, <1>5, <1>7, <1>8, <2>3 DEF Fresh
  <2> QED
    BY <2>1, <2>2, <2>3
<1>10. Unpadded' => Fresh \/ Unpadded
  BY <1>5, <1>7, <1>8 DEF Unpadded, Fresh
<1>11. Fresh \/ Unpadded \/ sw = "idle" => wr_state # "ALIGN"
  BY <1>2, <1>3 DEF Fresh, Unpadded
<1>12. ct_state' \in Stopped => ct_state \in Stopped \/ (ct_state = "WAIT_ALIGN" /\ align_done)
  BY <1>5, <1>7, <1>8
<1>13. ct_state' \notin {"IDLE", "ACTIVE"} =>
         rx_state = "ERR" \/ (rx_state = "IDLE" /\ ct_state \notin {"IDLE", "ACTIVE"})
  BY <1>2, <1>3, <1>5
<1> QED
  BY <1>1, <1>3, <1>6, <1>9, <1>10, <1>11, <1>12, <1>13

LEMMA StillKept ==
  ASSUME Control, Words, ~rst, Still, NEW arrives \in BOOLEAN, NEW drain \in BOOLEAN,
         NEW prog_empty \in BOOLEAN, NEW mw_busy \in BOOLEAN,
         Edge(arrives, drain, prog_empty, mw_busy), ~unnoticed'
  PROVE  Words'
<1>0. ~unnoticed
  BY DEF Edge
<1>1. /\ StoredInv /\ StillInv /\ CountInv /\ (Dead \/ \E mp, rp \in 1 .. pkt : Chain(mp, rp))
      /\ Rest \/ Dead
  BY DEF Words, StillInv
<1>2. /\ rx_state \in {"RST", "IDLE", "START", "ERR"}
      /\ rx_state' = "RECORD" =>
           rx_state = "START" /\ ct_state = "ACTIVE" /\ ct.rx /\ ~s_axis_active /\ Fresh
      /\ Fresh' => Fresh
      /\ sw' = "idle" => sw = "idle"
      /\ Unpadded' => Fresh \/ Unpadded
      /\ Fresh \/ Unpadded \/ sw = "idle" => wr_state # "ALIGN"
      /\ ct_state' \in Stopped => ct_state \in Stopped \/ (ct_state = "WAIT_ALIGN" /\ align_done)
      /\ ct_state' \notin {"IDLE", "ACTIVE"} =>
           rx_state = "ERR" \/ (rx_state = "IDLE" /\ ct_state \notin {"IDLE", "ACTIVE"})
  BY <1>0, StillPhase
<1>3. /\ ~take_meta /\ ~take_data /\ mg_state' = mg_state
      /\ Rest => Rest'
      /\ Dead => Dead'
  BY <1>1, <1>2, RestKept
<1>4. /\ max_len' = max_len /\ rst' = rst /\ FifoClock(drain) /\ NetClock(arrives)
      /\ arrives => MayArrive
      /\ drain => Len(stored) - drained >= WordsPerBeat
      /\ RxClock(rst, ct.rx, max_len, Word(arrives), Full(data_fifo), Full(meta_fifo))
      /\ ~BeginsUnseen(arrives)
  BY DEF Edge
<1>5. /\ stored \in Seq(ItemTypes) /\ Len(stored) \in Nat /\ (stored = <<>> <=> Len(stored) = 0)
      /\ pkt \in Nat \ {0} /\ sent \in Nat /\ drained \in Nat /\ WordsPerBeat \in Nat \ {0}
      /\ pkt_cnt \in Nat /\ Padding \in ItemTypes /\ wr_cntr \in 0 .. WordsPerBeat - 1
  BY EmptyIs, Sizes DEF Control, TypeOK, RxTypeOK, Padding, Item, ItemTypes
<1>6. /\ Pads => stored' = Append(stored, Padding)
      /\ ~Pads => stored' = stored
      /\ Pads => wr_state = "ALIGN" /\ wr_cntr # 0
  BY <1>3, <1>4, StoredAfter DEF Passes, Pads
<1>7. wr_state # "ALIGN" => stored' = stored
  BY <1>6
<1>8. Pads => /\ Len(stored') = Len(stored) + 1 /\ stored'[Len(stored')] = Padding
              /\ stored' # <<>> /\ \A i \in 1 .. Len(stored) : stored'[i] = stored[i]
  BY <1>5, <1>6, AppendIs
<1>9. Dead' \/ \E p \in 1 .. pkt' : (Rest /\ Settled(p))'
  <2> SUFFICES ASSUME ~Dead PROVE \E p \in 1 .. pkt' : (Rest /\ Settled(p))'
    BY <1>3
  <2>1. Rest /\ Rest' /\ rx_state # "ERR"
    BY <1>1, <1>3 DEF Rest, Dead
  <2>2. CASE rx_state' = "RECORD"
    <3>1. stored = <<>> /\ stored' = <<>>
      BY <1>1, <1>2, <1>7, <2>2 DEF StillInv
    <3>2. sent = 0
      BY <1>2, <1>4, <1>5, <2>2 DEF Control, NetInv
    <3>3. ~arrives
      BY <1>2, <1>4, <2>2, <3>2 DEF BeginsUnseen
    <3>4. pkt' = pkt /\ sent' = 0
      BY <1>4, <3>2, <3>3 DEF NetClock, netVars
    <3>5. rx_len' = NoLength
      BY <1>2, <1>4, <2>2 DEF RxClock, RxRst, RxIdle, RxStart, RxRecordNothing, RxRecordWord, RxErr
    <3>6. pkt' \in 1 .. pkt'
      BY <1>5, <3>4
    <3>8. max_len' # 0
      <4>1. sw = "capture"
        BY <1>2, <2>2 DEF Control, TypeOK, CtrlInv, ResetInv
      <4> QED
        BY <1>0, <1>4, <4>1 DEF Control, LenInv
    <3>7. \A p : p = pkt' => Settled(p)'
      BY <3>1, <3>4, <3>5, <3>6, <3>8 DEF Settled
    <3> QED
      BY <2>1, <3>6, <3>7
  <2>3. CASE rx_state' # "RECORD"
    <3>1. PICK mp \in 1 .. pkt, rp \in 1 .. pkt : Chain(mp, rp)
      BY <1>1
    <3>2. Settled(mp)
      BY <1>2, <2>1, <3>1, ChainSettled
    <3>3. mp \in 1 .. pkt'
      <4>1. pkt' = pkt \/ pkt' = pkt + 1
        BY <1>4 DEF NetClock, netVars
      <4> QED
        BY <1>5, <4>1
    <3>4. stored' # <<>> /\ stored'[Len(stored')] # Padding => stored'[Len(stored')].pkt = mp - 1
      BY <1>6, <1>8, <3>2 DEF Settled
    <3>5. Settled(mp)'
      BY <2>3, <3>3, <3>4 DEF Settled
    <3> QED
      BY <2>1, <3>3, <3>5
  <2> QED
    BY <2>2, <2>3
<1>10. (Dead \/ \E mp, rp \in 1 .. pkt : Chain(mp, rp))'
  <2>1. CASE Dead'
    BY <2>1
  <2>2. CASE \E p \in 1 .. pkt' : (Rest /\ Settled(p))'
    <3>1. PICK p \in 1 .. pkt' : (Rest /\ Settled(p))'
      BY <2>2
    <3>2. Control'
      BY TypeKept, ResetKept, CtrlKept, PhaseKept, AlignKept, LenKept DEF Control
    <3>3. Chain(p, p)'
      BY <3>1, <3>2, SettledChainNext
    <3> QED
      BY <3>1, <3>3
  <2> QED
    BY <1>9, <2>1, <2>2
<1>11. StoredInv'
  <2>1. PICK n \in 0 .. Len(stored) :
          /\ InOrder(max_len, stored, n)
          /\ mg_state = "META" /\ n > 0 => Ends(max_len, stored[n])
    BY <1>1 DEF StoredInv
  <2>2. CASE Pads
    <3>0. stored # <<>>
      <4>1. Len(stored) % WordsPerBeat = wr_cntr /\ wr_cntr # 0
        BY <1>6, <2>2 DEF Control, AlignInv
      <4> QED
        BY <4>1, NoneIsWhole
    <3>1. InOrder(max_len, stored', n)
      BY <1>5, <1>6, <2>1, <2>2, <3>0, OrderPads
    <3>2. n \in 0 .. Len(stored') /\ (n > 0 => n \in 1 .. Len(stored))
      BY <1>5, <1>8, <2>2
    <3>3. n > 0 => stored'[n] = stored[n]
      BY <1>8, <2>2, <3>2
    <3> QED
      BY <1>3, <1>4, <2>1, <3>1, <3>2, <3>3 DEF StoredInv
  <2>3. CASE ~Pads
    BY <1>3, <1>4, <1>6, <2>1, <2>3 DEF StoredInv
  <2> QED
    BY <2>2, <2>3
<1>12. StillInv'
  <2>1. Still' => Rest' \/ Dead'
    BY <1>1, <1>3
  <2>2. Fresh' => stored' = <<>>
    BY <1>1, <1>2, <1>7 DEF StillInv
  <2>3. sw' = "idle" => Len(stored') = drained'
    <3> SUFFICES ASSUME sw' = "idle" PROVE Len(stored') = drained'
      OBVIOUS
    <3>1. Len(stored) = drained /\ stored' = stored
      BY <1>1, <1>2, <1>7 DEF StillInv
    <3>2. ~drain
      BY <1>4, <1>5, <3>1
    <3>3. drained' = drained
      BY <1>4, <3>2 DEF FifoClock
    <3> QED
      BY <3>1, <3>3
  <2>4. Unpadded' => \A i \in 1 .. Len(stored') : stored'[i] # Padding
    <3> SUFFICES ASSUME Unpadded' PROVE \A i \in 1 .. Len(stored') : stored'[i] # Padding
      OBVIOUS
    <3>1. Fresh \/ Unpadded
      BY <1>2
    <3>2. stored' = stored
      BY <1>2, <1>7, <3>1
    <3>3. CASE Fresh
      <4>1. Len(stored') = 0
        BY <1>1, <1>5, <3>2, <3>3 DEF StillInv
      <4> QED
        BY <4>1
    <3>4. CASE Unpadded
      BY <1>1, <3>2, <3>4 DEF StillInv
    <3> QED
      BY <3>1, <3>3, <3>4
  <2>5. ct_state' \in Stopped => wr_cntr' = 0
    <3>1. ct_state' \in Stopped => wr_cntr = 0
      BY <1>1, <1>2 DEF StillInv, Control, AlignInv
    <3>2. wr_cntr = 0 => wr_cntr' = 0
      BY <1>3, EdgeWrapper DEF Passes, Pads
    <3> QED
      BY <3>1, <3>2
  <2> QED
    BY <2>1, <2>2, <2>3, <2>4, <2>5 DEF StillInv
<1>13. CountInv'
  <2> SUFFICES ASSUME ~Failed', rx_state' = "RECORD" \/ ct_state' \notin {"IDLE", "ACTIVE"}
      PROVE  pkt_cnt' = MetaCount(stored') + Len(meta_fifo'.q) + One(rx_meta_o'.wr) + One(rx_meta'.wr)
    BY DEF CountInv
  <2>1. ~Failed
    <3>1. /\ rx_state = "ERR" => rx_state' = "ERR"
          /\ meta_state = "ERR" => meta_state' = "ERR"
      BY <1>4, EdgeRx DEF RxClock, RxMeta
    <3> QED
      BY <1>4, <3>1 DEF Failed
  <2>2. rx_state # "ERR" /\ Rest /\ Rest'
    BY <1>1, <1>3, <2>1 DEF Dead, Failed
  <2>3. /\ Len(meta_fifo'.q) = 0 /\ One(rx_meta_o'.wr) = 0 /\ One(rx_meta'.wr) = 0
        /\ Len(meta_fifo.q) = 0 /\ One(rx_meta_o.wr) = 0 /\ One(rx_meta.wr) = 0
    BY <2>2 DEF Rest, NoMetas, One
  <2>4. CASE rx_state' = "RECORD"
    <3>1. stored' = <<>>
      BY <1>1, <1>2, <1>7, <2>4 DEF StillInv
    <3>2. pkt_cnt' = 0
      BY <1>2, <1>4, <2>4 DEF RxClock, RxRst, RxIdle, RxStart, RxRecordNothing, RxRecordWord, RxErr
    <3> QED
      BY <2>3, <3>1, <3>2, MetaCountNone
  <2>5. CASE rx_state' # "RECORD"
    <3>1. rx_state = "IDLE" /\ ct_state \notin {"IDLE", "ACTIVE"}
      BY <1>2, <2>2, <2>5
    <3>2. pkt_cnt' = pkt_cnt
      BY <1>4, <3>1 DEF RxClock, RxRst, RxIdle, RxStart, RxRecordNothing, RxRecordWord, RxErr
    <3>3. pkt_cnt = MetaCount(stored) + Len(meta_fifo.q) + One(rx_meta_o.wr) + One(rx_meta.wr)
      BY <1>1, <2>1, <3>1 DEF CountInv
    <3>4. MetaCount(stored') = MetaCount(stored) /\ MetaCount(stored) \in Nat
      <4>1. MetaCount(stored) \in Nat
            /\ MetaCount(Append(stored, Padding)) = MetaCount(stored) + One(Padding.kind = "meta")
        BY <1>5, MetaCountIs
      <4>2. One(Padding.kind = "meta") = 0
        BY DEF One, Padding, Item
      <4>3. MetaCount(Append(stored, Padding)) = MetaCount(stored)
        BY <4>1, <4>2
      <4>4. stored' = Append(stored, Padding) \/ stored' = stored
        BY <1>6
      <4> HIDE DEF MetaCount
      <4> QED
        BY <4>1, <4>3, <4>4
    <3> QED
      BY <2>3, <3>2, <3>3, <3>4
  <2> QED
    BY <2>4, <2>5
<1> QED
  BY <1>10, <1>11, <1>12, <1>13 DEF Words

-----------------------------------------------------------------------------
(***************************************************************************)
(* The invariant.                                                          *)
(***************************************************************************)
(* Nothing was written, and nothing is on its way.                         *)
LEMMA NothingWritten ==
  ASSUME NEW m, NEW s, s = <<>>
  PROVE  InOrder(m, s, 0) /\ Len(s) = 0 /\ 0 \in 0 .. Len(s)
<1>1. Len(s) = 0 /\ 0 \in 0 .. Len(s)
  OBVIOUS
<1> QED
  BY <1>1 DEF InOrder

LEMMA WordsInit == ASSUME Init PROVE IInv
<1>1. Control
  BY ControlInit
<1>2. /\ rx_state = "IDLE" /\ pkt = 1 /\ stored = <<>> /\ drained = 0 /\ mg_state = "META"
      /\ meta_fifo.q = <<>> /\ data_fifo.q = <<>> /\ ct_state = "IDLE" /\ sw = "idle" /\ ~ctrl_active
      /\ ~rx_meta.wr /\ ~rx_meta_o.wr /\ ~rx_data.wr
      /\ ct_state \notin Stopped
  BY DEF Init, RxInit, MergeInit, CtrlInit, EmptyFifo, NoMeta, Stopped
<1>3. Rest /\ Settled(1) /\ 1 \in 1 .. pkt
  BY <1>2 DEF Rest, NoMetas, Settled
<1>4. Chain(1, 1)
  BY <1>1, <1>3, SettledChain
<1>5. StoredInv
  BY <1>2, NothingWritten DEF StoredInv
<1>6. StillInv
  BY <1>2, <1>3, NothingWritten DEF StillInv, Fresh
<1>7. CountInv
  BY <1>2 DEF CountInv
<1>8. Words
  BY <1>3, <1>4, <1>5, <1>6, <1>7 DEF Words
<1> QED
  BY <1>1, <1>8 DEF IInv

LEMMA WordsConfigure ==
  ASSUME Control, Control', Words, ~unnoticed, SwConfigure
  PROVE  Words'
<1>1. /\ sw = "idle" /\ ct_state = "IDLE" /\ ~rst /\ ~rx_active /\ rx_state \in {"RST", "IDLE", "ERR"}
      /\ stored \in Seq(ItemTypes) /\ drained \in Nat /\ Len(stored) = drained /\ pkt \in Nat \ {0}
  BY DEF SwConfigure, Control, CtrlInv, PhaseInv, ResetInv, TypeOK, Words, StillInv
<1>2. Rest \/ Dead
  BY <1>1 DEF Words, StillInv, Still
<1> USE DEF rxVars, mgVars, ctVars, netVars
<1>3. stored' = <<>>
  <2>1. stored' = SubSeq(stored, drained + 1, Len(stored)) /\ drained + 1 > Len(stored)
    BY <1>1 DEF SwConfigure
  <2> QED
    BY <1>1, <2>1
<1>4. /\ (Rest => Rest') /\ (Dead => Dead')
      /\ ct_state' = "IDLE" /\ rx_state' = rx_state /\ pkt' = pkt /\ sw' = "configured" /\ ct' = ct
  BY <1>1 DEF SwConfigure, Rest, Dead, NoMetas
<1>5. (Dead \/ \E mp, rp \in 1 .. pkt : Chain(mp, rp))'
  <2>1. CASE Dead
    BY <1>4, <2>1
  <2>2. CASE Rest
    <3>1. PICK p : p = pkt
      OBVIOUS
    <3>2. p \in 1 .. pkt' /\ Settled(p)' /\ Rest'
      BY <1>1, <1>3, <1>4, <2>2, <3>1 DEF Settled
    <3>3. Chain(p, p)'
      BY <3>2, SettledChainNext
    <3> QED
      BY <3>2, <3>3
  <2> QED
    BY <1>2, <2>1, <2>2
<1>6. StoredInv'
  BY <1>3, NothingWritten DEF StoredInv
<1>7. StillInv'
  <2>1. \A i \in 1 .. Len(stored') : stored'[i] # Padding
    BY <1>3, NothingWritten
  <2>2. ct_state' \notin Stopped
    BY <1>4 DEF Stopped
  <2> QED
    BY <1>2, <1>3, <1>4, <2>1, <2>2 DEF StillInv
<1>8. CountInv'
  BY <1>1, <1>4 DEF CountInv
<1> QED
  BY <1>5, <1>6, <1>7, <1>8 DEF Words

LEMMA WordsRelease ==
  ASSUME Control, Control', SwRelease
  PROVE  Words'
<1> USE DEF rxVars, mgVars, ctVars, netVars, fifoVars
<1>1. /\ rx_state' = "RST" /\ pkt' = pkt /\ pkt \in Nat \ {0} /\ stored' = <<>> /\ drained' = 0
      /\ mg_state' = "META" /\ meta_fifo' = EmptyFifo /\ data_fifo' = EmptyFifo
      /\ ct_state' = "IDLE" /\ ~rx_meta'.wr /\ ~rx_meta_o'.wr /\ ~rx_data'.wr
  BY DEF SwRelease, Control, ResetInv, TypeOK
<1>2. Rest'
  BY <1>1 DEF Rest, NoMetas, EmptyFifo
<1>3. (\E mp, rp \in 1 .. pkt : Chain(mp, rp))'
  <2>1. PICK p : p = pkt
    OBVIOUS
  <2>2. p \in 1 .. pkt' /\ Settled(p)'
    BY <1>1, <2>1 DEF Settled
  <2>3. Chain(p, p)'
    BY <1>2, <2>2, SettledChainNext
  <2> QED
    BY <2>2, <2>3
<1>4. StoredInv'
  BY <1>1, NothingWritten DEF StoredInv
<1>5. StillInv'
  <2>1. \A i \in 1 .. Len(stored') : stored'[i] # Padding
    BY <1>1, NothingWritten
  <2>2. ct_state' \notin Stopped
    BY <1>1 DEF Stopped
  <2>3. Len(stored') = drained'
    BY <1>1, NothingWritten
  <2> QED
    BY <1>1, <1>2, <2>1, <2>2, <2>3 DEF StillInv
<1>6. CountInv'
  BY <1>1 DEF CountInv
<1> QED
  BY <1>3, <1>4, <1>5, <1>6 DEF Words

(* Nothing that the order of the words is about changes.                   *)
LEMMA ChainStays ==
  ASSUME Others
  PROVE  /\ (Dead => Dead') /\ (Rest => Rest') /\ (StoredInv => StoredInv')
         /\ \A mp, rp : Chain(mp, rp) => Chain(mp, rp)'
<1> USE DEF Others, rxVars, mgVars, ctVars, netVars, fifoVars
<1>1. (Dead => Dead') /\ (Rest => Rest')
  BY DEF Dead, Rest, NoMetas
<1>2. StoredInv => StoredInv'
  BY DEF StoredInv
<1>3. ASSUME NEW mp, NEW rp, Chain(mp, rp) PROVE Chain(mp, rp)'
  <2>1. /\ DataDue(mp)' = DataDue(mp) /\ DataNext(mp)' = DataNext(mp)
        /\ MetaEnd(mp)' = MetaEnd(mp)
    BY DEF DataDue, DataNext, MetaEnd
  <2>2. RangeInv(mp, rp)'
    BY <1>3 DEF Chain, RangeInv
  <2>3. DataChain(mp, rp)'
    BY <1>3, <2>1 DEF Chain, DataChain
  <2>4. MetaChain(mp, rp)'
    BY <1>3, <2>1 DEF Chain, MetaChain
  <2>5. ReceiverInv(mp, rp)'
    BY <1>3, <2>1 DEF Chain, ReceiverInv
  <2>6. SeenInv(mp, rp)'
    BY <1>3 DEF Chain, SeenInv
  <2>7. WrittenInv(mp)'
    BY <1>3 DEF Chain, WrittenInv
  <2> QED
    BY <2>2, <2>3, <2>4, <2>5, <2>6, <2>7 DEF Chain
<1> QED
  BY <1>1, <1>2, <1>3

LEMMA WordsOthers ==
  ASSUME Others, Words,
         Fresh' => Fresh,
         sw' = "idle" => sw = "idle" \/ Len(stored) = drained
  PROVE  Words'
<1>1. (Dead \/ \E mp, rp \in 1 .. pkt : Chain(mp, rp))'
  <2>1. pkt' = pkt
    BY DEF Others, netVars
  <2> QED
    BY <2>1, ChainStays DEF Words
<1> USE DEF Others, rxVars, mgVars, ctVars, netVars, fifoVars
<1>2. StoredInv'
  BY ChainStays DEF Words
<1>3. StillInv'
  <2>1. Still' => Rest' \/ Dead'
    <3>1. Still' => Still
      BY DEF Still
    <3> QED
      BY <3>1, ChainStays DEF Words, StillInv
  <2>2. Unpadded' => Unpadded
    BY DEF Unpadded
  <2>3. Fresh' => stored' = <<>>
    BY DEF Words, StillInv
  <2>4. sw' = "idle" => Len(stored') = drained'
    BY DEF Words, StillInv
  <2>5. Unpadded' => \A i \in 1 .. Len(stored') : stored'[i] # Padding
    BY <2>2 DEF Words, StillInv
  <2>6. ct_state' \in Stopped => wr_cntr' = 0
    BY DEF Words, StillInv
  <2> QED
    BY <2>1, <2>3, <2>4, <2>5, <2>6 DEF StillInv
<1>4. CountInv'
  <2>1. Failed' <=> Failed
    BY DEF Failed
  <2> QED
    BY <2>1 DEF Words, CountInv
<1> QED
  BY <1>1, <1>2, <1>3, <1>4 DEF Words

LEMMA WordsClock ==
  ASSUME IInv, Clock
  PROVE  IInv'
<1>1. Control /\ Control'
  BY ControlClock DEF IInv
<1>2. PICK a \in BOOLEAN, d \in BOOLEAN, e \in BOOLEAN, b \in BOOLEAN : Edge(a, d, e, b)
  BY ClockIsEdge
<1>3. SUFFICES ASSUME ~unnoticed' PROVE (rst /\ stored = <<>>)' \/ Words'
  BY <1>1 DEF IInv
<1>4. ~unnoticed
  BY <1>2, <1>3 DEF Edge
<1>5. CASE rst
  <2>1. rst' = rst /\ stored' = <<>>
    BY <1>2, <1>5 DEF Edge, FifoClock
  <2> QED
    BY <1>5, <2>1
<1>6. CASE ~rst
  <2>1. Words
    BY <1>4, <1>6 DEF IInv
  <2>2. CASE Still
    BY <1>1, <1>2, <1>3, <1>6, <2>1, <2>2, StillKept
  <2>3. CASE ~Still
    BY <1>1, <1>2, <1>3, <1>6, <2>1, <2>3, FlowKept
  <2> QED
    BY <2>2, <2>3
<1> QED
  BY <1>5, <1>6

LEMMA WordsStep == ASSUME IInv, [Next]_vars PROVE IInv'
<1>1. Control
  BY DEF IInv
<1>2. CASE Clock
  BY <1>2, WordsClock
<1>3. CASE SwConfigure
  <2>1. Control'
    BY <1>1, <1>3, ControlConfigure
  <2>2. ~unnoticed' => ~unnoticed /\ Words
    BY <1>1, <1>3 DEF IInv, SwConfigure, Control, ResetInv
  <2> QED
    BY <1>1, <1>3, <2>1, <2>2, WordsConfigure DEF IInv
<1>4. CASE SwRelease
  <2>1. Control'
    BY <1>1, <1>4, ControlOthers
  <2> QED
    BY <1>1, <1>4, <2>1, WordsRelease DEF IInv
<1>5. CASE SwStart \/ SwStop \/ SwFinish \/ SwReset
  <2>1. Control' /\ Others
    BY <1>1, <1>5, ControlOthers
  <2>2. /\ ~unnoticed' => ~unnoticed
        /\ (rst => rst') /\ stored' = stored
        /\ Fresh' => Fresh
        /\ sw' = "idle" => sw = "idle" \/ Len(stored) = drained
    <3>1. ~unnoticed' => ~unnoticed
      BY <1>5 DEF SwStart, SwStop, SwFinish, SwReset, Note
    <3>2. (rst => rst') /\ stored' = stored
      BY <1>5 DEF SwStart, SwStop, SwFinish, SwReset, fifoVars
    <3>3. Fresh' => Fresh
      BY <1>1, <1>5 DEF SwStart, SwStop, SwFinish, SwReset, Fresh, rxVars, mgVars, ctVars,
                        Control, CtrlInv, ResetInv
    <3>4. sw' = "idle" => sw = "idle" \/ Len(stored) = drained
      BY <1>5 DEF SwStart, SwStop, SwFinish, SwReset
    <3> QED
      BY <3>1, <3>2, <3>3, <3>4
  <2>3. Words => Words'
    BY <2>1, <2>2, WordsOthers
  <2> QED
    BY <2>1, <2>2, <2>3 DEF IInv
<1>6. CASE UNCHANGED vars
  <2>1. Control'
    BY <1>1, <1>6, ControlStill
  <2>2. Others
    BY <1>1, <1>6 DEF Others, Control, TypeOK, vars, rxVars, mgVars, ctVars, ctlVars, netVars, fifoVars
  <2>3. /\ unnoticed' = unnoticed /\ rst' = rst /\ stored' = stored /\ sw' = sw
        /\ Fresh' => Fresh
    BY <1>6 DEF Fresh, vars, rxVars, mgVars, ctVars, ctlVars, netVars, fifoVars
  <2>4. Words => Words'
    BY <2>2, <2>3, WordsOthers
  <2> QED
    BY <2>1, <2>3, <2>4 DEF IInv
<1> QED
  BY <1>2, <1>3, <1>4, <1>5, <1>6 DEF Next

(* The invariant, from which the order of the words and their end follow:  *)
(* what the receiver, the two FIFOs, the merge module and the wrapper hold *)
(* at every clock edge, whenever a capture starts, stops or meets a full   *)
(* FIFO.  Types, alignment and the control FSM's order hold at all times,  *)
(* the rest as long as `unnoticed' is FALSE.                               *)
THEOREM ReceiveInvariant == Spec => []IInv
<1>1. Init => IInv
  BY WordsInit
<1>2. IInv /\ [Next]_vars => IInv'
  BY WordsStep
<1> QED
  BY <1>1, <1>2, PTL DEF Spec

(* Once the alignment is done, nothing is on its way and all packets that  *)
(* were counted are written, in whole beats: the control FSM's flags, lag  *)
(* as they may up to two edges, leave nothing behind, unless there was an  *)
(* error or, since the last reset, one of what no flag tells: a word lost  *)
(* without an error, a packet that began as recording was switched on, a   *)
(* stop before it was, or the capture length 0.                            *)
THEOREM AlignedIsComplete == Spec => []AlignedMeansComplete
<1>1. IInv => AlignedMeansComplete
  <2> SUFFICES ASSUME IInv, ct_state \in Stopped, ~rst, ~Failed, ~unnoticed
      PROVE  /\ Len(stored) % WordsPerBeat = 0
             /\ data_fifo.q = <<>> /\ meta_fifo.q = <<>>
             /\ mg_state = "META"
             /\ ~rx_data.wr /\ ~rx_meta.wr /\ ~rx_meta_o.wr
             /\ pkt_cnt = MetaCount(stored)
    BY DEF AlignedMeansComplete, Stopped, MetaCount
  <2>1. Control /\ StillInv /\ CountInv /\ rx_state # "ERR"
    BY DEF IInv, Words, Failed
  <2>2. ct_state \notin {"ACTIVE", "RX_DISABLE", "IDLE"}
    BY DEF Stopped
  <2>3. Rest
    BY <2>1, <2>2 DEF StillInv, Still, Dead
  <2>4. Len(stored) % WordsPerBeat = 0
    <3>1. wr_state # "RST"
      BY <2>1, <2>2 DEF Control, ResetInv
    <3>2. Len(stored) % WordsPerBeat = wr_cntr
      BY <2>1, <3>1 DEF Control, AlignInv
    <3>3. wr_cntr = 0
      BY <2>1 DEF StillInv
    <3> QED
      BY <3>2, <3>3
  <2>5. pkt_cnt = MetaCount(stored)
    <3>1. pkt_cnt = MetaCount(stored) + Len(meta_fifo.q) + One(rx_meta_o.wr) + One(rx_meta.wr)
      BY <2>1, <2>2 DEF CountInv
    <3>2. Len(meta_fifo.q) = 0 /\ One(rx_meta_o.wr) = 0 /\ One(rx_meta.wr) = 0
      BY <2>3 DEF Rest, NoMetas, One
    <3>3. MetaCount(stored) \in Nat
      <4>1. stored \in Seq(ItemTypes) /\ Padding \in ItemTypes
        BY <2>1 DEF Control, TypeOK, Padding, Item, ItemTypes
      <4> QED
        BY <4>1, MetaCountIs
    <3> QED
      BY <3>1, <3>2, <3>3
  <2> QED
    BY <2>3, <2>4, <2>5 DEF Rest, NoMetas
<1> QED
  BY <1>1, ReceiveInvariant, PTL

-----------------------------------------------------------------------------
(***************************************************************************)
(* Records, one after the other.                                           *)
(***************************************************************************)
(* Induction, as a fact about sets of numbers.                             *)
LEMMA Below == IsWellFoundedOn({z \in Nat \X Nat : z[1] < z[2]}, Nat)
BY NatLessThanWellFounded, Zenon DEF OpToRel

LEMMA Induction ==
  ASSUME NEW S \in SUBSET Nat, 0 \in S, \A n \in S : n + 1 \in S
  PROVE  S = Nat
<1> DEFINE T == Nat \ S
           R == {z \in Nat \X Nat : z[1] < z[2]}
<1> SUFFICES ASSUME T # {} PROVE FALSE
  OBVIOUS
<1>1. IsWellFoundedOn(R, Nat)
  BY Below
<1>2. T \subseteq Nat
  OBVIOUS
<1>3. PICK x \in T : \A y \in T : ~ (<<y, x>> \in R)
  <2> HIDE DEF T, R
  <2> QED
    BY <1>1, <1>2, WFMin
<1>4. x - 1 \notin T
  <2>1. x \in Nat /\ x # 0
    BY <1>3
  <2>2. <<x - 1, x>> \in R
    BY <2>1
  <2> QED
    BY <1>3, <2>2
<1>5. x - 1 \in S
  BY <1>4
<1> QED
  BY <1>5, <1>3

(* All words are those of records.                                         *)
InRecords(m, s) == s \in Seq(ItemTypes) /\ s # <<>> /\ InOrder(m, s, Len(s))

LEMMA InRecordsIs ==
  ASSUME NEW m, NEW s, InRecords(m, s)
  PROVE  /\ s \in Seq(ItemTypes) /\ Len(s) \in Nat \ {0}
         /\ \A i \in 1 .. Len(s) : s[i] \in ItemTypes /\ RecordWord(m, s[i])
         /\ s[1] = Meta(s[1].pkt) /\ s[1].kind = "meta"
         /\ \A i \in 1 .. Len(s) - 1 : s[i + 1] = Follower(m, s[i])
<1>1. s \in Seq(ItemTypes) /\ Len(s) \in Nat /\ Len(s) # 0
  BY EmptyIs DEF InRecords
<1>2. /\ \A i \in 1 .. Len(s) : RecordWord(m, s[i])
      /\ s[1].kind = "meta"
      /\ \A i \in 1 .. Len(s) - 1 : s[i + 1] = Follower(m, s[i])
  BY DEF InRecords, InOrder
<1>3. \A i \in 1 .. Len(s) : s[i] \in ItemTypes
  BY <1>1
<1>4. RecordWord(m, s[1])
  BY <1>1, <1>2
<1>5. s[1] = Meta(s[1].pkt)
  BY <1>2, <1>4 DEF RecordWord
<1> QED
  BY <1>1, <1>2, <1>3, <1>5

(* The word after one is of the same packet, or of the next.               *)
LEMMA FollowerIs ==
  ASSUME NEW m, NEW x \in ItemTypes
  PROVE  /\ Follower(m, x).pkt \in {x.pkt, x.pkt + 1} /\ x.pkt \in Nat
         /\ Ends(m, x) => Follower(m, x) = Meta(x.pkt + 1) /\ Follower(m, x).pkt = x.pkt + 1
BY DEF Follower, Meta, Data, Item, ItemTypes

(* Packets come in their order.                                            *)
LEMMA PacketsGoOn ==
  ASSUME NEW m, NEW s, InRecords(m, s), NEW k \in 1 .. Len(s), NEW j \in k .. Len(s)
  PROVE  s[k].pkt \in Nat /\ s[j].pkt \in Nat /\ s[k].pkt <= s[j].pkt
<1> DEFINE S == {d \in Nat : k + d <= Len(s) => s[k].pkt <= s[k + d].pkt}
<1>1. /\ Len(s) \in Nat
      /\ \A i \in 1 .. Len(s) : s[i] \in ItemTypes /\ s[i].pkt \in Nat
      /\ \A i \in 1 .. Len(s) - 1 : s[i + 1] = Follower(m, s[i])
  BY InRecordsIs DEF ItemTypes
<1>2. 0 \in S
  BY <1>1
<1>3. ASSUME NEW d \in S PROVE d + 1 \in S
  <2> SUFFICES ASSUME k + (d + 1) <= Len(s) PROVE s[k].pkt <= s[k + (d + 1)].pkt
    OBVIOUS
  <2>1. d \in Nat /\ k + d \in 1 .. Len(s) - 1 /\ k + d \in 1 .. Len(s)
    BY <1>1
  <2>2. s[k].pkt <= s[k + d].pkt
    BY <1>1, <2>1
  <2>3. s[k + (d + 1)] = Follower(m, s[k + d])
    <3>1. k + (d + 1) = (k + d) + 1
      BY <2>1
    <3> QED
      BY <1>1, <2>1, <3>1
  <2>4. Follower(m, s[k + d]).pkt \in {s[k + d].pkt, s[k + d].pkt + 1}
    BY <1>1, <2>1, FollowerIs
  <2>5. s[k + d].pkt \in Nat /\ s[k].pkt \in Nat
    BY <1>1, <2>1
  <2> QED
    BY <2>2, <2>3, <2>4, <2>5
<1>4. S = Nat
  <2> HIDE DEF S
  <2>1. S \in SUBSET Nat
    BY DEF S
  <2> QED
    BY <2>1, <1>2, <1>3, Induction
<1>5. j - k \in Nat /\ k + (j - k) = j /\ j \in 1 .. Len(s) /\ j <= Len(s)
  BY <1>1
<1>6. j - k \in S
  BY <1>4, <1>5
<1>7. s[k].pkt <= s[k + (j - k)].pkt
  BY <1>5, <1>6
<1> QED
  BY <1>1, <1>5, <1>7

(* The first word says what all the others are.                            *)
LEMMA SameWords ==
  ASSUME NEW m, NEW s, NEW t, InRecords(m, s), InRecords(m, t), s[1].pkt = t[1].pkt,
         NEW i \in 1 .. Len(s), i <= Len(t)
  PROVE  s[i] = t[i]
<1> DEFINE S == {d \in Nat : d + 1 <= Len(s) /\ d + 1 <= Len(t) => s[d + 1] = t[d + 1]}
<1>1. /\ Len(s) \in Nat /\ Len(t) \in Nat /\ s[1] = t[1]
      /\ \A k \in 1 .. Len(s) - 1 : s[k + 1] = Follower(m, s[k])
      /\ \A k \in 1 .. Len(t) - 1 : t[k + 1] = Follower(m, t[k])
  <2>1. /\ Len(s) \in Nat /\ s[1] = Meta(s[1].pkt)
        /\ \A k \in 1 .. Len(s) - 1 : s[k + 1] = Follower(m, s[k])
    BY InRecordsIs
  <2>2. /\ Len(t) \in Nat /\ t[1] = Meta(t[1].pkt)
        /\ \A k \in 1 .. Len(t) - 1 : t[k + 1] = Follower(m, t[k])
    BY InRecordsIs
  <2>3. s[1] = t[1]
    BY <2>1, <2>2
  <2> QED
    BY <2>1, <2>2, <2>3
<1>2. 0 \in S
  BY <1>1
<1>3. ASSUME NEW d \in S PROVE d + 1 \in S
  <2> SUFFICES ASSUME d + 1 + 1 <= Len(s), d + 1 + 1 <= Len(t)
      PROVE  s[d + 1 + 1] = t[d + 1 + 1]
    OBVIOUS
  <2>1. d + 1 \in 1 .. Len(s) - 1 /\ d + 1 \in 1 .. Len(t) - 1
    BY <1>1
  <2>2. s[d + 1] = t[d + 1]
    BY <1>1, <2>1
  <2> QED
    BY <1>1, <2>1, <2>2
<1>4. S = Nat
  <2> HIDE DEF S
  <2>1. S \in SUBSET Nat
    BY DEF S
  <2> QED
    BY <2>1, <1>2, <1>3, Induction
<1>5. i - 1 \in Nat /\ i - 1 + 1 = i /\ i <= Len(s)
  BY <1>1
<1>6. i - 1 \in S
  BY <1>4, <1>5
<1> QED
  BY <1>5, <1>6

LEMMA JoinIs ==
  ASSUME NEW S, NEW a \in Seq(S), NEW b \in Seq(S)
  PROVE  /\ a \o b \in Seq(S) /\ Len(a \o b) = Len(a) + Len(b)
         /\ \A i \in 1 .. Len(a) : (a \o b)[i] = a[i]
         /\ \A i \in Len(a) + 1 .. Len(a) + Len(b) : (a \o b)[i] = b[i - Len(a)]
OBVIOUS

(* One record.                                                             *)
LEMMA RecordOfIs ==
  ASSUME max_len \in Nat, NEW p \in 1 .. Len(PktLens)
  PROVE  /\ InRecords(max_len, RecordOf(p)) /\ RecordOf(p)[1] = Meta(p)
         /\ Ends(max_len, RecordOf(p)[Len(RecordOf(p))])
         /\ RecordOf(p)[Len(RecordOf(p))].pkt = p
<1> DEFINE m == max_len  c == Cut(m, p)  a == <<Meta(p)>>  b == [i \in 1 .. c |-> Data(p, i)]
           r == a \o b
<1>0. Len(PktLens) \in Nat
  BY Sizes
<1>1. c \in Nat /\ p \in Nat
  <2>1. Cut(max_len, p) \in Nat
    BY CutIs
  <2> QED
    BY <1>0, <2>1
<1>2. RecordOf(p) = r
  BY DEF RecordOf, DataWords, Cut, Shorter, Meta, Data
<1>3. Meta(p) \in ItemTypes /\ Meta(p).kind = "meta" /\ Meta(p).pkt = p
  BY <1>1, Packet DEF Meta, Item, ItemTypes
<1>4. \A i \in Nat : /\ Data(p, i) \in ItemTypes /\ Data(p, i).kind = "data"
                     /\ Data(p, i).pkt = p /\ Data(p, i).val = i
  BY <1>1, DataIs
<1>5. a \in Seq(ItemTypes) /\ Len(a) = 1 /\ a[1] = Meta(p)
  BY <1>3
<1>6. b \in Seq(ItemTypes) /\ Len(b) = c /\ \A i \in 1 .. c : b[i] = Data(p, i)
  BY <1>1, <1>4
<1> HIDE DEF a, b, c, r
<1>7. /\ r \in Seq(ItemTypes) /\ Len(r) = 1 + c
      /\ r[1] = a[1]
      /\ \A i \in 2 .. c + 1 : r[i] = b[i - 1]
  <2>1. /\ r \in Seq(ItemTypes) /\ Len(r) = 1 + c
        /\ \A i \in 1 .. 1 : r[i] = a[i]
        /\ \A i \in 1 + 1 .. 1 + c : r[i] = b[i - 1]
    <3>1. /\ r \in Seq(ItemTypes) /\ Len(r) = Len(a) + Len(b)
          /\ \A i \in 1 .. Len(a) : r[i] = a[i]
          /\ \A i \in Len(a) + 1 .. Len(a) + Len(b) : r[i] = b[i - Len(a)]
      BY <1>5, <1>6, JoinIs DEF r
    <3> QED
      BY <1>5, <1>6, <3>1
  <2>2. 1 \in 1 .. 1 /\ 1 + 1 = 2 /\ 1 + c = c + 1
    BY <1>1
  <2> QED
    BY <2>1, <2>2
<1>8. \A i \in 2 .. c + 1 : r[i] = Data(p, i - 1)
  <2> SUFFICES ASSUME NEW i \in 2 .. c + 1 PROVE r[i] = Data(p, i - 1)
    OBVIOUS
  <2>1. i - 1 \in 1 .. c
    BY <1>1
  <2> QED
    BY <1>6, <1>7, <2>1
<1>9. r[1] = Meta(p)
  BY <1>5, <1>7
<1>10. ASSUME NEW i \in 1 .. Len(r) PROVE RecordWord(m, r[i])
  <2>1. CASE i = 1
    BY <1>3, <1>9, <2>1 DEF RecordWord
  <2>2. CASE i # 1
    <3>1. i \in 2 .. c + 1 /\ i - 1 \in 1 .. c /\ i - 1 \in Nat
      BY <1>1, <1>7, <2>2
    <3>2. r[i] = Data(p, i - 1) /\ Data(p, i - 1).kind = "data" /\ Data(p, i - 1).pkt = p
          /\ Data(p, i - 1).val = i - 1
      BY <1>4, <1>8, <3>1
    <3> QED
      BY <3>1, <3>2 DEF RecordWord, c
  <2> QED
    BY <2>1, <2>2
<1>11. ASSUME NEW i \in 1 .. Len(r) - 1 PROVE r[i + 1] = Follower(m, r[i])
  <2>1. i \in Nat \ {0} /\ i <= c /\ i + 1 \in 2 .. c + 1 /\ i + 1 - 1 = i
    BY <1>1, <1>7
  <2>2. r[i + 1] = Data(p, i)
    BY <1>8, <2>1
  <2>3. CASE i = 1
    <3>1. r[i] = Meta(p) /\ c # 0 /\ ~Ends(m, Meta(p))
      BY <1>1, <1>3, <1>9, <2>1, <2>3 DEF Ends, c
    <3> QED
      BY <1>3, <2>2, <2>3, <3>1 DEF Follower
  <2>4. CASE i # 1
    <3>1. i \in 2 .. c + 1 /\ i - 1 \in Nat /\ i - 1 < c /\ i - 1 + 1 = i
      BY <1>1, <2>1, <2>4
    <3>2. /\ r[i] = Data(p, i - 1) /\ r[i].kind = "data" /\ r[i].pkt = p
          /\ r[i].val = i - 1
      BY <1>4, <1>8, <3>1
    <3>3. ~Ends(m, r[i])
      BY <1>1, <3>1, <3>2 DEF Ends, c
    <3>4. Follower(m, r[i]) = Data(p, i - 1 + 1)
      BY <3>2, <3>3 DEF Follower
    <3> QED
      BY <2>2, <3>1, <3>4
  <2> QED
    BY <2>3, <2>4
<1>12. Ends(m, r[Len(r)]) /\ r[Len(r)].pkt = p
  <2>1. CASE c = 0
    BY <1>3, <1>7, <1>9, <2>1 DEF Ends, c
  <2>2. CASE c # 0
    <3>1. Len(r) \in 2 .. c + 1 /\ Len(r) - 1 = c
      BY <1>1, <1>7, <2>2
    <3>2. r[Len(r)] = Data(p, c)
      BY <1>8, <3>1
    <3>3. r[Len(r)].kind = "data" /\ r[Len(r)].pkt = p /\ r[Len(r)].val = c
      BY <1>1, <1>4, <3>2
    <3> QED
      BY <3>3 DEF Ends, c
  <2> QED
    BY <2>1, <2>2
<1>13. InRecords(m, r)
  <2>1. r # <<>> /\ Len(r) \in 0 .. Len(r) /\ \A i \in Len(r) + 1 .. Len(r) : r[i] = Padding
    BY <1>1, <1>7, EmptyIs
  <2>2. r[1].kind = "meta"
    BY <1>3, <1>9
  <2> QED
    BY <1>7, <1>10, <1>11, <2>1, <2>2 DEF InRecords, InOrder
<1> QED
  BY <1>2, <1>9, <1>12, <1>13

(* Records and the records of the packets that follow.                     *)
Followed(m, a, b) ==
  /\ InRecords(m, a) /\ InRecords(m, b)
  /\ Ends(m, a[Len(a)]) /\ b[1] = Meta(a[Len(a)].pkt + 1)

Joins(m, a, b, r) == InRecords(m, r) /\ r[1] = a[1] /\ r[Len(r)] = b[Len(b)]

LEMMA RecordsJoin ==
  ASSUME NEW m, NEW a, NEW b, Followed(m, a, b), NEW r, r = a \o b
  PROVE  Joins(m, a, b, r)
<1> DEFINE n == Len(a)  k == Len(b)
<1>1. /\ a \in Seq(ItemTypes) /\ n \in Nat \ {0}
      /\ \A i \in 1 .. n : a[i] \in ItemTypes /\ RecordWord(m, a[i])
      /\ a[1].kind = "meta"
      /\ \A i \in 1 .. n - 1 : a[i + 1] = Follower(m, a[i])
  BY InRecordsIs DEF Followed
<1>2. /\ b \in Seq(ItemTypes) /\ k \in Nat \ {0}
      /\ \A i \in 1 .. k : b[i] \in ItemTypes /\ RecordWord(m, b[i])
      /\ \A i \in 1 .. k - 1 : b[i + 1] = Follower(m, b[i])
  BY InRecordsIs DEF Followed
<1>3. /\ r \in Seq(ItemTypes) /\ Len(r) = n + k
      /\ \A i \in 1 .. n : r[i] = a[i]
      /\ \A i \in n + 1 .. n + k : r[i] = b[i - n]
  BY <1>1, <1>2, JoinIs
<1> HIDE DEF n, k
<1>t. ASSUME NEW i \in 1 .. k PROVE r[n + i] = b[i]
  <2>1. n \in Nat /\ k \in Nat
    BY <1>1, <1>2
  <2>2. PICK j \in n + 1 .. n + k : j = n + i
    BY <2>1
  <2>3. j - n = i
    BY <2>1, <2>2
  <2> QED
    BY <1>3, <2>2, <2>3
<1>4. /\ r[1] = a[1] /\ r[Len(r)] = b[Len(b)] /\ r # <<>>
      /\ Len(r) \in 0 .. Len(r) /\ \A i \in Len(r) + 1 .. Len(r) : r[i] = Padding
  <2>1. 1 \in 1 .. n /\ n + k \in n + 1 .. n + k /\ n + k - n = k
    BY <1>1, <1>2
  <2>2. r # <<>> /\ Len(r) \in Nat
    BY <1>1, <1>2, <1>3, EmptyIs
  <2>3. r[1] = a[1]
    BY <1>3, <2>1
  <2>4. k \in 1 .. k /\ Len(r) = n + k
    BY <1>2, <1>3
  <2>5. r[Len(r)] = b[k]
    BY <1>t, <2>4
  <2> QED
    BY <2>2, <2>3, <2>5 DEF k
<1>5. ASSUME NEW i \in 1 .. Len(r) PROVE RecordWord(m, r[i])
  <2>1. CASE i \in 1 .. n
    BY <1>1, <1>3, <2>1
  <2>2. CASE i \notin 1 .. n
    <3>1. i \in n + 1 .. n + k /\ i - n \in 1 .. k
      BY <1>1, <1>2, <1>3, <2>2
    <3> QED
      BY <1>2, <1>3, <3>1
  <2> QED
    BY <2>1, <2>2
<1>6. ASSUME NEW i \in 1 .. Len(r) - 1 PROVE r[i + 1] = Follower(m, r[i])
  <2>1. CASE i < n
    <3>1. i \in 1 .. n /\ i + 1 \in 1 .. n /\ i \in 1 .. n - 1
      BY <1>1, <2>1
    <3> QED
      BY <1>1, <1>3, <3>1
  <2>2. CASE i = n
    <3>1. n \in 1 .. n /\ n + 1 \in n + 1 .. n + k /\ n + 1 - n = 1
      BY <1>1, <1>2
    <3>2. r[i] = a[n] /\ r[i + 1] = b[1]
      <4>1. 1 \in 1 .. k
        BY <1>2
      <4>2. r[n] = a[n] /\ r[n + 1] = b[1]
        BY <1>3, <1>t, <3>1, <4>1
      <4> QED
        BY <2>2, <4>2
    <3>3. Follower(m, a[n]) = Meta(a[n].pkt + 1)
      BY <1>1, <3>1, FollowerIs DEF Followed, n
    <3> QED
      BY <3>2, <3>3 DEF Followed, n
  <2>3. CASE i > n
    <3>1. PICK j \in 1 .. k - 1 : i = n + j
      <4>1. i - n \in 1 .. k - 1 /\ i = n + (i - n)
        BY <1>1, <1>2, <1>3, <2>3
      <4> QED
        BY <4>1
    <3>2. j \in 1 .. k /\ j + 1 \in 1 .. k /\ i + 1 = n + (j + 1)
      <4>1. n \in Nat /\ k \in Nat
        BY <1>1, <1>2
      <4> QED
        BY <3>1, <4>1
    <3>3. r[i] = b[j] /\ r[i + 1] = b[j + 1]
      BY <1>t, <3>1, <3>2
    <3> QED
      BY <1>2, <3>3
  <2>4. i < n \/ i = n \/ i > n
    <3>1. n \in Nat /\ k \in Nat /\ i \in 1 .. n + k - 1
      BY <1>1, <1>2, <1>3
    <3> QED
      BY <3>1
  <2> QED
    BY <2>1, <2>2, <2>3, <2>4
<1>7. InRecords(m, r)
  <2>1. r[1].kind = "meta"
    BY <1>1, <1>4
  <2> QED
    BY <1>3, <1>4, <1>5, <1>6, <2>1 DEF InRecords, InOrder
<1> QED
  BY <1>4, <1>7 DEF Joins

(* The sequence that flattening a sequence of sequences goes through.      *)
Joined(seqs, flat) ==
  flat = [i \in 1 .. Len(seqs) |-> IF i = 1 THEN seqs[i] ELSE flat[i - 1] \o seqs[i]]

LEMMA JoinedIs ==
  ASSUME NEW seqs, Len(seqs) \in Nat
  PROVE  \E flat : Joined(seqs, flat)
<1> DEFINE Upto(n, g) == g = [i \in 1 .. n |-> IF i = 1 THEN seqs[i] ELSE g[i - 1] \o seqs[i]]
           S == {n \in Nat : \E g : Upto(n, g)}
<1>1. 0 \in S
  <2> DEFINE g == [i \in 1 .. 0 |-> i]
  <2>1. Upto(0, g)
    OBVIOUS
  <2> QED
    BY <2>1
<1>2. ASSUME NEW n \in S PROVE n + 1 \in S
  <2>1. PICK g : Upto(n, g)
    OBVIOUS
  <2> DEFINE h == [i \in 1 .. n + 1 |->
                     IF i = n + 1 THEN IF i = 1 THEN seqs[i] ELSE g[i - 1] \o seqs[i]
                     ELSE g[i]]
             k == [i \in 1 .. n + 1 |-> IF i = 1 THEN seqs[i] ELSE h[i - 1] \o seqs[i]]
  <2>2. ASSUME NEW i \in 1 .. n + 1 PROVE h[i] = k[i]
    <3>1. CASE i = n + 1
      <4>1. i # 1 => i - 1 \in 1 .. n + 1 /\ i - 1 # n + 1
        BY <3>1
      <4>2. i # 1 => h[i - 1] = g[i - 1]
        BY <4>1
      <4> QED
        BY <3>1, <4>2
    <3>2. CASE i # n + 1
      <4>1. i \in 1 .. n /\ (i # 1 => i - 1 \in 1 .. n + 1 /\ i - 1 # n + 1)
        BY <3>2
      <4>2. h[i] = g[i] /\ (i # 1 => h[i - 1] = g[i - 1])
        BY <3>2, <4>1
      <4>3. g[i] = IF i = 1 THEN seqs[i] ELSE g[i - 1] \o seqs[i]
        BY <2>1, <4>1
      <4> QED
        BY <4>2, <4>3
    <3> QED
      BY <3>1, <3>2
  <2>3. h = k
    BY <2>2
  <2>4. Upto(n + 1, h)
    BY <2>3
  <2> HIDE DEF h, Upto
  <2>5. n + 1 \in Nat /\ \E f : Upto(n + 1, f)
    BY <2>4
  <2> QED
    BY <2>5
<1>3. S = Nat
  <2> HIDE DEF S
  <2>1. S \in SUBSET Nat
    BY DEF S
  <2> QED
    BY <2>1, <1>1, <1>2, Induction
<1>4. \E g : Upto(Len(seqs), g)
  BY <1>3
<1> QED
  BY <1>4 DEF Joined

LEMMA FlattenIs ==
  ASSUME NEW seqs, Len(seqs) \in Nat, Len(seqs) # 0
  PROVE  \E flat : Joined(seqs, flat) /\ FlattenSeq(seqs) = flat[Len(seqs)]
<1> DEFINE flat == CHOOSE g : Joined(seqs, g)
<1>1. Joined(seqs, flat)
  BY JoinedIs
<1>2. FlattenSeq(seqs) = flat[Len(seqs)]
  BY DEF FlattenSeq, Joined
<1> QED
  BY <1>1, <1>2

(* The records of n packets from f on.                                     *)
LEMMA RecordsIs ==
  ASSUME max_len \in Nat, NEW f \in 1 .. Len(PktLens), NEW n \in 1 .. Len(PktLens) - f + 1
  PROVE  /\ InRecords(max_len, Records(f, n)) /\ Records(f, n)[1] = Meta(f)
         /\ Ends(max_len, Records(f, n)[Len(Records(f, n))])
         /\ Records(f, n)[Len(Records(f, n))].pkt = f + n - 1
<1> DEFINE m == max_len  seqs == [i \in 1 .. n |-> RecordOf(f + i - 1)]
<1>1. /\ Len(PktLens) \in Nat /\ f \in Nat \ {0} /\ n \in Nat \ {0}
      /\ \A i \in 1 .. n : f + i - 1 \in 1 .. Len(PktLens)
  BY Sizes
<1>2. Len(seqs) = n /\ \A i \in 1 .. n : seqs[i] = RecordOf(f + i - 1)
  BY <1>1
<1> HIDE DEF seqs
<1>3. PICK flat : Joined(seqs, flat) /\ FlattenSeq(seqs) = flat[n]
  BY <1>1, <1>2, FlattenIs
<1>4. \A i \in 1 .. n : flat[i] = IF i = 1 THEN seqs[i] ELSE flat[i - 1] \o seqs[i]
  BY <1>1, <1>2, <1>3 DEF Joined
<1>5. \A i \in 1 .. n : /\ InRecords(m, seqs[i]) /\ seqs[i][1] = Meta(f + i - 1)
                        /\ Ends(m, seqs[i][Len(seqs[i])])
                        /\ seqs[i][Len(seqs[i])].pkt = f + i - 1
  BY <1>1, <1>2, RecordOfIs
<1> DEFINE Good(i, r) == /\ InRecords(m, r) /\ r[1] = Meta(f)
                         /\ Ends(m, r[Len(r)]) /\ r[Len(r)].pkt = f + i - 1
           S == {d \in Nat : d + 1 <= n => Good(d + 1, flat[d + 1])}
<1>6. 0 \in S
  <2>1. 1 \in 1 .. n /\ f + 1 - 1 = f
    BY <1>1
  <2>2. flat[1] = seqs[1]
    BY <1>4, <2>1
  <2>3. Good(1, flat[1])
    BY <1>5, <2>1, <2>2
  <2> HIDE DEF Good
  <2> QED
    BY <2>3
<1>7. ASSUME NEW d \in S PROVE d + 1 \in S
  <2> SUFFICES ASSUME d + 1 + 1 <= n PROVE Good(d + 1 + 1, flat[d + 1 + 1])
    OBVIOUS
  <2> DEFINE i == d + 1 + 1
  <2>0. d \in Nat
    <3> HIDE DEF Good
    <3> QED
      OBVIOUS
  <2>1. /\ d \in Nat /\ i \in 1 .. n /\ i # 1 /\ i - 1 = d + 1 /\ d + 1 <= n
        /\ f + i - 1 = (f + (d + 1) - 1) + 1
    <3>1. d \in Nat /\ f \in Nat /\ n \in Nat /\ d + 1 + 1 <= n
      BY <1>1, <2>0
    <3> HIDE DEF Good, S
    <3> QED
      BY <3>1
  <2>2. Good(d + 1, flat[d + 1])
    <3> HIDE DEF Good
    <3> QED
      BY <2>1
  <2> HIDE DEF i
  <2>3. flat[i] = flat[d + 1] \o seqs[i]
    BY <1>4, <2>1
  <2>4. InRecords(m, flat[d + 1]) /\ InRecords(m, seqs[i]) /\ Ends(m, flat[d + 1][Len(flat[d + 1])])
    BY <1>5, <2>1, <2>2
  <2>5. seqs[i][1] = Meta(flat[d + 1][Len(flat[d + 1])].pkt + 1)
    <3>1. seqs[i][1] = Meta(f + i - 1)
      BY <1>5, <2>1
    <3>2. flat[d + 1][Len(flat[d + 1])].pkt = f + (d + 1) - 1
      BY <2>2
    <3> QED
      BY <2>1, <3>1, <3>2
  <2>6. /\ InRecords(m, flat[i]) /\ flat[i][1] = flat[d + 1][1]
        /\ flat[i][Len(flat[i])] = seqs[i][Len(seqs[i])]
    <3> DEFINE a == flat[d + 1]  b == seqs[i]
    <3>1. Followed(m, a, b)
      BY <2>4, <2>5 DEF Followed
    <3> HIDE DEF a, b, Good, S
    <3>2. flat[i] = a \o b
      BY <2>3 DEF a, b
    <3>3. ASSUME NEW k, NEW x, NEW y, Followed(k, x, y) PROVE Joins(k, x, y, x \o y)
      BY <3>3, RecordsJoin
    <3>4. Joins(m, a, b, a \o b)
      BY <3>1, <3>3
    <3>5. Joins(m, a, b, flat[i])
      BY <3>2, <3>4
    <3> QED
      BY <3>5 DEF Joins, a, b
  <2>7. flat[d + 1][1] = Meta(f)
    BY <2>2
  <2>8. Ends(m, seqs[i][Len(seqs[i])]) /\ seqs[i][Len(seqs[i])].pkt = f + i - 1
    BY <1>5, <2>1
  <2>9. Good(i, flat[i])
    BY <2>6, <2>7, <2>8
  <2> QED
    BY <2>9 DEF i
<1>8. S = Nat
  <2> HIDE DEF S
  <2>1. S \in SUBSET Nat
    BY DEF S
  <2> QED
    BY <2>1, <1>6, <1>7, Induction
<1>9. Good(n, flat[n])
  <2>1. n - 1 \in Nat /\ n - 1 + 1 = n /\ n <= n
    BY <1>1
  <2> HIDE DEF Good
  <2>2. n - 1 \in S
    BY <1>8, <2>1
  <2> QED
    BY <2>1, <2>2
<1>10. Records(f, n) = flat[n]
  BY <1>3 DEF Records, seqs
<1> QED
  BY <1>9, <1>10

(* What begins with the record of a packet begins all records from it on.  *)
LEMMA RecordsBegin ==
  ASSUME max_len \in Nat, NEW s, InRecords(max_len, s)
  PROVE  IsPrefix(s, Records(s[1].pkt, Len(PktLens) - s[1].pkt + 1))
<1> DEFINE m == max_len  f == s[1].pkt  n == Len(PktLens) - f + 1  r == Records(f, n)
<1>1. /\ s \in Seq(ItemTypes) /\ Len(s) \in Nat \ {0}
      /\ \A i \in 1 .. Len(s) : RecordWord(m, s[i])
      /\ \A i \in 1 .. Len(s) - 1 : s[i + 1] = Follower(m, s[i])
  BY InRecordsIs
<1>2. \A i \in 1 .. Len(s) : s[i].pkt \in 1 .. Len(PktLens)
  BY <1>1 DEF RecordWord
<1>3. f \in 1 .. Len(PktLens) /\ Len(PktLens) \in Nat /\ n \in 1 .. n /\ f + n - 1 = Len(PktLens)
  <2>1. f \in 1 .. Len(PktLens)
    BY <1>1, <1>2
  <2> HIDE DEF f
  <2>2. f \in Nat \ {0} /\ Len(PktLens) \in Nat /\ f <= Len(PktLens)
    BY <2>1, Sizes
  <2> QED
    BY <2>1, <2>2
<1> HIDE DEF f, n
<1>4. /\ InRecords(m, r) /\ r[1] = Meta(f) /\ Ends(m, r[Len(r)])
      /\ r[Len(r)].pkt = Len(PktLens)
  <2>1. n \in 1 .. Len(PktLens) - f + 1
    BY <1>3 DEF n
  <2> QED
    BY <1>3, <2>1, RecordsIs
<1> HIDE DEF r
<1>5. r \in Seq(ItemTypes) /\ Len(r) \in Nat \ {0} /\ r[Len(r)] \in ItemTypes
  BY <1>4, InRecordsIs
<1>6. \A i \in 1 .. Len(s) : i <= Len(r) => s[i] = r[i]
  <2>1. s[1].pkt = r[1].pkt
    BY <1>4 DEF f, Meta, Item
  <2> QED
    BY <1>4, <2>1, SameWords
<1>7. Len(s) <= Len(r)
  <2> SUFFICES ASSUME Len(s) > Len(r) PROVE FALSE
    BY <1>1, <1>5
  <2>1. Len(r) \in 1 .. Len(s) /\ Len(r) \in 1 .. Len(s) - 1 /\ Len(r) + 1 \in 1 .. Len(s)
    BY <1>1, <1>5
  <2>2. s[Len(r)] = r[Len(r)] /\ s[Len(r) + 1] = Follower(m, s[Len(r)])
    BY <1>1, <1>5, <1>6, <2>1
  <2>3. s[Len(r) + 1].pkt = Len(PktLens) + 1
    BY <1>4, <1>5, <2>2, FollowerIs
  <2> QED
    BY <1>2, <1>3, <2>1, <2>3
<1>8. SubSeq(s, 1, Len(s)) = SubSeq(r, 1, Len(s))
  <2>1. /\ SubSeq(s, 1, Len(s)) = [i \in 1 .. Len(s) |-> s[i]]
        /\ SubSeq(r, 1, Len(s)) = [i \in 1 .. Len(s) |-> r[i]]
    BY <1>1, <1>5, <1>7
  <2>2. \A i \in 1 .. Len(s) : s[i] = r[i]
    BY <1>1, <1>5, <1>6, <1>7
  <2> QED
    BY <2>1, <2>2
<1> QED
  BY <1>7, <1>8 DEF IsPrefix, r, n, f

(* And if it ends with the last word of a record, it is whole.             *)
LEMMA RecordsEnd ==
  ASSUME max_len \in Nat, NEW s, InRecords(max_len, s), Ends(max_len, s[Len(s)])
  PROVE  \E f \in 1 .. Len(PktLens) : \E n \in 0 .. Len(PktLens) - f + 1 : s = Records(f, n)
<1> DEFINE m == max_len  f == s[1].pkt  p == s[Len(s)].pkt  n == p - f + 1  r == Records(f, n)
<1>1. /\ s \in Seq(ItemTypes) /\ Len(s) \in Nat \ {0} /\ s[Len(s)] \in ItemTypes
      /\ \A i \in 1 .. Len(s) : RecordWord(m, s[i])
      /\ \A i \in 1 .. Len(s) - 1 : s[i + 1] = Follower(m, s[i])
  BY InRecordsIs
<1>2. \A i \in 1 .. Len(s) : s[i].pkt \in 1 .. Len(PktLens)
  BY <1>1 DEF RecordWord
<1>3. f \in 1 .. Len(PktLens) /\ p \in 1 .. Len(PktLens) /\ Len(PktLens) \in Nat /\ f <= p
  <2>1. f \in 1 .. Len(PktLens) /\ p \in 1 .. Len(PktLens)
    BY <1>1, <1>2
  <2>2. 1 \in 1 .. Len(s) /\ Len(s) \in 1 .. Len(s)
    BY <1>1
  <2>3. f <= p
    BY <2>2, PacketsGoOn
  <2> QED
    BY <2>1, <2>3, Sizes
<1>4. n \in 1 .. Len(PktLens) - f + 1 /\ n \in 0 .. Len(PktLens) - f + 1 /\ f + n - 1 = p
  BY <1>3
<1> HIDE DEF n
<1>5. /\ InRecords(m, r) /\ r[1] = Meta(f) /\ Ends(m, r[Len(r)]) /\ r[Len(r)].pkt = p
  <2> HIDE DEF f, p
  <2> QED
    BY <1>3, <1>4, RecordsIs
<1> HIDE DEF r
<1>6. /\ r \in Seq(ItemTypes) /\ Len(r) \in Nat \ {0} /\ r[Len(r)] \in ItemTypes
      /\ \A i \in 1 .. Len(r) - 1 : r[i + 1] = Follower(m, r[i])
  BY <1>5, InRecordsIs
<1>7. \A i \in 1 .. Len(s) : i <= Len(r) => s[i] = r[i]
  <2>1. s[1].pkt = r[1].pkt
    BY <1>5 DEF Meta, Item
  <2>2. InRecords(m, s) /\ InRecords(m, r)
    BY <1>5
  <2> HIDE DEF f, p
  <2> QED
    BY <2>1, <2>2, SameWords
<1>8. ~(Len(s) < Len(r))
  <2> SUFFICES ASSUME Len(s) < Len(r) PROVE FALSE
    OBVIOUS
  <2>1. /\ Len(s) \in 1 .. Len(s) /\ Len(s) <= Len(r) /\ Len(s) \in 1 .. Len(r) - 1
        /\ Len(s) + 1 \in 1 .. Len(r) /\ Len(r) \in Len(s) + 1 .. Len(r)
    BY <1>1, <1>6
  <2>2. r[Len(s) + 1] = Follower(m, s[Len(s)])
    BY <1>6, <1>7, <2>1
  <2>3. r[Len(s) + 1].pkt = p + 1
    BY <1>1, <2>2, FollowerIs
  <2>4. r[Len(s) + 1].pkt <= r[Len(r)].pkt
    BY <1>5, <2>1, PacketsGoOn
  <2> QED
    BY <1>3, <1>5, <2>3, <2>4
<1>9. ~(Len(s) > Len(r))
  <2> SUFFICES ASSUME Len(s) > Len(r) PROVE FALSE
    OBVIOUS
  <2>1. /\ Len(r) \in 1 .. Len(s) - 1 /\ Len(r) \in 1 .. Len(s)
        /\ Len(r) + 1 \in 1 .. Len(s) /\ Len(s) \in Len(r) + 1 .. Len(s)
    BY <1>1, <1>6
  <2>2. s[Len(r) + 1] = Follower(m, r[Len(r)])
    BY <1>1, <1>6, <1>7, <2>1
  <2>3. s[Len(r) + 1].pkt = p + 1
    BY <1>5, <1>6, <2>2, FollowerIs
  <2>4. s[Len(r) + 1].pkt <= s[Len(s)].pkt
    BY <2>1, PacketsGoOn
  <2> QED
    BY <1>3, <2>3, <2>4
<1>10. s = r
  <2>1. Len(s) = Len(r)
    BY <1>1, <1>6, <1>8, <1>9
  <2>2. \A i \in 1 .. Len(s) : s[i] = r[i]
    BY <1>1, <1>7, <2>1
  <2> QED
    BY <1>1, <1>6, <2>1, <2>2
<1> QED
  BY <1>3, <1>4, <1>10 DEF r

-----------------------------------------------------------------------------
(***************************************************************************)
(* What is written is a sequence of records.                               *)
(***************************************************************************)
(* Content is what precedes the padding.                                   *)
LEMMA ContentIs ==
  ASSUME stored \in Seq(ItemTypes), NEW m, NEW n, InOrder(m, stored, n)
  PROVE  Content = SubSeq(stored, 1, n)
<1> DEFINE A == {0} \cup {i \in 1 .. Len(stored) : stored[i] # Padding}
<1>1. Len(stored) \in Nat /\ n \in 0 .. Len(stored)
  BY EmptyIs DEF InOrder
<1>2. \A i \in 1 .. n : stored[i] # Padding
  BY RecordWordIs DEF InOrder
<1>3. \A i \in n + 1 .. Len(stored) : stored[i] = Padding
  BY DEF InOrder
<1>4. n \in A
  <2>1. n = 0 \/ (n \in 1 .. n /\ n \in 1 .. Len(stored))
    BY <1>1
  <2> QED
    BY <1>2, <2>1
<1>5. \A i \in A : i \in Nat /\ i <= n
  <2> SUFFICES ASSUME NEW i \in A, i # 0 PROVE i \in Nat /\ i <= n
    BY <1>1
  <2>1. i \in 1 .. Len(stored) /\ stored[i] # Padding
    OBVIOUS
  <2>2. i \notin n + 1 .. Len(stored)
    BY <1>3, <2>1
  <2> QED
    BY <1>1, <2>1, <2>2
<1> HIDE DEF A
<1>6. Max(A) = n
  <2>1. n \in A /\ \A i \in A : n >= i
    BY <1>1, <1>4, <1>5
  <2>2. Max(A) \in A /\ \A i \in A : Max(A) >= i
    BY <2>1 DEF Max
  <2>3. Max(A) \in Nat /\ Max(A) <= n /\ Max(A) >= n
    BY <1>5, <2>1, <2>2
  <2> QED
    BY <1>1, <2>3
<1> QED
  BY <1>6 DEF Content, A

LEMMA ContentInRecords ==
  ASSUME stored \in Seq(ItemTypes), NEW m, NEW n, InOrder(m, stored, n), n # 0
  PROVE  InRecords(m, Content) /\ Len(Content) = n /\ Content[n] = stored[n]
<1> DEFINE s == SubSeq(stored, 1, n)
<1>1. Len(stored) \in Nat /\ n \in 1 .. Len(stored) /\ stored # <<>>
  BY EmptyIs DEF InOrder
<1>2. s \in Seq(ItemTypes) /\ Len(s) = n /\ \A i \in 1 .. n : s[i] = stored[i]
  BY <1>1
<1>3. Content = s
  BY ContentIs
<1> HIDE DEF s
<1>4. /\ \A i \in 1 .. n : RecordWord(m, stored[i])
      /\ stored[1].kind = "meta"
      /\ \A i \in 1 .. n - 1 : stored[i + 1] = Follower(m, stored[i])
  BY <1>1 DEF InOrder
<1>5. s # <<>> /\ n \in 0 .. Len(s) /\ \A i \in n + 1 .. Len(s) : s[i] = Padding
  BY <1>1, <1>2, EmptyIs
<1>6. s[1].kind = "meta" /\ \A i \in 1 .. n : RecordWord(m, s[i])
  BY <1>1, <1>2, <1>4
<1>7. ASSUME NEW i \in 1 .. n - 1 PROVE s[i + 1] = Follower(m, s[i])
  <2>1. i \in 1 .. n /\ i + 1 \in 1 .. n
    BY <1>1
  <2> QED
    BY <1>2, <1>4, <2>1
<1>8. InRecords(m, s)
  BY <1>2, <1>5, <1>6, <1>7 DEF InRecords, InOrder
<1>9. s[n] = stored[n]
  BY <1>1, <1>2
<1> QED
  BY <1>2, <1>3, <1>8, <1>9

(* Of any number of packets, cut at any length but 0, for a delay of up to *)
(* two edges in the FIFOs and whenever a capture is started, stopped, or   *)
(* meets a full FIFO, whole records are written, with no padding between   *)
(* them, unless since the last reset a word was lost without an error, a   *)
(* packet began as recording was switched on, or a capture was stopped     *)
(* before it was (`unnoticed').                                            *)
THEOREM WrittenRecordsAreWhole == Spec => []RecordsAreWhole
<1>1. IInv => RecordsAreWhole
  <2> SUFFICES ASSUME IInv, ~unnoticed PROVE RecordsAreWhole
    BY DEF RecordsAreWhole
  <2>1. Control /\ stored \in Seq(ItemTypes) /\ max_len \in Nat /\ rst \in BOOLEAN
        /\ ((rst /\ stored = <<>>) \/ Words)
    BY Sizes DEF IInv, Control, TypeOK
  <2>2. PICK n \in 0 .. Len(stored) :
          /\ InOrder(max_len, stored, n)
          /\ Words /\ mg_state = "META" /\ n > 0 => Ends(max_len, stored[n])
    <3>1. CASE Words
      BY <3>1 DEF Words, StoredInv
    <3>2. CASE ~Words
      BY <2>1, <3>2, NothingWritten
    <3> QED
      BY <3>1, <3>2
  <2>3. Len(stored) \in Nat /\ n \in Nat
    BY <2>1, EmptyIs
  <2>4. /\ n = 0 => Content = <<>>
        /\ Len(Content) = n
        /\ n # 0 => InRecords(max_len, Content) /\ Content[n] = stored[n]
    <3>1. CASE n = 0
      <4>1. Content = SubSeq(stored, 1, 0)
        BY <2>1, <2>2, <3>1, ContentIs
      <4> QED
        BY <2>1, <3>1, <4>1
    <3>2. CASE n # 0
      BY <2>1, <2>2, <3>2, ContentInRecords
    <3> QED
      BY <3>1, <3>2
  <2>5. Content = <<>> \/ LET f == Content[1].pkt
                          IN  IsPrefix(Content, Records(f, Len(PktLens) - f + 1))
    BY <2>1, <2>4, RecordsBegin
  <2>6. ASSUME Len(Content) < Len(stored), ~Failed
        PROVE  \E f \in 1 .. Len(PktLens) : \E k \in 0 .. Len(PktLens) - f + 1 :
                 Content = Records(f, k)
    <3>1. /\ stored # <<>> /\ Words
          /\ n + 1 \in 1 .. Len(stored) /\ n + 1 \in n + 1 .. Len(stored)
      BY <2>1, <2>3, <2>4, <2>6, EmptyIs
    <3>2. n # 0 /\ stored[n + 1] = Padding
      <4>1. stored[n + 1] = Padding
        BY <2>2, <3>1 DEF InOrder
      <4>2. stored[1].kind = "meta"
        BY <2>2, <3>1 DEF InOrder
      <4>3. Padding.kind = "padding"
        BY DEF Padding, Item
      <4> QED
        BY <4>1, <4>2, <4>3
    <3>3. ~Unpadded
      BY <3>1, <3>2 DEF Words, StillInv
    <3>4. mg_state = "META"
      <4>1. Still
        BY <3>3 DEF Still, Unpadded
      <4>2. Rest \/ Dead
        BY <3>1, <4>1 DEF Words, StillInv
      <4> QED
        BY <2>6, <4>2 DEF Rest, Dead, Failed
    <3>5. Ends(max_len, Content[Len(Content)])
      BY <2>2, <2>3, <2>4, <3>1, <3>2, <3>4
    <3> QED
      BY <2>1, <2>4, <3>2, <3>5, RecordsEnd
  <2> QED
    BY <2>5, <2>6 DEF RecordsAreWhole
<1> QED
  BY <1>1, ReceiveInvariant, PTL
=============================================================================
