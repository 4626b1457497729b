---------------------------- MODULE MeasureProofs ----------------------------
(***************************************************************************)
(* What holds of the measuring path for all traces, settings, periods,     *)
(* ranges and depths of its queues: the shared time goes on, the words     *)
(* stay in order and those that match all arrive, and what is reported     *)
(* with them is right.                                                     *)
(*                                                                         *)
(* The argument for the words: every register and queue of the path has a  *)
(* place in the trace, that of its first word or, when it is empty, of     *)
(* what comes next (At, First).  At each of them the word before follows   *)
(* on the word behind it (OrderInv).  The state of a core belongs to the   *)
(* place at its input (InsertInv, LatencyInv, GapInv, FilterInv), and a    *)
(* word that has been measured carries what is right (RightInv).           *)
(***************************************************************************)
EXTENDS Measure, TLAPS

(* How long the time has stood still is bounded by what has been counted   *)
(* of the period.  A period that is shorter than that was just set, and    *)
(* the next edge begins it anew without a tick: hence the + 1.             *)
TimeInv ==
  /\ tick_cntr \in 0 .. TickRange - 1
  /\ still \in Nat
  /\ cycles_per_tick \in 0 .. TickRange - 1
  /\ cycles_per_tick > tick_cntr => still <= tick_cntr + 1
  /\ 0 < cycles_per_tick /\ cycles_per_tick <= tick_cntr => still = 0

-----------------------------------------------------------------------------
(* An edge of nt_timestamp.v, whatever the other cores do at it.           *)
LEMMA EdgeKeepsTime ==
  ASSUME TimeInv, UNCHANGED cycles_per_tick,
         TickCounterClock(cycles_per_tick),
         still' = IF Tick(cycles_per_tick) THEN 0
                  ELSE IF still < TickRange THEN still + 1 ELSE still
  PROVE  TimeInv'
<1>1. TickRange \in Nat \ {0}
  BY TickCounterAssumption
<1>2. tick_cntr' = IF PeriodOver(cycles_per_tick) THEN 0 ELSE After(tick_cntr, TickRange)
  BY DEF TickCounterClock
<1>3. CASE cycles_per_tick = 0
  BY <1>1, <1>2, <1>3 DEF TimeInv, Tick, PeriodOver, After
<1>4. CASE cycles_per_tick > 0 /\ tick_cntr >= cycles_per_tick - 1
  BY <1>1, <1>2, <1>4 DEF TimeInv, Tick, PeriodOver
<1>5. CASE cycles_per_tick > 0 /\ tick_cntr < cycles_per_tick - 1
  BY <1>1, <1>2, <1>5 DEF TimeInv, Tick, PeriodOver, After
<1>6. QED
  BY <1>3, <1>4, <1>5 DEF TimeInv

LEMMA InitTime == Init => TimeInv
<1>1. TickRange \in Nat \ {0} /\ Periods \subseteq 0 .. TickRange - 1
  BY TickCounterAssumption, MeasureAssumption
<1>2. QED
  BY <1>1 DEF Init, TickCounterInit, TimeInv

LEMMA StepKeepsTime == TimeInv /\ [Next]_vars => TimeInv'
<1> SUFFICES ASSUME TimeInv, [Next]_vars
             PROVE  TimeInv'
  OBVIOUS
<1> DEFINE Quietly == UNCHANGED <<tick_cntr, still, cycles_per_tick>>
<1>1. ASSUME Quietly PROVE TimeInv'
  BY <1>1 DEF TimeInv
<1>2. ASSUME NEW sends \in BOOLEAN, NEW arrives \in BOOLEAN, ClockEdge156(sends, arrives)
      PROVE  TimeInv'
  <2>1. /\ TickCounterClock(cycles_per_tick)
        /\ still' = IF Tick(cycles_per_tick) THEN 0
                    ELSE IF still < TickRange THEN still + 1 ELSE still
        /\ UNCHANGED cycles_per_tick
    BY <1>2 DEF ClockEdge156, Clock156, Observe
  <2>2. QED
    BY <2>1, EdgeKeepsTime
<1>3. ASSUME NEW sink_ready \in BOOLEAN, ClockEdge(sink_ready)
      PROVE  TimeInv'
  BY <1>1, <1>3 DEF ClockEdge, tcVars
<1>4. CASE SwTrace
  BY <1>1, <1>4 DEF SwTrace, cores, tcVars
<1>5. CASE SwSetting
  BY <1>1, <1>5 DEF SwSetting, cores, tcVars
<1>6. CASE SwPeriod
  <2>1. /\ tick_cntr' = tick_cntr /\ still' = 0
        /\ cycles_per_tick' \in 0 .. TickRange - 1
    BY <1>6, MeasureAssumption DEF SwPeriod, cores, tcVars
  <2>2. QED
    BY <2>1, TickCounterAssumption DEF TimeInv
<1>7. CASE SwReset
  <2>1. /\ TickCounterClock(cycles_per_tick)
        /\ still' = IF Tick(cycles_per_tick) THEN 0
                    ELSE IF still < TickRange THEN still + 1 ELSE still
        /\ UNCHANGED cycles_per_tick
    BY <1>7 DEF SwReset, Clock156, Observe
  <2>2. QED
    BY <2>1, EdgeKeepsTime
<1>8. CASE UNCHANGED vars
  BY <1>1, <1>8 DEF vars, cores, tcVars
<1>9. QED
  BY <1>2, <1>3, <1>4, <1>5, <1>6, <1>7, <1>8 DEF Next

LEMMA TimeInvGoesOn == TimeInv => TimeGoesOn
  BY TickCounterAssumption DEF TimeInv, TimeGoesOn

(* nt_timestamp.v: the time stands still for at most one period, for every *)
(* width of the counter and every sequence of periods software may set.    *)
THEOREM TheTimeGoesOn == Spec => []TimeGoesOn
<1>1. Spec => []TimeInv
  BY InitTime, StepKeepsTime, PTL DEF Spec
<1>2. QED
  BY <1>1, TimeInvGoesOn, PTL

-----------------------------------------------------------------------------
(* nt_recv_latency.v: the difference is the time that has gone by since    *)
(* the stamp, also when the counter began anew since then, for every range *)
(* and every time shorter than it.                                         *)
THEOREM DifferenceIsElapsed ==
  ASSUME NEW range \in Nat \ {0},
         NEW stamp \in 0 .. range - 1, NEW time \in 0 .. range - 1,
         NEW elapsed \in 0 .. range - 1,
         time = stamp + elapsed \/ time = stamp + elapsed - range
  PROVE  Difference(time, stamp, range) = elapsed
  BY DEF Difference

-----------------------------------------------------------------------------
(***************************************************************************)
(* The order of the words on the path.                                     *)
(***************************************************************************)
Place(w)       == [pkt |-> w.pkt, pos |-> w.pos]
InTrace(p, t)  == p.pkt \in 1 .. Len(t) /\ p.pos \in 0 .. t[p.pkt].words - 1
End(t)         == [pkt |-> Len(t) + 1, pos |-> 0]
PlaceOf(p, t)  == p \in [pkt : Nat, pos : Nat] /\ (InTrace(p, t) \/ p = End(t))

(* A word is one of the trace, and the next one after it is at that place. *)
OfTrace(w, t) ==
  /\ w.valid
  /\ InTrace(Place(w), t)
  /\ w.last = (w.pos + 1 = t[w.pkt].words)
  /\ w.keep = IF w.last THEN t[w.pkt].lastkeep ELSE WordBytes
  /\ w.pos = 1 => w.type = t[w.pkt].type
  /\ w.match = (w.pos = 0 /\ t[w.pkt].match)

Before(w, place, t) == OfTrace(w, t) /\ Following(Place(w), t) = place
Queue(q, place, t) ==
  \A i \in 1 .. Len(q) : Before(q[i], IF i < Len(q) THEN Place(q[i + 1]) ELSE place, t)

(* The place of the first word of a register or queue or, when it is       *)
(* empty, of the first word before it on the path.                         *)
At(w, place)    == IF w.valid THEN Place(w) ELSE place
First(q, place) == IF q # <<>> THEN Place(q[1]) ELSE place

AtLink    == At(ins_out, src)
AtLatency == First(link, AtLink)
AtGap     == At(lat_out, AtLatency)
AtFifo    == At(ip_out, AtGap)
AtFilter  == First(fifo, AtFifo)

TraceType(t) == t \in Seq(Packets) /\ \A p \in 1 .. Len(t) : t[p].words \in 2 .. WordRange

TypeOK ==
  /\ timestamp \in 0 .. TimeRange - 1
  /\ cfg \in Settings
  /\ TraceType(trace)
  /\ PlaceOf(src, trace)
  /\ link \in Seq(Words) /\ fifo \in Seq(Words)
  /\ ins_out \in Words /\ lat_out \in Words /\ ip_out \in Words /\ flt_out \in Words
  /\ flt_state \in {"DO_MATCH", "MATCH", "NO_MATCH"}
  /\ took \in [valid : BOOLEAN, value : Nat]
  /\ since \in Nat /\ apart \in Nat

OrderInv ==
  /\ ins_out.valid => Before(ins_out, src, trace)
  /\ Queue(link, AtLink, trace)
  /\ lat_out.valid => Before(lat_out, AtLatency, trace)
  /\ ip_out.valid => Before(ip_out, AtGap, trace)
  /\ Queue(fifo, AtFifo, trace)

(* The state of the filter belongs to the packet at its input, and what    *)
(* the receiver is due to see is what it is shown or, of what is to come,  *)
(* the first word that matches.                                            *)
FilterInv ==
  /\ flt_state = "DO_MATCH" => AtFilter.pos = 0
  /\ flt_state # "DO_MATCH" =>
       InTrace(AtFilter, trace) /\ (flt_state = "MATCH" <=> trace[AtFilter.pkt].match)
  /\ flt_out.valid =>
       due = Place(flt_out) /\ InTrace(due, trace) /\ Following(due, trace) = AtFilter
  /\ ~flt_out.valid => due = Passing(AtFilter, trace)

(* The word counters and ether types of the stamping and the latency core  *)
(* are those of the word that comes next.                                  *)
Knows(type, place, t, c) ==
  c.mode = "header" /\ place.pos > 1 => type = t[place.pkt].type

Stamped(w, t, c) ==
  /\ w.tuser = NoTuser
  /\ Holds(t[w.pkt], w.pos, c) =>
       w.truth.time \in Nat /\ w.stamp = w.truth.time % StampRange(c)

InsertInv ==
  /\ ins_word_cntr = src.pos
  /\ Knows(ins_ethertype, src, trace, cfg)
  /\ ins_out.valid => Stamped(ins_out, trace, cfg)
  /\ \A i \in 1 .. Len(link) : Stamped(link[i], trace, cfg)

(* Before the word with the stamp nothing is known.  At that word, while   *)
(* it has not come, the latency core may hold what it has read from the    *)
(* idle lines.                                                             *)
Early(place, c) ==
  \/ place.pos = 0
  \/ c.mode = "disabled"
  \/ c.mode = "header" /\ place.pos = 1
  \/ c.mode = "fixed" /\ place.pos <= c.word
Selects(place, t, c) ==
  \/ c.mode = "header" /\ place.pos = 2 /\ t[place.pkt].type = "v6"
  \/ c.mode = "header" /\ place.pos = 3 /\ t[place.pkt].type = "v4"
  \/ c.mode = "fixed" /\ place.pos = c.word

LatencyInv ==
  /\ lat_word_cntr = AtLatency.pos
  /\ Knows(lat_ethertype, AtLatency, trace, cfg)
  /\ Early(AtLatency, cfg) => took = NoLatency
  /\ lat_latency = took \/ Selects(AtLatency, trace, cfg)

GapInv ==
  /\ ip_active = (AtGap.pos # 0)
  /\ ip_cntr = since /\ ip_cycles = apart

(* What is reported with a word is what should be.                         *)
Right(w) == w.valid => w.tuser = w.truth.tuser /\ (~w.last => w.tuser = NoTuser)

RightInv ==
  /\ Right(lat_out) /\ Right(ip_out) /\ Right(flt_out)
  /\ \A i \in 1 .. Len(fifo) : Right(fifo[i])

PathInv ==
  TypeOK /\ OrderInv /\ FilterInv /\ InsertInv /\ LatencyInv /\ GapInv /\ RightInv

-----------------------------------------------------------------------------
(* Places and the order of words.                                          *)
LEMMA PacketAt ==
  ASSUME NEW t, TraceType(t), NEW p \in 1 .. Len(t)
  PROVE  /\ t[p] \in Packets /\ t[p].words \in Nat /\ t[p].words > 1
         /\ t[p].words <= WordRange /\ WordRange \in Nat
         /\ t[p].lastkeep \in 1 .. 8 /\ t[p].type \in PacketTypes /\ t[p].match \in BOOLEAN
<1>1. t[p] \in Packets /\ t[p].words \in 2 .. WordRange /\ WordRange \in Nat
  BY StampAssumption DEF TraceType
<1> QED
  BY <1>1 DEF Packets, WordBytes

LEMMA TraceLength == ASSUME NEW t, TraceType(t) PROVE Len(t) \in Nat
BY DEF TraceType

LEMMA PlaceFields ==
  ASSUME NEW w PROVE Place(w).pkt = w.pkt /\ Place(w).pos = w.pos
BY DEF Place

LEMMA FollowingPlace ==
  ASSUME NEW t, TraceType(t), NEW p \in [pkt : Nat, pos : Nat], InTrace(p, t)
  PROVE  /\ PlaceOf(Following(p, t), t)
         /\ Following(p, t) =
              IF p.pos + 1 = t[p.pkt].words THEN [pkt |-> p.pkt + 1, pos |-> 0]
                                            ELSE [pkt |-> p.pkt, pos |-> p.pos + 1]
<1>1. /\ Len(t) \in Nat /\ p.pkt \in 1 .. Len(t)
      /\ t[p.pkt].words \in Nat /\ p.pos \in Nat /\ p.pos < t[p.pkt].words
  BY TraceLength, PacketAt DEF InTrace
<1>2. CASE p.pos + 1 = t[p.pkt].words
  <2>1. Following(p, t) = [pkt |-> p.pkt + 1, pos |-> 0]
    BY <1>1, <1>2 DEF Following
  <2>2. CASE p.pkt = Len(t)
    <3>1. t \in Seq(Packets)
      BY DEF TraceType
    <3>2. Following(p, t) = End(t)
      BY <2>1, <2>2, <3>1 DEF End
    <3>3. Following(p, t) \in [pkt : Nat, pos : Nat]
      BY <1>1, <2>1
    <3>4. PlaceOf(Following(p, t), t)
      BY <3>2, <3>3 DEF PlaceOf
    <3> QED
      BY <1>2, <2>1, <3>4
  <2>3. CASE p.pkt < Len(t)
    <3>1. t[p.pkt + 1].words \in Nat /\ t[p.pkt + 1].words > 1 /\ p.pkt + 1 \in 1 .. Len(t)
      BY <1>1, <2>3, PacketAt
    <3> QED
      BY <1>1, <1>2, <2>1, <3>1 DEF PlaceOf, InTrace
  <2>4. t \in Seq(Packets)
    BY DEF TraceType
  <2> QED
    BY <1>1, <2>2, <2>3, <2>4
<1>3. CASE p.pos + 1 # t[p.pkt].words
  <2>1. Following(p, t) = [pkt |-> p.pkt, pos |-> p.pos + 1]
    BY <1>1, <1>3 DEF Following
  <2> QED
    BY <1>1, <1>3, <2>1 DEF PlaceOf, InTrace
<1> QED
  BY <1>2, <1>3

LEMMA WordPlace ==
  ASSUME NEW t, TraceType(t), NEW w \in Words, OfTrace(w, t)
  PROVE  /\ Place(w) \in [pkt : Nat, pos : Nat] /\ InTrace(Place(w), t)
         /\ PlaceOf(Place(w), t)
         /\ w.pkt \in 1 .. Len(t) /\ w.pos \in Nat /\ w.pos < t[w.pkt].words
<1>1. w.pkt \in Nat /\ w.pos \in Nat /\ InTrace(Place(w), t)
  BY DEF OfTrace, Words
<1>2. w.pkt \in 1 .. Len(t) /\ w.pos \in 0 .. t[w.pkt].words - 1
  BY <1>1 DEF Place, InTrace
<1>3. t[w.pkt].words \in Nat
  BY <1>2, PacketAt
<1> QED
  BY <1>1, <1>2, <1>3 DEF Place, PlaceOf

(* Words that differ only in what they carry.                              *)
Alike(v, w) ==
  /\ v.valid = w.valid /\ v.last = w.last /\ v.pkt = w.pkt /\ v.pos = w.pos
  /\ v.keep = w.keep /\ v.type = w.type /\ v.match = w.match

LEMMA AlikeInOrder ==
  ASSUME NEW t, NEW v, NEW w, Alike(v, w)
  PROVE  /\ Place(v) = Place(w)
         /\ OfTrace(v, t) <=> OfTrace(w, t)
         /\ \A place : Before(v, place, t) <=> Before(w, place, t)
<1>1. Place(v) = Place(w)
  BY DEF Alike, Place
<1>2. OfTrace(v, t) <=> OfTrace(w, t)
  BY <1>1 DEF Alike, OfTrace
<1> QED
  BY <1>1, <1>2 DEF Before

LEMMA EmptyLength ==
  ASSUME NEW q \in Seq(Words)
  PROVE  Len(q) \in Nat /\ (q = <<>> <=> Len(q) = 0)
OBVIOUS

(* A word leaves a queue.                                                  *)
LEMMA QueueTail ==
  ASSUME NEW t, NEW place, NEW q \in Seq(Words), q # <<>>, Queue(q, place, t)
  PROVE  /\ Tail(q) \in Seq(Words) /\ Head(q) \in Words /\ OfTrace(Head(q), t)
         /\ First(q, place) = Place(Head(q))
         /\ Queue(Tail(q), place, t)
         /\ First(Tail(q), place) = Following(Place(Head(q)), t)
<1>1. /\ Len(q) \in Nat /\ Len(q) > 0 /\ Head(q) = q[1] /\ Head(q) \in Words
      /\ Tail(q) \in Seq(Words) /\ Len(Tail(q)) = Len(q) - 1
      /\ \A i \in 1 .. Len(q) - 1 : Tail(q)[i] = q[i + 1]
  OBVIOUS
<1>2. Before(q[1], IF 1 < Len(q) THEN Place(q[2]) ELSE place, t)
  BY <1>1 DEF Queue
<1>3. First(Tail(q), place) = IF 1 < Len(q) THEN Place(q[2]) ELSE place
  <2> DEFINE r == Tail(q)
  <2>1. /\ r \in Seq(Words) /\ Len(r) = Len(q) - 1
        /\ 1 < Len(q) => r[1] = q[2]
    <3>1. 1 < Len(q) => r[1] = q[1 + 1]
      BY <1>1
    <3> QED
      BY <1>1, <3>1
  <2> HIDE DEF r
  <2>2. First(r, place) = IF 1 < Len(q) THEN Place(q[2]) ELSE place
    <3>1. r = <<>> <=> ~(1 < Len(q))
      BY <1>1, <2>1, EmptyLength
    <3> QED
      BY <2>1, <3>1 DEF First
  <2> QED
    BY <2>2 DEF r
<1>4. Queue(Tail(q), place, t)
  <2> SUFFICES ASSUME NEW i \in 1 .. Len(q) - 1
               PROVE  Before(Tail(q)[i], IF i < Len(q) - 1 THEN Place(Tail(q)[i + 1])
                                                           ELSE place, t)
    BY <1>1 DEF Queue
  <2>1. i + 1 \in 1 .. Len(q) /\ Tail(q)[i] = q[i + 1]
    BY <1>1
  <2>2. Before(q[i + 1], IF i + 1 < Len(q) THEN Place(q[i + 1 + 1]) ELSE place, t)
    BY <2>1 DEF Queue
  <2>3. CASE i < Len(q) - 1
    <3>1. i + 1 < Len(q) /\ Tail(q)[i + 1] = q[i + 1 + 1]
      BY <1>1, <2>3
    <3> QED
      BY <2>1, <2>2, <2>3, <3>1
  <2>4. CASE ~(i < Len(q) - 1)
    <3>1. ~(i + 1 < Len(q))
      BY <1>1, <2>4
    <3> QED
      BY <2>1, <2>2, <2>4, <3>1
  <2> QED
    BY <2>3, <2>4
<1> QED
  BY <1>1, <1>2, <1>3, <1>4 DEF Before, First

(* A word joins a queue.                                                   *)
LEMMA QueueAppend ==
  ASSUME NEW t, NEW place, NEW q \in Seq(Words), NEW w \in Words,
         Queue(q, Place(w), t), Before(w, place, t)
  PROVE  /\ q \o <<w>> \in Seq(Words)
         /\ Queue(q \o <<w>>, place, t)
         /\ First(q \o <<w>>, place) = First(q, Place(w))
<1> DEFINE r == q \o <<w>>
<1>1. /\ r \in Seq(Words) /\ Len(r) = Len(q) + 1 /\ Len(q) \in Nat
      /\ \A i \in 1 .. Len(q) : r[i] = q[i]
      /\ r[Len(q) + 1] = w
  OBVIOUS
<1> HIDE DEF r
<1>2. Queue(r, place, t)
  <2> SUFFICES ASSUME NEW i \in 1 .. Len(q) + 1
               PROVE  Before(r[i], IF i < Len(q) + 1 THEN Place(r[i + 1]) ELSE place, t)
    BY <1>1 DEF Queue
  <2>1. CASE i = Len(q) + 1
    BY <1>1, <2>1
  <2>2. CASE i = Len(q)
    <3>1. i \in 1 .. Len(q) /\ r[i] = q[i] /\ r[i + 1] = w /\ i < Len(q) + 1
      BY <1>1, <2>2
    <3>2. Before(q[i], IF i < Len(q) THEN Place(q[i + 1]) ELSE Place(w), t)
      BY <3>1 DEF Queue
    <3>3. ~(i < Len(q))
      BY <1>1, <2>2
    <3> QED
      BY <3>1, <3>2, <3>3
  <2>3. CASE i < Len(q)
    <3>1. /\ i \in 1 .. Len(q) /\ i + 1 \in 1 .. Len(q) /\ r[i] = q[i]
          /\ r[i + 1] = q[i + 1] /\ i < Len(q) + 1
      BY <1>1, <2>3
    <3>2. Before(q[i], IF i < Len(q) THEN Place(q[i + 1]) ELSE Place(w), t)
      BY <3>1 DEF Queue
    <3> QED
      BY <2>3, <3>1, <3>2
  <2> QED
    BY <1>1, <2>1, <2>2, <2>3
<1>3. First(r, place) = First(q, Place(w))
  <2>1. CASE q = <<>>
    <3>1. r # <<>> /\ r[1] = w
      <4>1. Len(q) = 0
        BY <2>1, EmptyLength
      <4>2. Len(r) # 0 /\ r[1] = w
        BY <1>1, <4>1
      <4> QED
        BY <1>1, <4>2, EmptyLength
    <3> QED
      BY <2>1, <3>1 DEF First
  <2>2. CASE q # <<>>
    <3>1. r # <<>> /\ r[1] = q[1]
      <4>1. Len(q) > 0
        BY <2>2, EmptyLength
      <4>2. Len(r) # 0 /\ r[1] = q[1]
        BY <1>1, <4>1
      <4> QED
        BY <1>1, <4>2, EmptyLength
    <3> QED
      BY <2>2, <3>1 DEF First
  <2> QED
    BY <2>1, <2>2
<1> QED
  BY <1>1, <1>2, <1>3 DEF r

LEMMA AppendElement ==
  ASSUME NEW q \in Seq(Words), NEW w \in Words, NEW i \in 1 .. Len(q \o <<w>>)
  PROVE  (q \o <<w>>)[i] = w \/ \E j \in 1 .. Len(q) : (q \o <<w>>)[i] = q[j]
<1> DEFINE r == q \o <<w>>
<1>1. /\ Len(r) = Len(q) + 1 /\ Len(q) \in Nat
      /\ \A j \in 1 .. Len(q) : r[j] = q[j]
      /\ r[Len(q) + 1] = w
  OBVIOUS
<1>2. i \in 1 .. Len(r)
  OBVIOUS
<1> HIDE DEF r
<1>3. i \in 1 .. Len(q) \/ i = Len(q) + 1
  BY <1>1, <1>2
<1>4. r[i] = w \/ \E j \in 1 .. Len(q) : r[i] = q[j]
  BY <1>1, <1>3
<1> QED
  BY <1>4 DEF r

LEMMA AppendNothing == ASSUME NEW q \in Seq(Words) PROVE q \o <<>> = q
OBVIOUS

LEMMA QueuePlace ==
  ASSUME NEW t, TraceType(t), NEW place, PlaceOf(place, t),
         NEW q \in Seq(Words), Queue(q, place, t)
  PROVE  PlaceOf(First(q, place), t)
<1>1. CASE q = <<>>
  BY <1>1 DEF First
<1>2. CASE q # <<>>
  <2>1. Head(q) \in Words /\ OfTrace(Head(q), t) /\ First(q, place) = Place(Head(q))
    BY <1>2, QueueTail
  <2> QED
    BY <2>1, WordPlace
<1> QED
  BY <1>1, <1>2

LEMMA EmptyQueue ==
  ASSUME NEW t, NEW place
  PROVE  Queue(<<>>, place, t) /\ First(<<>>, place) = place
BY DEF Queue, First

(* The first word that is to pass is the same for two places when no word  *)
(* that is to pass lies between them.                                      *)
LEMMA PassingHere ==
  ASSUME NEW t, TraceType(t), NEW p \in [pkt : Nat, pos : Nat], InTrace(p, t),
         t[p.pkt].match
  PROVE  Passing(p, t) = p
<1>1. p.pkt \in 1 .. Len(t) /\ Len(t) \in Nat
  BY TraceLength DEF InTrace
<1>2. p \in Candidates(p, t)
  BY <1>1 DEF Candidates
<1>3. ASSUME NEW v \in Candidates(p, t) PROVE v = p
  <2>1. v = p \/ v \in [pkt : p.pkt + 1 .. Len(t) + 1, pos : {0}]
    BY DEF Candidates
  <2>2. \A i \in p.pkt .. v.pkt - 1 : ~t[i].match
    BY DEF Candidates
  <2>3. CASE v \in [pkt : p.pkt + 1 .. Len(t) + 1, pos : {0}]
    <3>1. p.pkt \in p.pkt .. v.pkt - 1
      BY <1>1, <2>3
    <3> QED
      BY <2>2, <3>1
  <2> QED
    BY <2>1, <2>3
<1>4. Candidates(p, t) = {p}
  BY <1>2, <1>3
<1> QED
  BY <1>4 DEF Passing

LEMMA PassingAtEnd ==
  ASSUME NEW t, TraceType(t) PROVE Passing(End(t), t) = End(t)
<1>1. Len(t) \in Nat
  BY TraceLength
<1>2. [pkt : Len(t) + 1 + 1 .. Len(t) + 1, pos : {0}] = {}
  BY <1>1
<1>3. Candidates(End(t), t) = {End(t)}
  <2>1. End(t).pkt = Len(t) + 1
    BY DEF End
  <2>2. \A i \in End(t).pkt .. End(t).pkt - 1 : ~t[i].match
    BY <1>1, <2>1
  <2> QED
    BY <1>1, <1>2, <2>1, <2>2 DEF Candidates
<1> QED
  BY <1>3 DEF Passing

LEMMA PassingBeyond ==
  ASSUME NEW t, TraceType(t), NEW p \in [pkt : Nat, pos : Nat], InTrace(p, t),
         ~t[p.pkt].match
  PROVE  Passing(Following(p, t), t) = Passing(p, t)
<1> DEFINE f == Following(p, t)
           Beyond(n) == [pkt : n + 1 .. Len(t) + 1, pos : {0}]
           Dropped(n, v) == \A i \in n .. v.pkt - 1 : ~t[i].match
<1>1. p.pkt \in 1 .. Len(t) /\ Len(t) \in Nat
  BY TraceLength DEF InTrace
<1>2. ASSUME NEW v PROVE v \in Candidates(p, t) <=>
                          /\ v \in Beyond(p.pkt)
                          /\ v.pkt <= Len(t) => t[v.pkt].match
                          /\ Dropped(p.pkt, v)
  BY <1>1 DEF Candidates
<1>3. CASE p.pos + 1 # t[p.pkt].words
  <2>1. f = [pkt |-> p.pkt, pos |-> p.pos + 1]
    BY <1>3, FollowingPlace
  <2>2. f.pkt = p.pkt
    BY <2>1
  <2> HIDE DEF f
  <2>3. ASSUME NEW v PROVE v \in Candidates(f, t) <=>
                            /\ v \in Beyond(p.pkt)
                            /\ v.pkt <= Len(t) => t[v.pkt].match
                            /\ Dropped(p.pkt, v)
    BY <1>1, <2>2 DEF Candidates
  <2>4. Candidates(f, t) = Candidates(p, t)
    BY <1>2, <2>3
  <2> QED
    BY <2>4 DEF Passing, f
<1>4. CASE p.pos + 1 = t[p.pkt].words
  <2>1. f = [pkt |-> p.pkt + 1, pos |-> 0]
    BY <1>4, FollowingPlace
  <2>2. f.pkt = p.pkt + 1 /\ {f} \union Beyond(p.pkt + 1) = Beyond(p.pkt)
    <3>1. f.pkt = p.pkt + 1 /\ f \in Beyond(p.pkt)
      BY <1>1, <2>1
    <3>2. ASSUME NEW v \in Beyond(p.pkt) PROVE v = f \/ v \in Beyond(p.pkt + 1)
      BY <1>1, <2>1
    <3>3. Beyond(p.pkt + 1) \subseteq Beyond(p.pkt)
      BY <1>1
    <3> QED
      BY <3>1, <3>2, <3>3
  <2> HIDE DEF f
  <2>3. ASSUME NEW v \in Beyond(p.pkt)
        PROVE  Dropped(p.pkt + 1, v) <=> Dropped(p.pkt, v)
    BY <1>1
  <2>4. Candidates(f, t) = Candidates(p, t)
    <3> HIDE DEF Dropped, Beyond
    <3>1. ASSUME NEW v PROVE v \in Candidates(f, t) <=>
                              /\ v \in Beyond(p.pkt)
                              /\ v.pkt <= Len(t) => t[v.pkt].match
                              /\ Dropped(p.pkt + 1, v)
      BY <2>2 DEF Candidates, Beyond, Dropped
    <3> QED
      BY <1>2, <2>3, <3>1
  <2> QED
    BY <2>4 DEF Passing, f
<1> QED
  BY <1>3, <1>4

-----------------------------------------------------------------------------
(* What the cores do to a word.                                            *)
LEMMA NoWordIs ==
  /\ NoWord \in Words /\ ~NoWord.valid /\ ~NoWord.last
  /\ NoLatency \in [valid : BOOLEAN, value : Nat] /\ NoTuser \in Tusers
BY DEF NoWord, Words, Tusers, NoTuser, NoLatency, NoTruth, PacketTypes

(* The words of a trace as they are sent.                                  *)
LEMMA SentWord ==
  ASSUME TraceType(trace), NEW p \in [pkt : Nat, pos : Nat], InTrace(p, trace)
  PROVE  LET w == Word(p.pkt, p.pos)
         IN  /\ w \in Words /\ Place(w) = p /\ OfTrace(w, trace) /\ w.tuser = NoTuser
<1> DEFINE w == Word(p.pkt, p.pos)
           d == trace[p.pkt]
           last == p.pos + 1 = d.words
<1>1. /\ p.pkt \in Nat /\ p.pos \in Nat
      /\ d.words \in Nat /\ d.lastkeep \in Nat /\ d.type \in PacketTypes /\ d.match \in BOOLEAN
  <2>1. p.pkt \in 1 .. Len(trace) /\ p.pkt \in Nat /\ p.pos \in Nat
    BY DEF InTrace
  <2>2. /\ d.words \in Nat /\ d.lastkeep \in 1 .. 8 /\ d.type \in PacketTypes
        /\ d.match \in BOOLEAN
    BY <2>1, PacketAt
  <2> QED
    BY <2>1, <2>2
<1>2. /\ w \in [{"valid", "last", "pkt", "pos", "keep", "type", "match", "stamp",
                 "tuser", "truth"} -> {w[f] : f \in DOMAIN w}]
      /\ w.valid = TRUE /\ w.last = last /\ w.pkt = p.pkt /\ w.pos = p.pos
      /\ w.keep = IF last THEN d.lastkeep ELSE WordBytes
      /\ w.type = IF p.pos = 1 THEN d.type ELSE "other"
      /\ w.match = (p.pos = 0 /\ d.match)
      /\ w.stamp = 0 /\ w.tuser = NoTuser /\ w.truth = NoTruth
  <2>1. w.valid = TRUE /\ w.last = last /\ w.pkt = p.pkt /\ w.pos = p.pos
    BY DEF Word, NoWord
  <2>2. /\ w.keep = IF last THEN d.lastkeep ELSE WordBytes
        /\ w.type = IF p.pos = 1 THEN d.type ELSE "other"
    BY DEF Word, NoWord
  <2>3. w.stamp = 0 /\ w.tuser = NoTuser /\ w.truth = NoTruth
    BY DEF Word, NoWord
  <2>5. w.match = (p.pos = 0 /\ d.match)
    BY DEF Word, NoWord
  <2>4. w \in [{"valid", "last", "pkt", "pos", "keep", "type", "match", "stamp",
                "tuser", "truth"} -> {w[f] : f \in DOMAIN w}]
    BY DEF Word, NoWord
  <2> QED
    BY <2>1, <2>2, <2>3, <2>4, <2>5
<1> HIDE DEF w
<1>3. w \in Words
  <2>1. NoTuser \in Tusers /\ NoTruth \in [time : Nat, tuser : Tusers]
    BY NoWordIs DEF NoTruth
  <2>2. /\ w.valid \in BOOLEAN /\ w.pkt \in Nat /\ w.pos \in Nat /\ w.stamp \in Nat
        /\ w.tuser \in Tusers /\ w.truth \in [time : Nat, tuser : Tusers]
    <3>1. w.pkt = p.pkt /\ w.pos = p.pos /\ w.stamp = 0
      BY <1>2
    <3>2. w.valid = TRUE /\ w.tuser = NoTuser /\ w.truth = NoTruth
      BY <1>2
    <3>3. p.pkt \in Nat /\ p.pos \in Nat
      BY <1>1
    <3>4. w.pkt \in Nat /\ w.pos \in Nat /\ w.stamp \in Nat
      BY <3>1, <3>3
    <3>5. w.valid \in BOOLEAN /\ w.tuser \in Tusers /\ w.truth \in [time : Nat, tuser : Tusers]
      BY <2>1, <3>2
    <3> QED
      BY <3>4, <3>5
  <2>3. w.last \in BOOLEAN /\ w.match \in BOOLEAN
    BY <1>2
  <2>4. w.keep \in Nat
    BY <1>1, <1>2 DEF WordBytes
  <2>5. w.type \in PacketTypes
    BY <1>1, <1>2 DEF PacketTypes
  <2> QED
    BY <1>2, <2>2, <2>3, <2>4, <2>5 DEF Words
<1>4. Place(w) = p
  BY <1>2 DEF Place
<1>5. OfTrace(w, trace)
  BY <1>2, <1>4 DEF OfTrace
<1> QED
  BY <1>2, <1>3, <1>4, <1>5 DEF w

(* The stamp is in the word that settings and packet select.               *)
LEMMA StampPlace ==
  ASSUME NEW t, TraceType(t), NEW w \in Words, OfTrace(w, t),
         NEW c \in Settings, NEW type, Knows(type, Place(w), t, c)
  PROVE  \/ c.mode = "header" /\ w.pos = 2 /\ type = "v6"
         \/ c.mode = "header" /\ w.pos = 3 /\ type = "v4"
         \/ c.mode = "fixed" /\ w.pos = c.word /\ w.keep >= c.byte + c.width
         <=> Holds(t[w.pkt], w.pos, c)
<1> DEFINE d == t[w.pkt]
<1>1. c.mode = "header" /\ w.pos > 1 => type = d.type
  BY DEF Knows, Place
<1>2. /\ c.word \in Nat /\ c.byte \in Nat /\ c.width \in Nat /\ c.byte + c.width <= 8
  BY MeasureAssumption DEF SettingTypes, WordBytes
<1>3. /\ d.words \in Nat /\ d.lastkeep \in 1 .. 8 /\ w.pos \in Nat /\ w.pos < d.words
      /\ w.keep = IF w.pos + 1 = d.words THEN d.lastkeep ELSE 8
  BY WordPlace, PacketAt DEF OfTrace, WordBytes
<1>4. w.pos = c.word =>
        (w.keep >= c.byte + c.width <=> Size(d) >= WordBytes * c.word + c.byte + c.width)
  <2> DEFINE n == d.words  l == d.lastkeep  need == c.byte + c.width
  <2>1. Size(d) = 8 * (n - 1) + l
    BY DEF Size, WordBytes
  <2> HIDE DEF n, l
  <2>2. n \in Nat /\ l \in 1 .. 8 /\ w.pos \in Nat /\ w.pos < n
        /\ w.keep = IF w.pos + 1 = n THEN l ELSE 8
    BY <1>3 DEF n, l
  <2>3. CASE w.pos + 1 = n
    BY <1>2, <2>1, <2>2, <2>3 DEF WordBytes
  <2>4. CASE w.pos + 1 # n
    BY <1>2, <2>1, <2>2, <2>4 DEF WordBytes
  <2> QED
    BY <2>3, <2>4
<1>5. CASE c.mode = "header"
  <2>1. /\ w.pos = 2 => type = d.type
        /\ w.pos = 3 => type = d.type
    BY <1>1, <1>3, <1>5
  <2> QED
    BY <1>5, <2>1 DEF Holds
<1>6. CASE c.mode = "fixed"
  BY <1>4, <1>6 DEF Holds
<1>7. CASE c.mode \notin {"header", "fixed"}
  BY <1>7 DEF Holds
<1> QED
  BY <1>5, <1>6, <1>7

(* nt_gen_timestamp_insert.v, for the word w of the trace.                 *)
LEMMA Truthful ==
  ASSUME NEW w \in Words, NEW n \in Nat
  PROVE  LET v == [w EXCEPT !.truth.time = n]
         IN  v \in Words /\ Alike(v, w) /\ v.stamp = w.stamp /\ v.tuser = w.tuser
             /\ v.truth.time = n
<1> DEFINE v == [w EXCEPT !.truth.time = n]
<1>1. /\ v.valid = w.valid /\ v.last = w.last /\ v.pkt = w.pkt /\ v.pos = w.pos
      /\ v.keep = w.keep /\ v.type = w.type /\ v.match = w.match
      /\ v.stamp = w.stamp /\ v.tuser = w.tuser
  BY DEF Words
<1>2. v.truth.time = n
  BY DEF Words
<1>3. v \in Words
  BY DEF Words
<1> QED
  BY <1>1, <1>2, <1>3 DEF Alike

LEMMA StampsWord ==
  ASSUME NEW w \in Words, NEW n \in Nat
  PROVE  LET v == [w EXCEPT !.stamp = n]
         IN  v \in Words /\ Alike(v, w) /\ v.stamp = n /\ v.tuser = w.tuser
             /\ v.truth = w.truth
<1> DEFINE v == [w EXCEPT !.stamp = n]
<1>1. /\ v.valid = w.valid /\ v.last = w.last /\ v.pkt = w.pkt /\ v.pos = w.pos
      /\ v.keep = w.keep /\ v.type = w.type /\ v.match = w.match
      /\ v.stamp = n /\ v.tuser = w.tuser /\ v.truth = w.truth
  BY DEF Words
<1>2. v \in Words
  BY DEF Words
<1> QED
  BY <1>1, <1>2 DEF Alike

LEMMA Ranges ==
  TimeRange \in Nat \ {0} /\ ShortRange \in Nat \ {0} /\ GapRange \in Nat \ {0}
BY StampAssumption, InterPacketAssumption

LEMMA RangeIs == ASSUME NEW c PROVE StampRange(c) \in Nat \ {0}
BY Ranges DEF StampRange

LEMMA Remainder ==
  ASSUME NEW n \in Int, NEW r \in Nat, r > 0 PROVE n % r \in Nat /\ n % r < r
OBVIOUS

(* The stamp is taken modulo its range, and so is the difference.          *)
LEMMA Division ==
  ASSUME NEW r \in Nat \ {0}, NEW n \in Int
  PROVE  /\ n = r * (n \div r) + (n % r) /\ n \div r \in Int
         /\ n % r \in Nat /\ n % r < r
OBVIOUS

LEMMA RemainderOf ==
  ASSUME NEW r \in Nat \ {0}, NEW k \in Int, NEW m \in Nat, m < r
  PROVE  (r * k + m) % r = m
<1> DEFINE n == r * k + m  q == n \div r  x == n % r
<1>1. n \in Int
  OBVIOUS
<1>2. n = r * q + x /\ q \in Int /\ x \in Nat /\ x < r
  BY <1>1, Division
<1> HIDE DEF q, x
<1>3. r * k + m = r * q + x
  BY <1>2
<1> HIDE DEF n
<1>4. ~(k - q >= 1)
  <2> SUFFICES ASSUME k - q >= 1 PROVE FALSE
    OBVIOUS
  <2>1. r * (k - q) >= r
    BY <1>2
  <2>2. r * (k - q) = r * k - r * q
    BY <1>2
  <2>3. r * k \in Int /\ r * q \in Int
    BY <1>2
  <2> QED
    BY <1>2, <1>3, <2>1, <2>2, <2>3
<1>5. ~(q - k >= 1)
  <2> SUFFICES ASSUME q - k >= 1 PROVE FALSE
    OBVIOUS
  <2>1. r * (q - k) >= r
    BY <1>2
  <2>2. r * (q - k) = r * q - r * k
    BY <1>2
  <2>3. r * k \in Int /\ r * q \in Int
    BY <1>2
  <2> QED
    BY <1>2, <1>3, <2>1, <2>2, <2>3
<1>6. k = q
  BY <1>2, <1>4, <1>5
<1>7. m = x
  <2>1. r * q \in Int
    BY <1>2
  <2> QED
    BY <1>2, <1>3, <1>6, <2>1
<1> QED
  BY <1>7 DEF x, n

LEMMA DifferenceModulo ==
  ASSUME NEW r \in Nat \ {0}, NEW a \in Nat, NEW b \in Nat
  PROVE  /\ Difference(a % r, b % r, r) = (a - b) % r
         /\ (a - b) % r \in Nat
<1> DEFINE x == a % r  y == b % r  q == a \div r  s == b \div r
<1>1. /\ a = r * q + x /\ b = r * s + y
      /\ q \in Int /\ s \in Int /\ x \in Nat /\ y \in Nat /\ x < r /\ y < r
  BY Division
<1> HIDE DEF x, y, q, s
<1>2. CASE x >= y
  <2>1. a - b = r * (q - s) + (x - y)
    BY <1>1
  <2>2. (r * (q - s) + (x - y)) % r = x - y
    <3>1. q - s \in Int /\ x - y \in Nat /\ x - y < r
      BY <1>1, <1>2
    <3> QED
      BY <3>1, RemainderOf
  <2>3. Difference(x, y, r) = x - y
    BY <1>1, <1>2 DEF Difference
  <2>4. Difference(x, y, r) = (a - b) % r /\ (a - b) % r \in Nat
    BY <1>1, <1>2, <2>1, <2>2, <2>3
  <2> QED
    BY <2>4 DEF x, y
<1>3. CASE x < y
  <2>1. a - b = r * (q - s - 1) + (x - y + r)
    BY <1>1
  <2>2. (r * (q - s - 1) + (x - y + r)) % r = x - y + r
    <3>1. q - s - 1 \in Int /\ x - y + r \in Nat /\ x - y + r < r
      BY <1>1, <1>3
    <3> QED
      BY <3>1, RemainderOf
  <2>3. Difference(x, y, r) = x - y + r /\ x - y + r \in Nat
    BY <1>1, <1>3 DEF Difference
  <2>4. Difference(x, y, r) = (a - b) % r /\ (a - b) % r \in Nat
    BY <2>1, <2>2, <2>3
  <2> QED
    BY <2>4 DEF x, y
<1> QED
  BY <1>1, <1>2, <1>3

(* nt_gen_timestamp_insert.v: a word of the trace gets its stamp.          *)
LEMMA Inserted ==
  ASSUME TypeOK, NEW w \in Words,
         ins_word_cntr = src.pos, Knows(ins_ethertype, src, trace, cfg),
         w.valid => OfTrace(w, trace) /\ Place(w) = src /\ w.tuser = NoTuser
  PROVE  LET v == Taken(IF Stamps(Sent(w), cfg)
                          THEN [Sent(w) EXCEPT !.stamp = timestamp % StampRange(cfg)]
                          ELSE Sent(w))
         IN  /\ v \in Words
             /\ v.valid = w.valid
             /\ w.valid => Alike(v, w) /\ Stamped(v, trace, cfg)
<1> DEFINE n == timestamp % StampRange(cfg)
           u == IF Stamps(Sent(w), cfg) THEN [Sent(w) EXCEPT !.stamp = n] ELSE Sent(w)
           v == Taken(u)
<1>0. timestamp \in Nat /\ n \in Nat /\ cfg \in Settings /\ TraceType(trace)
  BY RangeIs, Remainder, Ranges DEF TypeOK
<1> HIDE DEF n
<1>1. CASE ~w.valid
  <2>1. Sent(w) = w
    BY <1>1 DEF Sent
  <2>2. u.valid = w.valid
    BY <2>1, <1>0, StampsWord DEF Alike
  <2>3. v = NoWord
    BY <1>1, <2>2 DEF Taken
  <2>4. v.valid = w.valid
    BY <1>1, <2>3, NoWordIs DEF Words
  <2> QED
    BY <1>1, <2>3, <2>4, NoWordIs DEF n
<1>2. CASE w.valid
  <2>1. /\ Sent(w) \in Words /\ Alike(Sent(w), w) /\ Sent(w).tuser = w.tuser
        /\ Holds(trace[w.pkt], w.pos, cfg) => Sent(w).truth.time = timestamp
    <3>1. CASE Holds(trace[w.pkt], w.pos, cfg)
      <4>1. Sent(w) = [w EXCEPT !.truth.time = timestamp]
        BY <1>2, <3>1 DEF Sent
      <4> QED
        BY <1>0, <4>1, Truthful
    <3>2. CASE ~Holds(trace[w.pkt], w.pos, cfg)
      BY <3>2 DEF Sent, Alike
    <3> QED
      BY <3>1, <3>2
  <2>2. Stamps(Sent(w), cfg) <=> Holds(trace[w.pkt], w.pos, cfg)
    <3>1. w.pos = src.pos /\ Sent(w).keep = w.keep
      BY <1>2, <2>1, PlaceFields DEF Alike
    <3> QED
      BY <1>0, <1>2, <3>1, StampPlace DEF Stamps
  <2> DEFINE z == Sent(w)
  <2> HIDE DEF z
  <2>3. /\ u \in Words /\ Alike(u, z) /\ u.tuser = z.tuser /\ u.truth = z.truth
        /\ Holds(trace[w.pkt], w.pos, cfg) => u.stamp = n
    <3>1. CASE Stamps(Sent(w), cfg)
      <4>1. u = [z EXCEPT !.stamp = n]
        BY <3>1 DEF z
      <4>2. z \in Words
        BY <2>1 DEF z
      <4> HIDE DEF u
      <4> QED
        BY <1>0, <4>1, <4>2, StampsWord
    <3>2. CASE ~Stamps(Sent(w), cfg)
      <4>1. u = z
        BY <3>2 DEF z
      <4> QED
        BY <2>1, <2>2, <3>2, <4>1 DEF z, Alike
    <3> QED
      BY <3>1, <3>2
  <2> HIDE DEF u
  <2>4. Alike(u, w)
    BY <2>1, <2>3 DEF Alike, z
  <2>5. v = u
    BY <1>2, <2>4 DEF Taken, Alike
  <2>6. Stamped(u, trace, cfg)
    <3>1. u.pkt = w.pkt /\ u.pos = w.pos /\ u.tuser = NoTuser
      BY <1>2, <2>1, <2>3, <2>4 DEF Alike, z
    <3>2. Holds(trace[w.pkt], w.pos, cfg) =>
            u.truth.time = timestamp /\ u.stamp = timestamp % StampRange(cfg)
      BY <2>1, <2>3 DEF z, n
    <3> QED
      BY <1>0, <3>1, <3>2 DEF Stamped
  <2>7. u.valid = w.valid
    BY <2>4 DEF Alike
  <2> QED
    BY <2>3, <2>4, <2>5, <2>6, <2>7 DEF u, n
<1> QED
  BY <1>1, <1>2

(* nt_recv_latency.v: the last word of a packet carries what its stamp     *)
(* says, and nothing if it has none.                                       *)
LEMMA KnownIsTaken ==
  ASSUME TypeOK, LatencyInv, NEW w \in Words,
         OfTrace(w, trace), Place(w) = AtLatency, Stamped(w, trace, cfg)
  PROVE  /\ Known(Arrived(w), cfg, timestamp) = Takes(w)
         /\ Takes(w) \in [valid : BOOLEAN, value : Nat]
         /\ ~Holds(trace[w.pkt], w.pos, cfg) => Takes(w) = took
<1> DEFINE a == Arrived(w)
<1>1. a.keep = w.keep /\ a.stamp = w.stamp /\ w.valid
  BY DEF Arrived, OfTrace, Words
<1>2. lat_word_cntr = w.pos /\ AtLatency.pos = w.pos /\ AtLatency.pkt = w.pkt
  BY PlaceFields DEF LatencyInv
<1>3. HoldsStamp(a, cfg) <=> Holds(trace[w.pkt], w.pos, cfg)
  <2>1. Knows(lat_ethertype, Place(w), trace, cfg) /\ cfg \in Settings /\ TraceType(trace)
    BY DEF LatencyInv, TypeOK
  <2> QED
    BY <1>1, <1>2, <2>1, StampPlace DEF HoldsStamp
<1> HIDE DEF a
<1>4. timestamp \in Nat /\ StampRange(cfg) \in Nat \ {0}
  BY Ranges, RangeIs DEF TypeOK
<1>5. CASE Holds(trace[w.pkt], w.pos, cfg)
  <2> DEFINE r == StampRange(cfg)  u == w.truth.time  d == (timestamp - u) % r
  <2>1. u \in Nat /\ w.stamp = u % r
    BY <1>5 DEF Stamped
  <2>2. Known(a, cfg, timestamp) = [valid |-> TRUE, value |-> Difference(timestamp % r, u % r, r)]
    BY <1>1, <1>3, <1>5, <2>1 DEF Known, Measured
  <2>3. Takes(w) = [valid |-> TRUE, value |-> d]
    BY <1>1, <1>5 DEF Takes
  <2>4. Difference(timestamp % r, u % r, r) = d /\ d \in Nat
    BY <1>4, <2>1, DifferenceModulo
  <2> HIDE DEF d, r, u
  <2>5. Known(a, cfg, timestamp) = Takes(w)
    BY <2>2, <2>3, <2>4
  <2>6. Takes(w) \in [valid : BOOLEAN, value : Nat]
    BY <2>3, <2>4
  <2> QED
    BY <1>5, <2>5, <2>6 DEF a
<1>6. CASE ~Holds(trace[w.pkt], w.pos, cfg)
  <2>1. Takes(w) = took /\ took \in [valid : BOOLEAN, value : Nat]
    BY <1>6 DEF Takes, TypeOK
  <2>2. Known(a, cfg, timestamp) = IF Forgets(cfg) THEN NoLatency ELSE lat_latency
    BY <1>3, <1>6 DEF Known
  <2>3. CASE Forgets(cfg)
    <3>1. Early(AtLatency, cfg)
      BY <1>2, <2>3, MeasureAssumption DEF Forgets, Early, TypeOK, SettingTypes
    <3> QED
      BY <2>1, <2>2, <2>3, <3>1 DEF LatencyInv, a
  <2>4. CASE ~Forgets(cfg)
    <3>1. ~Selects(AtLatency, trace, cfg)
      <4>1. cfg.mode = "fixed" => w.pos # cfg.word
        BY <1>2, <2>4 DEF Forgets
      <4> QED
        BY <1>2, <1>6, <4>1 DEF Selects, Holds
    <3> QED
      BY <2>1, <2>2, <2>4, <3>1 DEF LatencyInv, a
  <2> QED
    BY <1>6, <2>3, <2>4
<1> QED
  BY <1>5, <1>6

LEMMA Reports ==
  ASSUME NEW w \in Words, NEW l \in [valid : BOOLEAN, value : Nat], NEW x \in Tusers
  PROVE  LET v == [[w EXCEPT !.truth = [time |-> 0, tuser |-> x]] EXCEPT !.tuser.latency = l]
         IN  v \in Words /\ Alike(v, w) /\ v.truth.tuser = x
             /\ v.tuser = [latency |-> l, cycles |-> w.tuser.cycles]
<1> DEFINE u == [w EXCEPT !.truth = [time |-> 0, tuser |-> x]]
           v == [u EXCEPT !.tuser.latency = l]
<1>1. u \in Words /\ Alike(u, w) /\ u.tuser = w.tuser /\ u.truth = [time |-> 0, tuser |-> x]
  <2>1. u \in Words
    BY DEF Words
  <2>2. u.tuser = w.tuser /\ u.truth = [time |-> 0, tuser |-> x]
    BY DEF Words
  <2>3. Alike(u, w)
    BY DEF Words, Alike
  <2> QED
    BY <2>1, <2>2, <2>3
<1> HIDE DEF u
<1>2. v \in Words
  BY <1>1 DEF Words, Tusers
<1>3. Alike(v, u) /\ v.truth = u.truth
  BY <1>1 DEF Words, Alike
<1>4. v.tuser = [latency |-> l, cycles |-> u.tuser.cycles]
  BY <1>1 DEF Words, Tusers
<1> HIDE DEF v
<1>5. v \in Words /\ Alike(v, w) /\ v.truth.tuser = x
      /\ v.tuser = [latency |-> l, cycles |-> w.tuser.cycles]
  BY <1>1, <1>2, <1>3, <1>4 DEF Alike
<1> QED
  BY <1>5 DEF u, v

LEMMA Extracted ==
  ASSUME TypeOK, LatencyInv, NEW w \in Words, w.valid \/ ~w.last,
         w.valid => OfTrace(w, trace) /\ Place(w) = AtLatency /\ Stamped(w, trace, cfg)
  PROVE  LET a == Arrived(w)
             v == Taken([a EXCEPT !.tuser.latency = Reported(a, cfg, timestamp)])
         IN  /\ v \in Words
             /\ v.valid = w.valid
             /\ w.valid => Alike(v, w)
             /\ Right(v)
<1> DEFINE a == Arrived(w)
           u == [a EXCEPT !.tuser.latency = Reported(a, cfg, timestamp)]
           v == Taken(u)
<1>1. CASE ~w.valid
  <2>1. a = w
    BY <1>1 DEF Arrived
  <2>2. u.valid = w.valid
    BY <2>1 DEF Words
  <2>3. v = NoWord
    BY <1>1, <2>2 DEF Taken
  <2>4. v.valid = w.valid
    BY <1>1, <2>3, NoWordIs DEF Words
  <2> HIDE DEF v
  <2>5. v \in Words /\ v.valid = w.valid /\ Right(v)
    BY <1>1, <2>3, <2>4, NoWordIs DEF Right
  <2> QED
    BY <1>1, <2>5 DEF v, u, a
<1>2. CASE w.valid
  <2> DEFINE x == IF w.last THEN [latency |-> Takes(w), cycles |-> 0] ELSE NoTuser
             l == IF w.last THEN Takes(w) ELSE NoLatency
  <2>1. Known(a, cfg, timestamp) = Takes(w) /\ Takes(w) \in [valid : BOOLEAN, value : Nat]
    BY <1>2, KnownIsTaken
  <2>2. x \in Tusers /\ l \in [valid : BOOLEAN, value : Nat]
    BY <2>1, NoWordIs DEF Tusers
  <2>3. a = [w EXCEPT !.truth = [time |-> 0, tuser |-> x]]
    BY <1>2 DEF Arrived
  <2>4. Reported(a, cfg, timestamp) = l
    <3>1. a.last = w.last
      BY <2>3 DEF Words
    <3> QED
      BY <2>1, <3>1 DEF Reported
  <2>5. w.tuser.cycles = 0
    BY <1>2 DEF Stamped, NoTuser
  <2>a. x.latency = l /\ x.cycles = 0 /\ x = [latency |-> l, cycles |-> 0]
    BY DEF NoTuser, NoLatency
  <2>b. ~w.last => x = NoTuser
    OBVIOUS
  <2> HIDE DEF x, l
  <2>6. u = [[w EXCEPT !.truth = [time |-> 0, tuser |-> x]] EXCEPT !.tuser.latency = l]
    BY <2>3, <2>4
  <2> HIDE DEF u, a
  <2>7. u \in Words /\ Alike(u, w) /\ u.truth.tuser = x
        /\ u.tuser = [latency |-> l, cycles |-> w.tuser.cycles]
    <3> DEFINE z == [[w EXCEPT !.truth = [time |-> 0, tuser |-> x]] EXCEPT !.tuser.latency = l]
    <3>1. z \in Words /\ Alike(z, w) /\ z.truth.tuser = x
          /\ z.tuser = [latency |-> l, cycles |-> w.tuser.cycles]
      BY <2>2, Reports
    <3>2. u = z
      BY <2>6
    <3> HIDE DEF z
    <3> QED
      BY <3>1, <3>2
  <2>8. v = u
    BY <1>2, <2>7 DEF Taken, Alike
  <2>9. Right(u)
    BY <2>5, <2>7, <2>a, <2>b DEF Right, Alike
  <2>10. u.valid = w.valid
    BY <2>7 DEF Alike
  <2> QED
    BY <2>7, <2>8, <2>9, <2>10 DEF u, a
<1> QED
  BY <1>1, <1>2

(* nt_recv_interpackettime.v: the last word carries the distance too.      *)
LEMMA SpacedWord ==
  ASSUME NEW w \in Words, Right(w), since \in Nat, apart \in Nat,
         NEW c \in Nat, w.valid /\ w.last => c = Distance(w)
  PROVE  LET v == Report(Spaced(w), c)
         IN  /\ v \in Words
             /\ v.valid = w.valid
             /\ w.valid => Alike(v, w)
             /\ Right(v)
<1> DEFINE s == Spaced(w)
           u == [s EXCEPT !.tuser = IF s.last THEN [@ EXCEPT !.cycles = c] ELSE NoTuser]
           v == Taken(u)
<1>0. v = Report(Spaced(w), c)
  BY DEF Report
<1>1. CASE ~w.valid
  <2>1. s = w
    BY <1>1 DEF Spaced
  <2>2. u.valid = w.valid
    BY <2>1 DEF Words
  <2>3. v = NoWord
    BY <1>1, <2>2 DEF Taken
  <2>4. NoWord.valid = w.valid
    BY <1>1, NoWordIs DEF Words
  <2> HIDE DEF v
  <2> QED
    BY <1>0, <1>1, <2>3, <2>4, NoWordIs DEF Right
<1>2. CASE w.valid /\ w.last
  <2>1. s = [w EXCEPT !.truth.tuser.cycles = c]
    BY <1>2 DEF Spaced
  <2>2. s \in Words /\ Alike(s, w) /\ s.tuser = w.tuser
        /\ s.truth.tuser = [latency |-> w.truth.tuser.latency, cycles |-> c]
    <3>1. s \in Words
      BY <2>1 DEF Words, Tusers
    <3>2. Alike(s, w) /\ s.tuser = w.tuser
      BY <2>1 DEF Words, Alike
    <3>3. s.truth.tuser = [latency |-> w.truth.tuser.latency, cycles |-> c]
      BY <2>1 DEF Words, Tusers
    <3> QED
      BY <3>1, <3>2, <3>3
  <2> HIDE DEF s
  <2>3. u = [s EXCEPT !.tuser = [@ EXCEPT !.cycles = c]]
    BY <1>2, <2>2 DEF Alike
  <2>4. u \in Words /\ Alike(u, s) /\ u.truth = s.truth
        /\ u.tuser = [latency |-> s.tuser.latency, cycles |-> c]
    <3>1. u \in Words
      BY <2>2, <2>3 DEF Words, Tusers
    <3>2. Alike(u, s) /\ u.truth = s.truth
      BY <2>2, <2>3 DEF Words, Alike
    <3>3. u.tuser = [latency |-> s.tuser.latency, cycles |-> c]
      BY <2>2, <2>3 DEF Words, Tusers
    <3> QED
      BY <3>1, <3>2, <3>3
  <2> HIDE DEF u
  <2>5. v = u /\ Alike(u, w)
    BY <1>2, <2>2, <2>4 DEF Taken, Alike
  <2>6. Right(u)
    <3>1. w.tuser = w.truth.tuser
      BY <1>2 DEF Right
    <3> QED
      BY <1>2, <2>2, <2>4, <2>5, <3>1 DEF Right, Alike
  <2>7. u.valid = w.valid
    BY <2>5 DEF Alike
  <2> HIDE DEF v
  <2> QED
    BY <1>0, <2>4, <2>5, <2>6, <2>7
<1>3. CASE w.valid /\ ~w.last
  <2>1. s = w
    BY <1>3 DEF Spaced
  <2>2. u = [w EXCEPT !.tuser = NoTuser]
    BY <1>3, <2>1
  <2> HIDE DEF u, s
  <2>3. u \in Words /\ Alike(u, w) /\ u.truth = w.truth /\ u.tuser = NoTuser
    <3>1. u \in Words
      BY <2>2, NoWordIs DEF Words
    <3>2. Alike(u, w) /\ u.truth = w.truth /\ u.tuser = NoTuser
      BY <2>2 DEF Words, Alike
    <3> QED
      BY <3>1, <3>2
  <2>4. v = u
    BY <1>3, <2>3 DEF Taken, Alike
  <2>5. Right(u)
    <3>1. w.truth.tuser = NoTuser
      BY <1>3 DEF Right
    <3> QED
      BY <2>3, <3>1 DEF Right
  <2>6. u.valid = w.valid
    BY <2>3 DEF Alike
  <2> HIDE DEF v
  <2> QED
    BY <1>0, <2>3, <2>4, <2>5, <2>6
<1> QED
  BY <1>1, <1>2, <1>3

(* The word counter and the ether type after a word.                       *)
LEMMA StillKnows ==
  ASSUME NEW t, TraceType(t), NEW w \in Words, OfTrace(w, t), NEW c, NEW type,
         Knows(type, Place(w), t, c)
  PROVE  /\ Following(Place(w), t).pos = IF w.last THEN 0 ELSE w.pos + 1
         /\ Following(Place(w), t).pos = IF w.last THEN 0 ELSE After(w.pos, WordRange)
         /\ Knows(IF c.mode = "header" /\ w.pos = 1 THEN w.type ELSE type,
                  Following(Place(w), t), t, c)
<1> DEFINE f == Following(Place(w), t)
<1>1. /\ w.last = (w.pos + 1 = t[w.pkt].words) /\ w.pos \in Nat
      /\ w.pos = 1 => w.type = t[w.pkt].type
  BY WordPlace DEF OfTrace
<1>2. f = IF w.pos + 1 = t[w.pkt].words THEN [pkt |-> w.pkt + 1, pos |-> 0]
                                        ELSE [pkt |-> w.pkt, pos |-> w.pos + 1]
  BY WordPlace, FollowingPlace, PlaceFields
<1> HIDE DEF f
<1> DEFINE Kept == Knows(IF c.mode = "header" /\ w.pos = 1 THEN w.type ELSE type, f, t, c)
<1>3. ASSUME w.last PROVE f.pos = 0 /\ Kept
  <2>1. f.pos = 0
    BY <1>1, <1>2, <1>3
  <2> QED
    BY <1>3, <2>1 DEF Knows, f
<1>4. ASSUME ~w.last PROVE f.pos = w.pos + 1 /\ Kept
  <2>1. f.pkt = w.pkt /\ f.pos = w.pos + 1
    BY <1>1, <1>2, <1>4
  <2>2. c.mode = "header" /\ w.pos > 1 => type = t[w.pkt].type
    BY PlaceFields DEF Knows
  <2>3. w.pos + 1 > 1 => w.pos = 1 \/ w.pos > 1
    BY <1>1
  <2>4. w.pos > 1 => w.pos # 1
    BY <1>1
  <2> QED
    BY <1>1, <1>4, <2>1, <2>2, <2>3, <2>4 DEF Knows, f
<1>5. ~w.last => After(w.pos, WordRange) = w.pos + 1
  <2>1. /\ w.pos < t[w.pkt].words /\ t[w.pkt].words \in Nat /\ WordRange \in Nat
        /\ t[w.pkt].words <= WordRange
    BY WordPlace, PacketAt
  <2>2. ~w.last => w.pos + 1 # t[w.pkt].words
    BY <1>1
  <2>3. ~w.last => w.pos # WordRange - 1
    BY <1>1, <2>1, <2>2
  <2> QED
    BY <2>3 DEF After
<1> QED
  BY <1>3, <1>4, <1>5 DEF f

-----------------------------------------------------------------------------
(* A clock edge of the cores of the network side, one core after the       *)
(* other.  sent and arrived are what is at their inputs.                   *)
LEMMA SentIs ==
  ASSUME TypeOK, NEW w \in Words PROVE Sent(w) \in Words /\ Alike(Sent(w), w)
<1>1. timestamp \in Nat
  BY Ranges DEF TypeOK
<1>2. CASE w.valid /\ Holds(trace[w.pkt], w.pos, cfg)
  <2>1. Sent(w) = [w EXCEPT !.truth.time = timestamp]
    BY <1>2 DEF Sent
  <2> QED
    BY <1>1, <2>1, Truthful
<1>3. CASE ~(w.valid /\ Holds(trace[w.pkt], w.pos, cfg))
  BY <1>3 DEF Sent, Alike
<1> QED
  BY <1>2, <1>3

LEMMA EdgeInsert ==
  ASSUME TypeOK, InsertInv, NEW sent \in Words, NEW takes \in BOOLEAN,
         ins_out.valid => Before(ins_out, src, trace),
         sent.valid => OfTrace(sent, trace) /\ Place(sent) = src /\ sent.tuser = NoTuser,
         InsertClock(FALSE, Sent(sent), takes, cfg, timestamp),
         src' = IF sent.valid /\ takes THEN Following(src, trace) ELSE src
  PROVE  /\ ins_out' \in Words /\ PlaceOf(src', trace)
         /\ ins_word_cntr' = src'.pos
         /\ Knows(ins_ethertype', src', trace, cfg)
         /\ ins_out'.valid => Before(ins_out', src', trace) /\ Stamped(ins_out', trace, cfg)
         /\ At(ins_out', src') = IF takes THEN src ELSE AtLink
<1>0. /\ ins_word_cntr = src.pos /\ Knows(ins_ethertype, src, trace, cfg)
      /\ ins_out.valid => Stamped(ins_out, trace, cfg)
      /\ ins_out \in Words /\ PlaceOf(src, trace) /\ TraceType(trace)
  BY DEF InsertInv, TypeOK
<1>1. CASE ~takes
  <2>1. UNCHANGED <<ins_out, ins_ethertype, ins_word_cntr, src>>
    BY <1>1 DEF InsertClock, insVars
  <2> QED
    BY <1>0, <1>1, <2>1 DEF AtLink
<1>2. CASE takes
  <2> DEFINE v == Taken(IF Stamps(Sent(sent), cfg)
                          THEN [Sent(sent) EXCEPT !.stamp = timestamp % StampRange(cfg)]
                          ELSE Sent(sent))
  <2>1. /\ ins_out' = v
        /\ ins_ethertype' = IF cfg.mode = "header" /\ ins_word_cntr = 1
                              THEN Sent(sent).type ELSE ins_ethertype
        /\ ins_word_cntr' = IF ~Sent(sent).valid THEN ins_word_cntr
                            ELSE IF Sent(sent).last THEN 0 ELSE After(ins_word_cntr, WordRange)
    BY <1>2 DEF InsertClock
  <2>2. /\ v \in Words /\ v.valid = sent.valid
        /\ sent.valid => Alike(v, sent) /\ Stamped(v, trace, cfg)
    BY <1>0, Inserted
  <2> HIDE DEF v
  <2>3. /\ Sent(sent).valid = sent.valid /\ Sent(sent).last = sent.last
        /\ Sent(sent).type = sent.type
    BY SentIs DEF Alike
  <2>4. CASE sent.valid
    <3>1. src' = Following(src, trace)
      BY <1>2, <2>4
    <3>2. /\ Place(sent) = src /\ sent.pos = src.pos /\ OfTrace(sent, trace)
          /\ src \in [pkt : Nat, pos : Nat] /\ InTrace(src, trace)
      BY <1>0, <2>4, WordPlace, PlaceFields
    <3>3. PlaceOf(src', trace)
      BY <1>0, <3>1, <3>2, FollowingPlace
    <3>4. /\ src'.pos = IF sent.last THEN 0 ELSE After(sent.pos, WordRange)
          /\ Knows(IF cfg.mode = "header" /\ sent.pos = 1 THEN sent.type ELSE ins_ethertype,
                   src', trace, cfg)
      BY <1>0, <3>1, <3>2, StillKnows
    <3>5. ins_word_cntr' = src'.pos
      BY <1>0, <2>1, <2>3, <2>4, <3>2, <3>4
    <3>6. Knows(ins_ethertype', src', trace, cfg)
      BY <1>0, <2>1, <2>3, <3>2, <3>4
    <3>7. Before(ins_out', src', trace) /\ Stamped(ins_out', trace, cfg) /\ ins_out'.valid
          /\ Place(ins_out') = src
      <4>1. Before(sent, src', trace)
        BY <3>1, <3>2 DEF Before
      <4>2. Alike(ins_out', sent) /\ Stamped(ins_out', trace, cfg) /\ ins_out'.valid
        BY <2>1, <2>2, <2>4 DEF Alike
      <4> QED
        BY <3>2, <4>1, <4>2, AlikeInOrder
    <3>8. At(ins_out', src') = src
      BY <3>7 DEF At
    <3> QED
      BY <1>2, <2>1, <2>2, <3>3, <3>5, <3>6, <3>7, <3>8
  <2>5. CASE ~sent.valid
    <3>1. src' = src /\ ins_word_cntr' = ins_word_cntr /\ ins_out' \in Words /\ ~ins_out'.valid
      BY <2>1, <2>2, <2>3, <2>5
    <3>2. Knows(ins_ethertype', src, trace, cfg)
      <4>1. src.pos = 1 => ~(src.pos > 1)
        OBVIOUS
      <4> QED
        BY <1>0, <2>1, <4>1 DEF Knows
    <3> QED
      BY <1>0, <1>2, <3>1, <3>2 DEF At
  <2> QED
    BY <2>4, <2>5
<1> QED
  BY <1>1, <1>2

LEMMA EdgeLink ==
  ASSUME TypeOK, NEW leaves \in BOOLEAN, NEW takes \in BOOLEAN,
         leaves => link # <<>>,
         Queue(link, AtLink, trace),
         \A i \in 1 .. Len(link) : Stamped(link[i], trace, cfg),
         ins_out.valid => Before(ins_out, src, trace) /\ Stamped(ins_out, trace, cfg),
         NEW at, at = IF takes THEN src ELSE AtLink,
         link' = (IF leaves THEN Tail(link) ELSE link)
                   \o (IF ins_out.valid /\ takes THEN <<ins_out>> ELSE <<>>)
  PROVE  /\ link' \in Seq(Words)
         /\ Queue(link', at, trace)
         /\ First(link', at) = IF leaves THEN Following(AtLatency, trace) ELSE AtLatency
         /\ \A i \in 1 .. Len(link') : Stamped(link'[i], trace, cfg)
<1> DEFINE rest == IF leaves THEN Tail(link) ELSE link
<1>0. link \in Seq(Words) /\ ins_out \in Words
  BY DEF TypeOK
<1>1. /\ rest \in Seq(Words) /\ Queue(rest, AtLink, trace)
      /\ First(rest, AtLink) = IF leaves THEN Following(AtLatency, trace) ELSE AtLatency
      /\ \A i \in 1 .. Len(rest) : Stamped(rest[i], trace, cfg)
  <2>1. CASE leaves
    <3>1. /\ Tail(link) \in Seq(Words) /\ Queue(Tail(link), AtLink, trace)
          /\ First(link, AtLink) = Place(Head(link))
          /\ First(Tail(link), AtLink) = Following(Place(Head(link)), trace)
      BY <1>0, <2>1, QueueTail
    <3>2. rest = Tail(link)
      BY <2>1
    <3>3. ASSUME NEW i \in 1 .. Len(Tail(link)) PROVE Stamped(Tail(link)[i], trace, cfg)
      <4>1. i + 1 \in 1 .. Len(link) /\ Tail(link)[i] = link[i + 1]
        <5>1. link # <<>>
          BY <2>1
        <5> QED
          BY <1>0, <5>1
      <4> QED
        BY <4>1
    <3> HIDE DEF rest
    <3>4. First(rest, AtLink) = Following(AtLatency, trace)
      BY <3>1, <3>2 DEF AtLatency
    <3> QED
      BY <2>1, <3>1, <3>2, <3>3, <3>4
  <2>2. CASE ~leaves
    <3>1. rest = link
      BY <2>2
    <3> HIDE DEF rest
    <3> QED
      BY <1>0, <2>2, <3>1 DEF AtLatency
  <2> QED
    BY <2>1, <2>2
<1>2. link' = rest \o (IF ins_out.valid /\ takes THEN <<ins_out>> ELSE <<>>)
  OBVIOUS
<1> HIDE DEF rest
<1>3. CASE ins_out.valid /\ takes
  <2>1. link' = rest \o <<ins_out>> /\ at = src /\ AtLink = Place(ins_out)
    BY <1>2, <1>3 DEF AtLink, At
  <2>2. /\ rest \o <<ins_out>> \in Seq(Words)
        /\ Queue(rest \o <<ins_out>>, src, trace)
        /\ First(rest \o <<ins_out>>, src) = First(rest, AtLink)
    BY <1>0, <1>1, <1>3, <2>1, QueueAppend
  <2>3. ASSUME NEW i \in 1 .. Len(rest \o <<ins_out>>)
        PROVE  Stamped((rest \o <<ins_out>>)[i], trace, cfg)
    <3>1. \/ (rest \o <<ins_out>>)[i] = ins_out
          \/ \E j \in 1 .. Len(rest) : (rest \o <<ins_out>>)[i] = rest[j]
      BY <1>0, <1>1, AppendElement
    <3> QED
      BY <1>1, <1>3, <3>1
  <2> QED
    BY <1>1, <2>1, <2>2, <2>3
<1>4. CASE ~(ins_out.valid /\ takes)
  <2>1. link' = rest
    <3>1. link' = rest \o <<>>
      BY <1>2, <1>4
    <3> QED
      BY <1>1, <3>1, AppendNothing
  <2>2. at = AtLink
    BY <1>4 DEF AtLink, At
  <2> QED
    BY <1>1, <2>1, <2>2
<1> QED
  BY <1>3, <1>4

LEMMA EdgeLatency ==
  ASSUME TypeOK, LatencyInv, Right(lat_out), PlaceOf(AtLatency, trace),
         lat_out.valid => Before(lat_out, AtLatency, trace),
         NEW arrived \in Words, arrived.valid \/ ~arrived.last,
         arrived.valid => /\ OfTrace(arrived, trace) /\ Place(arrived) = AtLatency
                          /\ Stamped(arrived, trace, cfg),
         LatencyClock(FALSE, Arrived(arrived), rx_ready, cfg, timestamp),
         took' = IF rx_ready /\ arrived.valid
                   THEN IF arrived.last THEN NoLatency ELSE Takes(arrived) ELSE took,
         NEW at, at = IF arrived.valid /\ rx_ready THEN Following(AtLatency, trace)
                                                  ELSE AtLatency
  PROVE  /\ lat_out' \in Words /\ Right(lat_out')
         /\ lat_out'.valid => Before(lat_out', at, trace)
         /\ At(lat_out', at) = IF rx_ready THEN AtLatency ELSE AtGap
         /\ lat_word_cntr' = at.pos
         /\ Knows(lat_ethertype', at, trace, cfg)
         /\ Early(at, cfg) => took' = NoLatency
         /\ lat_latency' = took' \/ Selects(at, trace, cfg)
         /\ took' \in [valid : BOOLEAN, value : Nat]
<1>0. /\ lat_out \in Words /\ TraceType(trace) /\ took \in [valid : BOOLEAN, value : Nat]
      /\ lat_word_cntr = AtLatency.pos
      /\ Knows(lat_ethertype, AtLatency, trace, cfg)
      /\ Early(AtLatency, cfg) => took = NoLatency
      /\ lat_latency = took \/ Selects(AtLatency, trace, cfg)
  BY DEF TypeOK, LatencyInv
<1>1. CASE ~rx_ready
  <2>1. /\ UNCHANGED <<lat_out, lat_ethertype, lat_word_cntr, lat_latency, took>>
        /\ at = AtLatency
    BY <1>1 DEF LatencyClock, latVars
  <2> QED
    BY <1>0, <1>1, <2>1 DEF AtGap
<1> DEFINE a == Arrived(arrived)
           v == Taken([a EXCEPT !.tuser.latency = Reported(a, cfg, timestamp)])
<1>2. ASSUME rx_ready
      PROVE  /\ lat_out' = v
             /\ lat_latency' = AfterWord(a, cfg, timestamp)
             /\ lat_ethertype' = IF cfg.mode = "header" /\ lat_word_cntr = 1
                                   THEN a.type ELSE lat_ethertype
             /\ lat_word_cntr' = IF ~a.valid THEN lat_word_cntr
                                 ELSE IF a.last THEN 0 ELSE After(lat_word_cntr, WordRange)
  BY <1>2 DEF LatencyClock
<1>3. /\ v \in Words /\ v.valid = arrived.valid /\ Right(v)
      /\ arrived.valid => Alike(v, arrived)
  BY Extracted
<1> HIDE DEF v
<1>4. a.valid = arrived.valid /\ a.last = arrived.last /\ a.type = arrived.type
  <2>1. CASE arrived.valid
    BY <2>1 DEF Arrived, Words
  <2>2. CASE ~arrived.valid
    BY <2>2 DEF Arrived
  <2> QED
    BY <2>1, <2>2
<1>5. CASE rx_ready /\ arrived.valid
  <2>1. /\ at = Following(AtLatency, trace) /\ arrived.pos = AtLatency.pos
        /\ OfTrace(arrived, trace) /\ Place(arrived) = AtLatency
    BY <1>5, PlaceFields
  <2>2. arrived.pos \in Nat
    BY DEF Words
  <2>3. /\ at.pos = IF arrived.last THEN 0 ELSE arrived.pos + 1
        /\ at.pos = IF arrived.last THEN 0 ELSE After(arrived.pos, WordRange)
        /\ Knows(IF cfg.mode = "header" /\ arrived.pos = 1 THEN arrived.type ELSE lat_ethertype,
                 at, trace, cfg)
    BY <1>0, <2>1, StillKnows
  <2>4. lat_word_cntr' = at.pos /\ Knows(lat_ethertype', at, trace, cfg)
    BY <1>0, <1>2, <1>4, <1>5, <2>1, <2>3
  <2>5. lat_out' \in Words /\ Right(lat_out') /\ lat_out'.valid /\ Alike(lat_out', arrived)
    BY <1>2, <1>3, <1>5
  <2>6. Before(lat_out', at, trace) /\ Place(lat_out') = AtLatency
    <3>1. Before(arrived, at, trace)
      BY <2>1 DEF Before
    <3> QED
      BY <2>1, <2>5, <3>1, AlikeInOrder
  <2>7. At(lat_out', at) = AtLatency
    BY <2>5, <2>6 DEF At
  <2>8. /\ Known(a, cfg, timestamp) = Takes(arrived)
        /\ Takes(arrived) \in [valid : BOOLEAN, value : Nat]
        /\ ~Holds(trace[arrived.pkt], arrived.pos, cfg) => Takes(arrived) = took
    BY <1>5, KnownIsTaken
  <2>9. took' = IF arrived.last THEN NoLatency ELSE Takes(arrived)
    BY <1>5
  <2>10. lat_latency' = took'
    BY <1>2, <1>4, <1>5, <2>8, <2>9 DEF AfterWord
  <2>11. took' \in [valid : BOOLEAN, value : Nat]
    BY <2>8, <2>9, NoWordIs
  <2>12. Early(at, cfg) => took' = NoLatency
    <3> SUFFICES ASSUME ~arrived.last, Early(at, cfg) PROVE took' = NoLatency
      BY <2>9
    <3>1. at.pos = arrived.pos + 1 /\ at.pos # 0
      BY <2>2, <2>3
    <3>2. /\ ~Holds(trace[arrived.pkt], arrived.pos, cfg)
          /\ Early(AtLatency, cfg)
      <4>1. CASE cfg.mode = "disabled"
        BY <4>1 DEF Holds, Early
      <4>2. CASE cfg.mode = "header" /\ at.pos = 1
        <5>1. arrived.pos = 0
          BY <2>2, <3>1, <4>2
        <5> QED
          BY <2>1, <4>2, <5>1 DEF Holds, Early
      <4>3. CASE cfg.mode = "fixed" /\ at.pos <= cfg.word
        <5>1. cfg.word \in Nat
          BY MeasureAssumption DEF TypeOK, SettingTypes
        <5>2. arrived.pos <= cfg.word /\ arrived.pos # cfg.word
          BY <2>2, <3>1, <4>3, <5>1
        <5> QED
          BY <2>1, <4>3, <5>2 DEF Holds, Early
      <4> QED
        BY <3>1, <4>1, <4>2, <4>3 DEF Early
    <3> QED
      BY <1>0, <2>8, <2>9, <3>2
  <2> QED
    BY <1>5, <2>4, <2>5, <2>6, <2>7, <2>10, <2>11, <2>12
<1>6. CASE rx_ready /\ ~arrived.valid
  <2>1. at = AtLatency /\ took' = took
    BY <1>6
  <2>2. lat_out' \in Words /\ Right(lat_out') /\ ~lat_out'.valid
    BY <1>2, <1>3, <1>6
  <2>3. At(lat_out', at) = AtLatency
    BY <2>1, <2>2 DEF At
  <2>4. lat_word_cntr' = at.pos
    BY <1>0, <1>2, <1>4, <1>6, <2>1
  <2>5. Knows(lat_ethertype', at, trace, cfg)
    <3>1. at.pos = 1 => ~(at.pos > 1)
      OBVIOUS
    <3> QED
      BY <1>0, <1>2, <1>6, <2>1, <3>1 DEF Knows
  <2>6. lat_latency' = Known(a, cfg, timestamp)
    BY <1>2, <1>4, <1>6 DEF AfterWord
  <2>7. lat_latency' = took' \/ Selects(at, trace, cfg)
    <3>1. CASE HoldsStamp(a, cfg)
      <4>1. /\ AtLatency.pos = 2 => AtLatency.pos > 1
            /\ AtLatency.pos = 3 => AtLatency.pos > 1
        OBVIOUS
      <4>2. Selects(AtLatency, trace, cfg)
        BY <1>0, <3>1, <4>1 DEF HoldsStamp, Selects, Knows
      <4> QED
        BY <2>1, <4>2
    <3>2. CASE ~HoldsStamp(a, cfg) /\ Forgets(cfg)
      <4>1. lat_latency' = NoLatency
        BY <2>6, <3>2 DEF Known
      <4>2. Early(AtLatency, cfg) \/ Selects(AtLatency, trace, cfg)
        BY <1>0, <3>2 DEF Forgets, Early, Selects
      <4> QED
        BY <1>0, <2>1, <4>1, <4>2
    <3>3. CASE ~HoldsStamp(a, cfg) /\ ~Forgets(cfg)
      <4>1. lat_latency' = lat_latency
        BY <2>6, <3>3 DEF Known
      <4> QED
        BY <1>0, <2>1, <4>1
    <3> QED
      BY <3>1, <3>2, <3>3
  <2> QED
    BY <1>0, <1>6, <2>1, <2>2, <2>3, <2>4, <2>5, <2>7
<1> QED
  BY <1>1, <1>5, <1>6

LEMMA SpacedIsAlike ==
  ASSUME NEW w \in Words
  PROVE  Spaced(w).valid = w.valid /\ Spaced(w).last = w.last
<1>1. CASE w.valid /\ w.last
  BY <1>1 DEF Spaced, Words
<1>2. CASE ~(w.valid /\ w.last)
  BY <1>2 DEF Spaced
<1> QED
  BY <1>1, <1>2

LEMMA FollowingPos ==
  ASSUME NEW t, TraceType(t), NEW w \in Words, NEW place, Before(w, place, t)
  PROVE  /\ w.last => place.pos = 0
         /\ ~w.last => place.pos = w.pos + 1 /\ place.pos # 0
<1>1. OfTrace(w, t) /\ Following(Place(w), t) = place
  BY DEF Before
<1>2. w.last = (w.pos + 1 = t[w.pkt].words) /\ w.pos \in Nat
  BY <1>1, WordPlace DEF OfTrace
<1>3. place = IF w.pos + 1 = t[w.pkt].words THEN [pkt |-> w.pkt + 1, pos |-> 0]
                                            ELSE [pkt |-> w.pkt, pos |-> w.pos + 1]
  BY <1>1, WordPlace, FollowingPlace, PlaceFields
<1>4. w.last => place.pos = 0
  BY <1>2, <1>3
<1>5. ~w.last => place.pos = w.pos + 1
  BY <1>2, <1>3
<1> QED
  BY <1>2, <1>4, <1>5

(* nt_recv_interpackettime.v: the counters and the packet it is in.        *)
LEMMA EdgeGap ==
  ASSUME TypeOK, GapInv, Right(lat_out), Right(ip_out),
         lat_out.valid => Before(lat_out, AtLatency, trace),
         ip_out.valid => Before(ip_out, AtGap, trace),
         InterPacketClock(FALSE, Spaced(lat_out), rx_ready),
         since' = IF rx_ready /\ lat_out.valid /\ lat_out.pos = 0
                    THEN 0 ELSE (since + 1) % GapRange,
         apart' = IF rx_ready THEN Distance(lat_out) ELSE apart,
         NEW at, at = IF rx_ready THEN AtLatency ELSE AtGap
  PROVE  /\ ip_out' \in Words /\ Right(ip_out')
         /\ ip_out'.valid => Before(ip_out', at, trace)
         /\ At(ip_out', at) = IF rx_ready THEN AtGap ELSE AtFifo
         /\ ip_active' = (at.pos # 0)
         /\ ip_cntr' = since' /\ ip_cycles' = apart'
         /\ since' \in Nat /\ apart' \in Nat
<1> DEFINE w == lat_out
           s == Spaced(w)
           on == (since + 1) % GapRange
<1>0. /\ w \in Words /\ ip_out \in Words /\ TraceType(trace)
      /\ since \in Nat /\ apart \in Nat
      /\ ip_active = (AtGap.pos # 0) /\ ip_cntr = since /\ ip_cycles = apart
      /\ CountOn = on
  BY DEF TypeOK, GapInv, CountOn
<1>1. on \in Nat
  BY <1>0, Ranges, Remainder
<1>2. Distance(w) \in Nat /\ Distance(w) = IF w.valid /\ w.pos = 0 THEN on ELSE apart
  BY <1>0, <1>1 DEF Distance
<1>3. since' \in Nat /\ apart' \in Nat
  BY <1>0, <1>1, <1>2
<1>4. s.valid = w.valid /\ s.last = w.last
  BY <1>0, SpacedIsAlike
<1>7. InterPacketClock(FALSE, s, rx_ready)
  OBVIOUS
<1> HIDE DEF s, on
<1>5. CASE ~rx_ready
  <2>1. ip_cntr' = on /\ ip_out' = ip_out /\ ip_cycles' = ip_cycles /\ ip_active' = ip_active
    BY <1>0, <1>5, <1>7 DEF InterPacketClock
  <2>2. since' = on /\ apart' = apart /\ at = AtGap
    BY <1>5 DEF on
  <2>3. At(ip_out', at) = AtFifo
    BY <2>1, <2>2 DEF AtFifo
  <2> QED
    BY <1>0, <1>3, <1>5, <2>1, <2>2, <2>3
<1>6. CASE rx_ready
  <2> DEFINE c == Distance(w)
             v == Report(s, c)
  <2>1. w.valid => AtGap = Place(w) /\ AtGap.pos = w.pos
    BY PlaceFields DEF AtGap, At
  <2>2. /\ at = AtLatency
        /\ since' = IF w.valid /\ w.pos = 0 THEN 0 ELSE on
        /\ apart' = c
    BY <1>6 DEF on
  <2>3. c \in Nat /\ c = IF w.valid /\ w.pos = 0 THEN on ELSE apart
    BY <1>2
  <2>4. v \in Words /\ v.valid = w.valid /\ (w.valid => Alike(v, w)) /\ Right(v)
    BY <1>0, <2>3, SpacedWord DEF s
  <2> HIDE DEF c
  <2>5. CASE ~w.valid
    <3>1. ~StartsPacket(s)
      BY <1>4, <2>5 DEF StartsPacket
    <3>2. /\ ip_out' = Report(s, ip_cycles) /\ ip_cntr' = on /\ ip_cycles' = ip_cycles
          /\ ip_active' = (ip_active /\ ~(s.valid /\ s.last))
      BY <1>0, <1>6, <1>7, <3>1 DEF InterPacketClock
    <3>3. ip_out' = v
      BY <1>0, <2>3, <2>5, <3>2
    <3> HIDE DEF v
    <3>4. ip_active' = (at.pos # 0)
      BY <1>0, <1>4, <2>2, <2>5, <3>2 DEF AtGap, At
    <3>5. ip_cntr' = since' /\ ip_cycles' = apart'
      BY <1>0, <2>2, <2>3, <2>5, <3>2
    <3>6. ~ip_out'.valid
      BY <2>4, <2>5, <3>3
    <3>7. At(ip_out', at) = AtGap
      BY <2>2, <2>5, <3>6 DEF At, AtGap
    <3> QED
      BY <1>3, <1>6, <2>4, <3>3, <3>4, <3>5, <3>6, <3>7
  <2>6. CASE w.valid
    <3>1. Before(w, at, trace)
      BY <2>2, <2>6
    <3>2. (w.last => at.pos = 0) /\ (~w.last => at.pos # 0)
      BY <1>0, <3>1, FollowingPos
    <3>3. StartsPacket(s) <=> w.pos = 0
      BY <1>0, <1>4, <2>1, <2>6 DEF StartsPacket
    <3> DEFINE Edge == /\ ip_out' = v /\ ip_active' = (at.pos # 0)
                       /\ ip_cntr' = since' /\ ip_cycles' = apart'
    <3>4. ASSUME w.pos = 0 PROVE Edge
      <4>1. /\ ip_out' = Report(s, on) /\ ip_cntr' = 0 /\ ip_cycles' = on
            /\ ip_active' = ~s.last
        BY <1>0, <1>6, <1>7, <3>3, <3>4 DEF InterPacketClock
      <4>2. c = on
        BY <2>3, <2>6, <3>4
      <4>3. ip_out' = v
        BY <4>1, <4>2
      <4>4. ip_active' = (at.pos # 0)
        BY <1>4, <3>2, <4>1
      <4>5. ip_cntr' = since' /\ ip_cycles' = apart'
        BY <2>2, <2>6, <3>4, <4>1, <4>2
      <4> QED
        BY <4>3, <4>4, <4>5
    <3>5. ASSUME w.pos # 0 PROVE Edge
      <4>1. /\ ip_out' = Report(s, ip_cycles) /\ ip_cntr' = on /\ ip_cycles' = ip_cycles
            /\ ip_active' = (ip_active /\ ~(s.valid /\ s.last))
        BY <1>0, <1>6, <1>7, <3>3, <3>5 DEF InterPacketClock
      <4>2. c = apart
        BY <2>3, <3>5
      <4>3. ip_out' = v
        BY <1>0, <4>1, <4>2
      <4>4. ip_active' = (at.pos # 0)
        <5>1. ip_active
          BY <1>0, <2>1, <2>6, <3>5
        <5>2. CASE w.last
          <6>1. ip_active' = FALSE
            BY <1>4, <2>6, <4>1, <5>2
          <6> QED
            BY <3>2, <5>2, <6>1
        <5>3. CASE ~w.last
          <6>1. ip_active' = TRUE
            BY <1>4, <2>6, <4>1, <5>1, <5>3
          <6> QED
            BY <3>2, <5>3, <6>1
        <5> QED
          BY <5>2, <5>3
      <4>5. ip_cntr' = since' /\ ip_cycles' = apart'
        BY <1>0, <2>2, <3>5, <4>1, <4>2
      <4> QED
        BY <4>3, <4>4, <4>5
    <3>6. ip_out' = v /\ ip_active' = (at.pos # 0) /\ ip_cntr' = since' /\ ip_cycles' = apart'
      BY <3>4, <3>5
    <3> HIDE DEF v, Edge
    <3>7. ip_out'.valid /\ Alike(ip_out', w)
      BY <2>4, <2>6, <3>6
    <3>8. Before(ip_out', at, trace) /\ Place(ip_out') = Place(w)
      BY <3>1, <3>7, AlikeInOrder
    <3>9. At(ip_out', at) = AtGap
      BY <2>1, <2>6, <3>7, <3>8 DEF At
    <3> QED
      BY <1>3, <1>6, <2>4, <3>6, <3>8, <3>9
  <2> QED
    BY <2>5, <2>6
<1> QED
  BY <1>5, <1>6

LEMMA EdgeFifo ==
  ASSUME TypeOK, Queue(fifo, AtFifo, trace),
         \A i \in 1 .. Len(fifo) : Right(fifo[i]), Right(ip_out),
         ip_out.valid => Before(ip_out, AtGap, trace),
         NEW at, at = IF rx_ready THEN AtGap ELSE AtFifo,
         fifo' = fifo \o (IF ip_out.valid /\ rx_ready THEN <<ip_out>> ELSE <<>>)
  PROVE  /\ fifo' \in Seq(Words)
         /\ Queue(fifo', at, trace)
         /\ First(fifo', at) = AtFilter
         /\ \A i \in 1 .. Len(fifo') : Right(fifo'[i])
<1>0. fifo \in Seq(Words) /\ ip_out \in Words
  BY DEF TypeOK
<1>1. CASE ip_out.valid /\ rx_ready
  <2>1. fifo' = fifo \o <<ip_out>> /\ at = AtGap /\ AtFifo = Place(ip_out)
    BY <1>1 DEF AtFifo, At
  <2>2. /\ fifo \o <<ip_out>> \in Seq(Words)
        /\ Queue(fifo \o <<ip_out>>, AtGap, trace)
        /\ First(fifo \o <<ip_out>>, AtGap) = First(fifo, AtFifo)
    BY <1>0, <1>1, <2>1, QueueAppend
  <2>3. ASSUME NEW i \in 1 .. Len(fifo \o <<ip_out>>) PROVE Right((fifo \o <<ip_out>>)[i])
    <3>1. \/ (fifo \o <<ip_out>>)[i] = ip_out
          \/ \E j \in 1 .. Len(fifo) : (fifo \o <<ip_out>>)[i] = fifo[j]
      BY <1>0, AppendElement
    <3> QED
      BY <3>1
  <2> QED
    BY <2>1, <2>2, <2>3 DEF AtFilter
<1>2. CASE ~(ip_out.valid /\ rx_ready)
  <2>1. fifo' = fifo
    <3>1. fifo' = fifo \o <<>>
      BY <1>2
    <3> QED
      BY <1>0, <3>1, AppendNothing
  <2>2. at = AtFifo
    BY <1>2 DEF AtFifo, At
  <2> QED
    BY <1>0, <2>1, <2>2 DEF AtFilter
<1> QED
  BY <1>1, <1>2

LEMMA AtPlace ==
  ASSUME NEW t, TraceType(t), NEW place, PlaceOf(place, t), NEW w \in Words,
         w.valid => Before(w, place, t)
  PROVE  PlaceOf(At(w, place), t)
<1>1. CASE w.valid
  BY <1>1, WordPlace DEF At, Before
<1>2. CASE ~w.valid
  BY <1>2 DEF At
<1> QED
  BY <1>1, <1>2

LEMMA Places ==
  ASSUME PathInv
  PROVE  /\ PlaceOf(src, trace) /\ PlaceOf(AtLink, trace) /\ PlaceOf(AtLatency, trace)
         /\ PlaceOf(AtGap, trace) /\ PlaceOf(AtFifo, trace) /\ PlaceOf(AtFilter, trace)
<1>1. TypeOK /\ OrderInv
  BY DEF PathInv
<1>2. TraceType(trace) /\ PlaceOf(src, trace)
  BY <1>1 DEF TypeOK
<1>3. PlaceOf(AtLink, trace)
  BY <1>1, <1>2, AtPlace DEF AtLink, TypeOK, OrderInv
<1>4. PlaceOf(AtLatency, trace)
  BY <1>1, <1>2, <1>3, QueuePlace DEF AtLatency, TypeOK, OrderInv
<1>5. PlaceOf(AtGap, trace)
  BY <1>1, <1>2, <1>4, AtPlace DEF AtGap, TypeOK, OrderInv
<1>6. PlaceOf(AtFifo, trace)
  BY <1>1, <1>2, <1>5, AtPlace DEF AtFifo, TypeOK, OrderInv
<1>7. PlaceOf(AtFilter, trace)
  BY <1>1, <1>2, <1>6, QueuePlace DEF AtFilter, TypeOK, OrderInv
<1> QED
  BY <1>2, <1>3, <1>4, <1>5, <1>6, <1>7

(* All cores of the network side together.                                 *)
LEMMA EdgeKeepsPath ==
  ASSUME PathInv, NEW sends \in BOOLEAN, NEW arrives \in BOOLEAN,
         ClockEdge156(sends, arrives)
  PROVE  PathInv'
<1>0. /\ TypeOK /\ OrderInv /\ FilterInv /\ InsertInv /\ LatencyInv /\ GapInv /\ RightInv
      /\ sends => ~AllSent
      /\ arrives => link # <<>>
      /\ flt_out' = flt_out /\ flt_state' = flt_state /\ cfg' = cfg /\ trace' = trace
      /\ due' = due
  BY DEF PathInv, ClockEdge156, fltVars
<1>1. PICK idle \in IdleWords :
        Clock156(FALSE, IF sends THEN Word(src.pkt, src.pos) ELSE idle,
                        IF arrives THEN Head(link) ELSE idle)
  BY DEF ClockEdge156
<1>2. idle \in Words /\ ~idle.valid /\ ~idle.last
  BY MeasureAssumption
<1> DEFINE sent == IF sends THEN Word(src.pkt, src.pos) ELSE idle
           arrived == IF arrives THEN Head(link) ELSE idle
           leaves == arrived.valid /\ rx_ready
           takes == Len(link) < LinkDepth \/ leaves
<1>3. /\ sent \in Words
      /\ sent.valid => OfTrace(sent, trace) /\ Place(sent) = src /\ sent.tuser = NoTuser
  <2>1. CASE sends
    <3>1. /\ TraceType(trace) /\ src \in [pkt : Nat, pos : Nat]
          /\ InTrace(src, trace) \/ src = End(trace)
      BY <1>0 DEF TypeOK, PlaceOf
    <3>2. src # End(trace)
      <4>1. ~(src.pkt > Len(trace)) /\ Len(trace) \in Nat
        BY <1>0, <2>1, <3>1, TraceLength DEF AllSent
      <4>2. End(trace).pkt = Len(trace) + 1
        BY DEF End
      <4> QED
        BY <4>1, <4>2
    <3>3. InTrace(src, trace)
      BY <3>1, <3>2
    <3>4. sent = Word(src.pkt, src.pos)
      BY <2>1
    <3> HIDE DEF sent
    <3> QED
      BY <3>1, <3>3, <3>4, SentWord
  <2>2. CASE ~sends
    BY <1>2, <2>2
  <2> QED
    BY <2>1, <2>2
<1>4. /\ arrived \in Words /\ (arrived.valid \/ ~arrived.last)
      /\ arrived.valid => /\ OfTrace(arrived, trace) /\ Place(arrived) = AtLatency
                          /\ Stamped(arrived, trace, cfg)
      /\ arrived.valid => link # <<>>
  <2>1. CASE arrives
    <3>1. /\ link \in Seq(Words) /\ link # <<>> /\ Queue(link, AtLink, trace)
          /\ \A i \in 1 .. Len(link) : Stamped(link[i], trace, cfg)
      BY <1>0, <2>1 DEF TypeOK, OrderInv, InsertInv
    <3>2. /\ Head(link) \in Words /\ OfTrace(Head(link), trace)
          /\ First(link, AtLink) = Place(Head(link))
      BY <3>1, QueueTail
    <3>3. Head(link) = link[1] /\ 1 \in 1 .. Len(link)
      BY <3>1
    <3>4. arrived = Head(link)
      BY <2>1
    <3>5. Stamped(Head(link), trace, cfg)
      BY <3>1, <3>3
    <3>6. Head(link).valid
      BY <3>2 DEF OfTrace
    <3>7. Place(Head(link)) = AtLatency
      BY <3>2 DEF AtLatency
    <3> HIDE DEF arrived
    <3> QED
      BY <3>1, <3>2, <3>4, <3>5, <3>6, <3>7
  <2>2. CASE ~arrives
    BY <1>2, <2>2
  <2> QED
    BY <2>1, <2>2
<1>5. leaves \in BOOLEAN /\ takes \in BOOLEAN /\ (leaves => link # <<>>)
  BY <1>4
<1>6. /\ TickCounterClock(cycles_per_tick)
      /\ InsertClock(FALSE, Sent(sent), takes, cfg, timestamp)
      /\ src' = IF sent.valid /\ takes THEN Following(src, trace) ELSE src
      /\ link' = (IF leaves THEN Tail(link) ELSE link)
                   \o (IF ins_out.valid /\ takes THEN <<ins_out>> ELSE <<>>)
      /\ LatencyClock(FALSE, Arrived(arrived), rx_ready, cfg, timestamp)
      /\ InterPacketClock(FALSE, Spaced(lat_out), rx_ready)
      /\ fifo' = fifo \o (IF ip_out.valid /\ rx_ready THEN <<ip_out>> ELSE <<>>)
      /\ Observe(FALSE, arrived)
  BY <1>1 DEF Clock156
<1>7. /\ took' = IF rx_ready /\ arrived.valid
                   THEN IF arrived.last THEN NoLatency ELSE Takes(arrived) ELSE took
      /\ since' = IF rx_ready /\ lat_out.valid /\ lat_out.pos = 0
                    THEN 0 ELSE (since + 1) % GapRange
      /\ apart' = IF rx_ready THEN Distance(lat_out) ELSE apart
  <2>1. Observe(FALSE, arrived)
    BY <1>6
  <2> HIDE DEF arrived
  <2> QED
    BY <2>1 DEF Observe
<1> DEFINE at1 == IF takes THEN src ELSE AtLink
           at2 == IF leaves THEN Following(AtLatency, trace) ELSE AtLatency
           at3 == IF rx_ready THEN AtLatency ELSE AtGap
           at4 == IF rx_ready THEN AtGap ELSE AtFifo
<1>8. at2 = IF arrived.valid /\ rx_ready THEN Following(AtLatency, trace) ELSE AtLatency
  OBVIOUS
<1>9. /\ at1 = IF takes THEN src ELSE AtLink
      /\ at2 = IF leaves THEN Following(AtLatency, trace) ELSE AtLatency
      /\ at3 = IF rx_ready THEN AtLatency ELSE AtGap
      /\ at4 = IF rx_ready THEN AtGap ELSE AtFifo
  OBVIOUS
<1>10. /\ PlaceOf(AtLatency, trace)
       /\ ins_out.valid => Before(ins_out, src, trace)
       /\ lat_out.valid => Before(lat_out, AtLatency, trace)
       /\ ip_out.valid => Before(ip_out, AtGap, trace)
       /\ Queue(link, AtLink, trace) /\ Queue(fifo, AtFifo, trace)
  BY <1>0, Places DEF OrderInv
<1>11. /\ Right(lat_out) /\ Right(ip_out) /\ Right(flt_out)
       /\ \A i \in 1 .. Len(fifo) : Right(fifo[i])
       /\ ins_out.valid => Stamped(ins_out, trace, cfg)
       /\ \A i \in 1 .. Len(link) : Stamped(link[i], trace, cfg)
  BY <1>0 DEF RightInv, InsertInv
<1> HIDE DEF sent, arrived, leaves, takes, at1, at2, at3, at4
<1>21. /\ ins_out' \in Words /\ PlaceOf(src', trace)
       /\ ins_word_cntr' = src'.pos
       /\ Knows(ins_ethertype', src', trace, cfg)
       /\ ins_out'.valid => Before(ins_out', src', trace) /\ Stamped(ins_out', trace, cfg)
       /\ At(ins_out', src') = at1
  BY <1>0, <1>3, <1>5, <1>6, <1>9, <1>10, EdgeInsert
<1>22. /\ link' \in Seq(Words)
       /\ Queue(link', at1, trace)
       /\ First(link', at1) = at2
       /\ \A i \in 1 .. Len(link') : Stamped(link'[i], trace, cfg)
  BY <1>0, <1>5, <1>6, <1>9, <1>10, <1>11, EdgeLink
<1>23. /\ lat_out' \in Words /\ Right(lat_out')
       /\ lat_out'.valid => Before(lat_out', at2, trace)
       /\ At(lat_out', at2) = at3
       /\ lat_word_cntr' = at2.pos
       /\ Knows(lat_ethertype', at2, trace, cfg)
       /\ Early(at2, cfg) => took' = NoLatency
       /\ lat_latency' = took' \/ Selects(at2, trace, cfg)
       /\ took' \in [valid : BOOLEAN, value : Nat]
  BY <1>0, <1>4, <1>6, <1>7, <1>8, <1>9, <1>10, <1>11, EdgeLatency
<1>24. /\ ip_out' \in Words /\ Right(ip_out')
       /\ ip_out'.valid => Before(ip_out', at3, trace)
       /\ At(ip_out', at3) = at4
       /\ ip_active' = (at3.pos # 0)
       /\ ip_cntr' = since' /\ ip_cycles' = apart'
       /\ since' \in Nat /\ apart' \in Nat
  BY <1>0, <1>6, <1>7, <1>9, <1>10, <1>11, EdgeGap
<1>25. /\ fifo' \in Seq(Words)
       /\ Queue(fifo', at4, trace)
       /\ First(fifo', at4) = AtFilter
       /\ \A i \in 1 .. Len(fifo') : Right(fifo'[i])
  BY <1>0, <1>6, <1>9, <1>10, <1>11, EdgeFifo
<1>26. AtLink' = at1 /\ AtLatency' = at2 /\ AtGap' = at3 /\ AtFifo' = at4 /\ AtFilter' = AtFilter
  <2>1. AtLink' = at1
    BY <1>21 DEF AtLink
  <2>2. AtLatency' = at2
    BY <1>22, <2>1 DEF AtLatency
  <2>3. AtGap' = at3
    BY <1>23, <2>2 DEF AtGap
  <2>4. AtFifo' = at4
    BY <1>24, <2>3 DEF AtFifo
  <2>5. AtFilter' = AtFilter
    BY <1>25, <2>4 DEF AtFilter
  <2> QED
    BY <2>1, <2>2, <2>3, <2>4, <2>5
<1>31. TypeOK'
  <2>1. timestamp' \in 0 .. TimeRange - 1
    BY <1>0, <1>6, Ranges DEF TypeOK, TickCounterClock, After
  <2>2. /\ cfg' \in Settings /\ TraceType(trace') /\ PlaceOf(src', trace') /\ flt_out' \in Words
        /\ flt_state' \in {"DO_MATCH", "MATCH", "NO_MATCH"}
    BY <1>0, <1>21 DEF TypeOK
  <2> QED
    BY <1>21, <1>22, <1>23, <1>24, <1>25, <2>1, <2>2 DEF TypeOK
<1>32. OrderInv'
  BY <1>0, <1>21, <1>22, <1>23, <1>24, <1>25, <1>26 DEF OrderInv
<1>33. FilterInv'
  BY <1>0, <1>26 DEF FilterInv
<1>34. InsertInv'
  BY <1>0, <1>21, <1>22 DEF InsertInv
<1>35. LatencyInv'
  BY <1>0, <1>23, <1>26 DEF LatencyInv
<1>36. GapInv'
  BY <1>24, <1>26 DEF GapInv
<1>37. RightInv'
  BY <1>0, <1>11, <1>23, <1>24, <1>25 DEF RightInv
<1> QED
  BY <1>31, <1>32, <1>33, <1>34, <1>35, <1>36, <1>37 DEF PathInv

-----------------------------------------------------------------------------
(* nt_recv_filter_mac.v behind the FIFO.                                   *)
LEMMA WithinPacket ==
  ASSUME NEW t, TraceType(t), NEW w \in Words, OfTrace(w, t), ~w.last
  PROVE  /\ Following(Place(w), t).pkt = w.pkt /\ Following(Place(w), t).pos # 0
         /\ InTrace(Following(Place(w), t), t)
<1> DEFINE f == Following(Place(w), t)
<1>1. /\ w.pkt \in 1 .. Len(t) /\ w.pos \in Nat /\ w.pos < t[w.pkt].words
      /\ t[w.pkt].words \in Nat /\ w.pos + 1 # t[w.pkt].words
  BY WordPlace, PacketAt DEF OfTrace
<1>2. f = [pkt |-> w.pkt, pos |-> w.pos + 1]
  <2>1. f = IF w.pos + 1 = t[w.pkt].words THEN [pkt |-> w.pkt + 1, pos |-> 0]
                                          ELSE [pkt |-> w.pkt, pos |-> w.pos + 1]
    BY WordPlace, FollowingPlace, PlaceFields
  <2> HIDE DEF f
  <2> QED
    BY <1>1, <2>1
<1> HIDE DEF f
<1>3. f.pkt = w.pkt /\ f.pos = w.pos + 1
  BY <1>2
<1>4. w.pos + 1 \in 0 .. t[w.pkt].words - 1 /\ w.pos + 1 # 0
  BY <1>1
<1>5. InTrace(f, t) /\ f.pos # 0
  BY <1>1, <1>3, <1>4 DEF InTrace
<1> QED
  BY <1>3, <1>5 DEF f

(* The filter's input.                                                     *)
FilterIn == IF fifo = <<>> THEN NoWord ELSE Head(fifo)

(* A word is at the filter: its state, and whether the word passes.        *)
LEMMA Judged ==
  ASSUME TypeOK, FilterInv, Queue(fifo, AtFifo, trace), fifo # <<>>,
         NEW sink_ready \in BOOLEAN
  PROVE  LET w == Head(fifo)
             s == NextState(w, sink_ready)
             m == trace[w.pkt].match
         IN  /\ Passes(w) <=> m
             /\ sink_ready /\ w.last => s = "DO_MATCH"
             /\ ~(sink_ready /\ w.last) => s = IF m THEN "MATCH" ELSE "NO_MATCH"
<1> DEFINE w == Head(fifo)
           s == NextState(w, sink_ready)
           m == trace[w.pkt].match
<1>1. fifo \in Seq(Words) /\ TraceType(trace) /\ flt_state \in {"DO_MATCH", "MATCH", "NO_MATCH"}
  BY DEF TypeOK
<1>2. w \in Words /\ OfTrace(w, trace) /\ AtFilter = Place(w)
  BY <1>1, QueueTail DEF AtFilter
<1>3. AtFilter.pkt = w.pkt /\ AtFilter.pos = w.pos
  BY <1>2, PlaceFields
<1>4. w.valid /\ w.match = (w.pos = 0 /\ m)
  BY <1>2 DEF OfTrace
<1>5. /\ w.pkt \in 1 .. Len(trace) /\ m \in BOOLEAN
      /\ trace[w.pkt].words \in Nat /\ trace[w.pkt].words > 1
      /\ w.last = (w.pos + 1 = trace[w.pkt].words)
  BY <1>1, <1>2, WordPlace, PacketAt DEF OfTrace
<1> HIDE DEF w
<1>6. CASE flt_state = "DO_MATCH"
  <2>1. w.pos = 0
    BY <1>3, <1>6 DEF FilterInv
  <2>2. ~w.last
    <3>1. w.pos + 1 # trace[w.pkt].words
      BY <1>5, <2>1
    <3> QED
      BY <1>5, <3>1
  <2>3. w.match <=> m
    BY <1>4, <2>1
  <2>4. s = IF w.match THEN "MATCH" ELSE "NO_MATCH"
    <3>1. CASE w.match
      BY <1>4, <1>6, <3>1 DEF NextState
    <3>2. CASE ~w.match
      BY <1>4, <1>6, <3>2 DEF NextState
    <3> QED
      BY <3>1, <3>2
  <2>5. Passes(w) <=> m
    BY <1>4, <1>6, <2>3 DEF Passes
  <2> HIDE DEF s, m
  <2>6. s = IF m THEN "MATCH" ELSE "NO_MATCH"
    BY <2>3, <2>4
  <2> QED
    BY <2>2, <2>5, <2>6 DEF w, s, m
<1>7. CASE flt_state # "DO_MATCH"
  <2>1. flt_state = "MATCH" <=> m
    BY <1>3, <1>7 DEF FilterInv
  <2>2. Passes(w) <=> m
    BY <1>4, <1>7, <2>1 DEF Passes
  <2>3. s = IF AtEnd(w, sink_ready) THEN "DO_MATCH" ELSE flt_state
    <3>1. CASE AtEnd(w, sink_ready)
      BY <1>7, <3>1 DEF NextState
    <3>2. CASE ~AtEnd(w, sink_ready)
      BY <1>7, <3>2 DEF NextState
    <3> QED
      BY <3>1, <3>2
  <2>4. AtEnd(w, sink_ready) <=> sink_ready /\ w.last
    BY <1>4 DEF AtEnd
  <2>5. flt_state = IF m THEN "MATCH" ELSE "NO_MATCH"
    BY <1>1, <1>7, <2>1
  <2> HIDE DEF s, m
  <2> QED
    BY <2>2, <2>3, <2>4, <2>5 DEF w, s, m
<1> QED
  BY <1>6, <1>7

LEMMA FilterKeepsPath ==
  ASSUME PathInv, NEW sink_ready \in BOOLEAN, ClockEdge(sink_ready)
  PROVE  PathInv'
<1>0. /\ TypeOK /\ OrderInv /\ FilterInv /\ InsertInv /\ LatencyInv /\ GapInv /\ RightInv
      /\ FilterClock(FALSE, FilterIn, sink_ready)
      /\ fifo' = IF fifo # <<>> /\ sink_ready THEN Tail(fifo) ELSE fifo
      /\ due' = IF flt_out.valid /\ sink_ready THEN Passing(Following(due, trace), trace) ELSE due
  BY DEF PathInv, ClockEdge, FilterIn
<1>1. /\ UNCHANGED <<timestamp, ins_out, ins_ethertype, ins_word_cntr>>
      /\ UNCHANGED <<lat_out, lat_ethertype, lat_word_cntr, lat_latency>>
      /\ UNCHANGED <<ip_out, ip_cntr, ip_cycles, ip_active>>
      /\ UNCHANGED <<cfg, trace, src, link, took, since, apart>>
  BY DEF ClockEdge, tcVars, insVars, latVars, ipVars
<1>2. /\ AtLink' = AtLink /\ AtLatency' = AtLatency /\ AtGap' = AtGap /\ AtFifo' = AtFifo
      /\ AtFilter' = First(fifo', AtFifo)
  BY <1>1 DEF AtLink, AtLatency, AtGap, AtFifo, AtFilter
<1>3. /\ fifo \in Seq(Words) /\ TraceType(trace) /\ flt_out \in Words
      /\ flt_state \in {"DO_MATCH", "MATCH", "NO_MATCH"}
      /\ Queue(fifo, AtFifo, trace)
      /\ \A i \in 1 .. Len(fifo) : Right(fifo[i])
      /\ Right(flt_out)
  BY <1>0 DEF TypeOK, OrderInv, RightInv
<1>4. PlaceOf(AtFilter, trace)
  BY Places
<1> DEFINE Good ==
             /\ fifo' \in Seq(Words) /\ Queue(fifo', AtFifo, trace)
             /\ \A i \in 1 .. Len(fifo') : Right(fifo'[i])
             /\ flt_out' \in Words /\ Right(flt_out')
             /\ flt_state' \in {"DO_MATCH", "MATCH", "NO_MATCH"}
             /\ FilterInv'
<1>5. ASSUME fifo = <<>> PROVE Good
  <2>1. FilterIn = NoWord /\ fifo' = fifo /\ AtFilter' = AtFilter
    BY <1>0, <1>2, <1>5 DEF FilterIn, AtFilter
  <2>2. flt_state' = flt_state
    <3>1. flt_state' = NextState(NoWord, sink_ready)
      BY <1>0, <2>1 DEF FilterClock
    <3>2. ~AtEnd(NoWord, sink_ready)
      BY NoWordIs DEF AtEnd
    <3>3. CASE flt_state = "DO_MATCH"
      BY <3>1, <3>2, <3>3, NoWordIs DEF NextState
    <3>4. CASE flt_state # "DO_MATCH"
      BY <3>1, <3>2, <3>4, NoWordIs DEF NextState
    <3> QED
      BY <3>3, <3>4
  <2>3. flt_out' = IF sink_ready THEN NoWord ELSE flt_out
    BY <1>0, <2>1, NoWordIs DEF FilterClock, Passes
  <2>4. /\ flt_out'.valid => flt_out'= flt_out /\ due' = due
        /\ ~flt_out'.valid => due' = Passing(AtFilter, trace)
    <3>1. CASE sink_ready
      <4>1. ~flt_out'.valid
        BY <2>3, <3>1, NoWordIs
      <4>2. due' = Passing(AtFilter, trace)
        BY <1>0, <3>1 DEF FilterInv
      <4> QED
        BY <4>1, <4>2
    <3>2. CASE ~sink_ready
      <4>1. flt_out' = flt_out /\ due' = due
        BY <1>0, <2>3, <3>2
      <4> QED
        BY <1>0, <4>1 DEF FilterInv
    <3> QED
      BY <3>1, <3>2
  <2>5. flt_out' \in Words /\ Right(flt_out')
    <3>1. Right(NoWord)
      BY NoWordIs DEF Right
    <3> QED
      BY <1>3, <2>3, <3>1, NoWordIs
  <2>6. FilterInv'
    BY <1>0, <1>1, <2>1, <2>2, <2>4 DEF FilterInv
  <2> QED
    BY <1>3, <2>1, <2>2, <2>5, <2>6
<1>6. ASSUME fifo # <<>> PROVE Good
  <2> DEFINE w == Head(fifo)
             f == Following(Place(w), trace)
             m == trace[w.pkt].match
  <2>1. /\ Tail(fifo) \in Seq(Words) /\ w \in Words /\ OfTrace(w, trace)
        /\ AtFilter = Place(w)
        /\ Queue(Tail(fifo), AtFifo, trace)
        /\ First(Tail(fifo), AtFifo) = f
    BY <1>3, <1>6, QueueTail DEF AtFilter
  <2>2. /\ FilterIn = w
        /\ fifo' = IF sink_ready THEN Tail(fifo) ELSE fifo
        /\ flt_state' = NextState(w, sink_ready)
        /\ flt_out' = IF ~sink_ready THEN flt_out ELSE IF Passes(w) THEN w ELSE NoWord
    BY <1>0, <1>6 DEF FilterIn, FilterClock
  <2>3. /\ Passes(w) <=> m
        /\ sink_ready /\ w.last => flt_state' = "DO_MATCH"
        /\ ~(sink_ready /\ w.last) => flt_state' = IF m THEN "MATCH" ELSE "NO_MATCH"
    BY <1>0, <1>3, <1>6, <2>2, Judged
  <2>4. /\ w.valid /\ AtFilter.pkt = w.pkt /\ InTrace(AtFilter, trace)
        /\ AtFilter \in [pkt : Nat, pos : Nat]
        /\ m \in BOOLEAN
    <3>1. w.pkt \in 1 .. Len(trace)
      BY <1>3, <2>1, WordPlace
    <3> QED
      BY <1>3, <2>1, <3>1, WordPlace, PacketAt, PlaceFields DEF OfTrace
  <2>5. Right(w) /\ \A i \in 1 .. Len(Tail(fifo)) : Right(Tail(fifo)[i])
    <3>1. w = fifo[1] /\ 1 \in 1 .. Len(fifo)
      BY <1>3, <1>6
    <3>2. ASSUME NEW i \in 1 .. Len(Tail(fifo)) PROVE Right(Tail(fifo)[i])
      <4>1. i + 1 \in 1 .. Len(fifo) /\ Tail(fifo)[i] = fifo[i + 1]
        BY <1>3, <1>6
      <4> QED
        BY <1>3, <4>1
    <3>3. Right(fifo[1])
      BY <1>3, <3>1
    <3> QED
      BY <3>1, <3>2, <3>3
  <2>6. Right(NoWord)
    BY NoWordIs DEF Right
  <2>7. flt_state' \in {"DO_MATCH", "MATCH", "NO_MATCH"}
    BY <2>3
  <2>8. /\ w.last => f.pos = 0
        /\ ~w.last => f.pkt = w.pkt /\ InTrace(f, trace)
    <3>1. Before(w, f, trace)
      BY <2>1 DEF Before
    <3> QED
      BY <1>3, <2>1, <3>1, FollowingPos, WithinPacket
  <2> HIDE DEF w, f
  <2>9. CASE ~sink_ready
    <3>1. /\ fifo' = fifo /\ flt_out' = flt_out /\ due' = due /\ AtFilter' = AtFilter
          /\ flt_state' = IF m THEN "MATCH" ELSE "NO_MATCH"
      BY <1>0, <1>2, <2>2, <2>3, <2>9 DEF AtFilter
    <3>2. FilterInv'
      <4>1. flt_state' # "DO_MATCH" /\ (flt_state' = "MATCH" <=> m)
        BY <2>4, <3>1
      <4>2. trace[AtFilter.pkt].match = m
        BY <2>4
      <4> HIDE DEF m
      <4> QED
        BY <1>0, <1>1, <2>4, <3>1, <4>1, <4>2 DEF FilterInv
    <3> QED
      BY <1>3, <2>7, <3>1, <3>2
  <2>10. CASE sink_ready
    <3>1. fifo' = Tail(fifo) /\ AtFilter' = f /\ flt_out' = IF m THEN w ELSE NoWord
      BY <1>2, <2>1, <2>2, <2>3, <2>10
    <3>2. due' = Passing(AtFilter, trace)
      BY <1>0, <2>10 DEF FilterInv
    <3>3. f = Following(AtFilter, trace)
      BY <2>1 DEF f
    <3>4. /\ f.pos = 0 \/ flt_state' # "DO_MATCH"
          /\ flt_state' # "DO_MATCH" => InTrace(f, trace) /\ (flt_state' = "MATCH" <=> trace[f.pkt].match)
      <4>1. CASE w.last
        BY <2>3, <2>8, <2>10, <4>1
      <4>2. CASE ~w.last
        <5>1. trace[f.pkt].match = m
          BY <2>8, <4>2
        <5>2. flt_state' = IF m THEN "MATCH" ELSE "NO_MATCH"
          BY <2>3, <4>2
        <5> HIDE DEF m
        <5> QED
          BY <2>4, <2>8, <4>2, <5>1, <5>2
      <4> QED
        BY <4>1, <4>2
    <3>5. /\ flt_out' \in Words /\ Right(flt_out')
          /\ flt_out'.valid => due' = Place(flt_out') /\ InTrace(due', trace)
                               /\ Following(due', trace) = f
          /\ ~flt_out'.valid => due' = Passing(f, trace)
      <4>1. CASE m
        <5>1. flt_out' = w /\ w.valid
          BY <2>4, <3>1, <4>1
        <5>2. due' = AtFilter
          BY <1>3, <2>4, <3>2, <4>1, PassingHere
        <5> QED
          BY <2>1, <2>4, <2>5, <3>3, <5>1, <5>2
      <4>2. CASE ~m
        <5>1. flt_out' = NoWord
          BY <3>1, <4>2
        <5>2. Passing(f, trace) = Passing(AtFilter, trace)
          BY <1>3, <2>4, <3>3, <4>2, PassingBeyond
        <5> QED
          BY <2>6, <3>2, <5>1, <5>2, NoWordIs
      <4> QED
        BY <4>1, <4>2
    <3>6. FilterInv'
      BY <1>1, <3>1, <3>4, <3>5 DEF FilterInv
    <3> QED
      BY <2>1, <2>5, <2>7, <3>1, <3>5, <3>6
  <2> QED
    BY <2>9, <2>10
<1> QED
  <2>1. Good
    BY <1>5, <1>6
  <2>2. TypeOK'
    BY <1>0, <1>1, <2>1 DEF TypeOK
  <2>3. OrderInv'
    BY <1>0, <1>1, <1>2, <2>1 DEF OrderInv
  <2>4. InsertInv' /\ LatencyInv' /\ GapInv'
    BY <1>0, <1>1, <1>2 DEF InsertInv, LatencyInv, GapInv
  <2>5. RightInv'
    BY <1>0, <1>1, <2>1 DEF RightInv
  <2> QED
    BY <2>1, <2>2, <2>3, <2>4, <2>5 DEF PathInv

-----------------------------------------------------------------------------
(* Nothing is on the path: the cores are as after a reset.                 *)
Rest ==
  /\ link = <<>> /\ fifo = <<>>
  /\ ~ins_out.valid /\ ~lat_out.valid /\ ~ip_out.valid /\ ~flt_out.valid
  /\ src.pos = 0 /\ ins_word_cntr = 0 /\ lat_word_cntr = 0
  /\ flt_state = "DO_MATCH" /\ due = Passing(src, trace)
  /\ took = NoLatency /\ lat_latency = NoLatency
  /\ ip_active = FALSE /\ ip_cntr = since /\ ip_cycles = apart

LEMMA RestIsPath == TypeOK /\ Rest => PathInv
<1> SUFFICES ASSUME TypeOK, Rest PROVE PathInv
  OBVIOUS
<1>1. AtLink = src /\ AtLatency = src /\ AtGap = src /\ AtFifo = src /\ AtFilter = src
  <2>1. AtLink = src
    BY DEF Rest, AtLink, At
  <2>2. AtLatency = src
    BY <2>1 DEF Rest, AtLatency, First
  <2>3. AtGap = src
    BY <2>2 DEF Rest, AtGap, At
  <2>4. AtFifo = src
    BY <2>3 DEF Rest, AtFifo, At
  <2>5. AtFilter = src
    BY <2>4 DEF Rest, AtFilter, First
  <2> QED
    BY <2>1, <2>2, <2>3, <2>4, <2>5
<1>2. src.pos = 0 /\ \A type : Knows(type, src, trace, cfg)
  <2>1. ~(0 > 1)
    OBVIOUS
  <2> QED
    BY <2>1 DEF Rest, Knows
<1>3. OrderInv
  BY EmptyQueue DEF Rest, OrderInv
<1>4. FilterInv
  BY <1>1, <1>2 DEF Rest, FilterInv
<1>5. \A i \in 1 .. Len(<<>>) : FALSE
  OBVIOUS
<1>6. InsertInv
  BY <1>2, <1>5 DEF Rest, InsertInv
<1>7. LatencyInv
  BY <1>1, <1>2 DEF Rest, LatencyInv
<1>8. GapInv
  BY <1>1, <1>2 DEF Rest, GapInv
<1>9. RightInv
  BY <1>5 DEF Rest, RightInv, Right
<1> QED
  BY <1>3, <1>4, <1>6, <1>7, <1>8, <1>9 DEF PathInv

LEMMA QuietIsRest ==
  ASSUME PathInv, Quiet
  PROVE  Rest /\ src = End(trace) /\ due = End(trace)
<1>0. TypeOK /\ FilterInv /\ InsertInv /\ LatencyInv /\ GapInv
  BY DEF PathInv
<1>1. /\ link = <<>> /\ fifo = <<>> /\ src.pkt > Len(trace)
      /\ ~ins_out.valid /\ ~lat_out.valid /\ ~ip_out.valid /\ ~flt_out.valid
  BY DEF Quiet, AllSent
<1>2. TraceType(trace) /\ Len(trace) \in Nat /\ PlaceOf(src, trace)
  BY <1>0, TraceLength DEF TypeOK
<1>3. src = End(trace) /\ src.pos = 0
  <2>1. ~InTrace(src, trace)
    BY <1>1, <1>2 DEF InTrace
  <2> QED
    BY <1>2, <2>1 DEF PlaceOf, End
<1>4. AtLatency = src /\ AtGap = src /\ AtFilter = src
  <2>1. AtLink = src
    BY <1>1 DEF AtLink, At
  <2>2. AtLatency = src
    BY <1>1, <2>1 DEF AtLatency, First
  <2>3. AtGap = src
    BY <1>1, <2>2 DEF AtGap, At
  <2>4. AtFifo = src
    BY <1>1, <2>3 DEF AtFifo, At
  <2>5. AtFilter = src
    BY <1>1, <2>4 DEF AtFilter, First
  <2> QED
    BY <2>2, <2>3, <2>5
<1>5. flt_state = "DO_MATCH"
  <2>1. ~InTrace(AtFilter, trace)
    BY <1>1, <1>2, <1>4 DEF InTrace
  <2> QED
    BY <1>0, <2>1 DEF FilterInv
<1>6. due = Passing(src, trace)
  BY <1>0, <1>1, <1>4 DEF FilterInv
<1>7. took = NoLatency
  BY <1>0, <1>3, <1>4 DEF LatencyInv, Early
<1>8. lat_latency = NoLatency
  <2>1. ~Selects(AtLatency, trace, cfg)
    <3>1. cfg.mode = "fixed" => cfg.word # 0
      BY <1>0, MeasureAssumption DEF TypeOK, SettingTypes
    <3>2. src.pos # 2 /\ src.pos # 3
      BY <1>3
    <3> QED
      BY <1>3, <1>4, <3>1, <3>2 DEF Selects
  <2> QED
    BY <1>0, <1>7, <2>1 DEF LatencyInv
<1>9. /\ ins_word_cntr = 0 /\ lat_word_cntr = 0
      /\ ip_active = FALSE /\ ip_cntr = since /\ ip_cycles = apart
  BY <1>0, <1>3, <1>4 DEF InsertInv, LatencyInv, GapInv
<1>10. due = End(trace)
  BY <1>2, <1>3, <1>6, PassingAtEnd
<1> QED
  BY <1>1, <1>3, <1>5, <1>6, <1>7, <1>8, <1>9, <1>10 DEF Rest

LEMMA StartPlace ==
  ASSUME NEW t, TraceType(t) PROVE PlaceOf(Start, t)
<1>1. Len(t) \in Nat /\ Start = [pkt |-> 1, pos |-> 0]
  BY TraceLength DEF Start
<1>2. CASE Len(t) = 0
  BY <1>1, <1>2 DEF PlaceOf, End
<1>3. CASE Len(t) # 0
  <2>1. 1 \in 1 .. Len(t)
    BY <1>1, <1>3
  <2>2. t[1].words \in Nat /\ t[1].words > 1
    BY <2>1, PacketAt
  <2>3. 0 \in 0 .. t[1].words - 1
    BY <2>2
  <2> QED
    BY <1>1, <2>1, <2>3 DEF PlaceOf, InTrace
<1> QED
  BY <1>2, <1>3

LEMMA TracesAre == ASSUME NEW t \in Traces PROVE TraceType(t)
<1>1. t \in Seq(Packets) /\ \A p \in 1 .. Len(t) : t[p].words \in 2 .. WordRange
  BY MeasureAssumption
<1> QED
  BY <1>1 DEF TraceType

LEMMA InitPath == Init => PathInv
<1> SUFFICES ASSUME Init PROVE PathInv
  OBVIOUS
<1>1. /\ timestamp = 0 /\ cfg \in Settings /\ trace = <<>> /\ src = Start /\ due = Start
      /\ link = <<>> /\ fifo = <<>> /\ took = NoLatency /\ since = 0 /\ apart = 0
      /\ ins_out = NoWord /\ ins_word_cntr = 0
      /\ lat_out = NoWord /\ lat_word_cntr = 0 /\ lat_latency = NoLatency
      /\ ip_out = NoWord /\ ip_cntr = 0 /\ ip_cycles = 0 /\ ip_active = FALSE
      /\ flt_out = NoWord /\ flt_state = "DO_MATCH"
  BY DEF Init, TickCounterInit, InsertInit, LatencyInit, InterPacketInit, FilterInit
<1>2. TraceType(trace)
  BY <1>1 DEF TraceType
<1>3. TypeOK
  <2>1. timestamp \in 0 .. TimeRange - 1
    BY <1>1, Ranges
  <2>2. link \in Seq(Words) /\ fifo \in Seq(Words)
    BY <1>1
  <2> QED
    BY <1>1, <1>2, <2>1, <2>2, StartPlace, NoWordIs DEF TypeOK
<1>4. Rest
  <2>1. End(trace) = Start /\ Start.pos = 0
    BY <1>1 DEF End, Start
  <2>2. due = Passing(src, trace)
    BY <1>1, <1>2, <2>1, PassingAtEnd
  <2> QED
    BY <1>1, <2>1, <2>2, NoWordIs DEF Rest
<1> QED
  BY <1>3, <1>4, RestIsPath

(* What software does when nothing is on the path.                         *)
LEMMA RestNext == TypeOK' /\ Rest' => PathInv'
BY RestIsPath, PTL

LEMMA TraceKeepsPath == ASSUME PathInv, SwTrace PROVE PathInv'
<1>0. TypeOK /\ Rest
  BY QuietIsRest DEF PathInv, SwTrace
<1>1. /\ trace' \in Traces /\ src' = Start /\ due' = Passing(Start, trace')
      /\ UNCHANGED <<cfg, link, fifo, took, since, apart>>
      /\ UNCHANGED <<timestamp, ins_out, ins_word_cntr, lat_out, lat_word_cntr, lat_latency>>
      /\ UNCHANGED <<ip_out, ip_cntr, ip_cycles, ip_active, flt_out, flt_state>>
  BY DEF SwTrace, cores, tcVars, insVars, latVars, ipVars, fltVars
<1>2. TraceType(trace') /\ PlaceOf(src', trace')
  BY <1>1, TracesAre, StartPlace
<1>3. TypeOK'
  BY <1>0, <1>1, <1>2 DEF TypeOK
<1>4. Rest'
  <2>1. src'.pos = 0
    BY <1>1 DEF Start
  <2> QED
    BY <1>0, <1>1, <2>1 DEF Rest
<1> QED
  BY <1>3, <1>4, RestNext

LEMMA SettingKeepsPath == ASSUME PathInv, SwSetting PROVE PathInv'
<1>0. TypeOK /\ Rest
  BY QuietIsRest DEF PathInv, SwSetting
<1>1. /\ cfg' \in Settings
      /\ UNCHANGED <<trace, src, due, link, fifo, took, since, apart>>
      /\ UNCHANGED <<timestamp, ins_out, ins_word_cntr, lat_out, lat_word_cntr, lat_latency>>
      /\ UNCHANGED <<ip_out, ip_cntr, ip_cycles, ip_active, flt_out, flt_state>>
  BY DEF SwSetting, cores, tcVars, insVars, latVars, ipVars, fltVars, streams
<1>2. TypeOK'
  BY <1>0, <1>1 DEF TypeOK
<1>3. Rest'
  BY <1>0, <1>1 DEF Rest
<1> QED
  BY <1>2, <1>3, RestNext

LEMMA ResetKeepsPath == ASSUME PathInv, SwReset PROVE PathInv'
<1>0. TypeOK /\ Rest /\ ~NoWord.valid
  BY QuietIsRest, NoWordIs DEF PathInv, SwReset
<1>1. /\ TickCounterClock(cycles_per_tick)
      /\ UNCHANGED <<cfg, trace, src, due>>
      /\ flt_out' = NoWord /\ flt_state' = "DO_MATCH"
      /\ ins_out' = NoWord /\ ins_word_cntr' = 0
      /\ lat_out' = NoWord /\ lat_word_cntr' = 0 /\ lat_latency' = NoLatency
      /\ ip_out' = NoWord /\ ip_cntr' = 0 /\ ip_cycles' = 0 /\ ip_active' = FALSE
      /\ took' = took /\ since' = 0 /\ apart' = 0
  <2>1. Clock156(TRUE, NoWord, NoWord) /\ FilterClock(TRUE, NoWord, FALSE)
        /\ UNCHANGED <<cfg, trace, due>>
    BY DEF SwReset
  <2>2. /\ InsertClock(TRUE, Sent(NoWord), Len(link) < LinkDepth \/ (NoWord.valid /\ rx_ready), cfg, timestamp)
        /\ TickCounterClock(cycles_per_tick)
        /\ src' = src
        /\ LatencyClock(TRUE, Arrived(NoWord), rx_ready, cfg, timestamp)
        /\ InterPacketClock(TRUE, Spaced(lat_out), rx_ready)
        /\ Observe(TRUE, NoWord)
    BY <1>0, <2>1 DEF Clock156
  <2>3. ins_out' = NoWord /\ ins_word_cntr' = 0
    BY <2>2 DEF InsertClock
  <2>4. lat_out' = NoWord /\ lat_word_cntr' = 0 /\ lat_latency' = NoLatency
    BY <2>2 DEF LatencyClock
  <2>5. ip_out' = NoWord /\ ip_cntr' = 0 /\ ip_cycles' = 0 /\ ip_active' = FALSE
    BY <2>2 DEF InterPacketClock
  <2>6. flt_out' = NoWord /\ flt_state' = "DO_MATCH"
    BY <2>1 DEF FilterClock
  <2>7. took' = took /\ since' = 0 /\ apart' = 0
    BY <1>0, <2>2 DEF Observe
  <2> QED
    BY <2>1, <2>2, <2>3, <2>4, <2>5, <2>6, <2>7
<1>2. link' = <<>> /\ fifo' = <<>>
  <2>1. /\ link = <<>> /\ fifo = <<>> /\ ~ins_out.valid /\ ~ip_out.valid
    BY <1>0 DEF Rest
  <2>2. /\ link' = <<>> \o <<>>
        /\ fifo' = <<>> \o <<>>
    BY <1>0, <2>1 DEF SwReset, Clock156
  <2> QED
    BY <2>2
<1>3. TypeOK'
  <2>1. timestamp' \in 0 .. TimeRange - 1
    BY <1>0, <1>1, Ranges DEF TypeOK, TickCounterClock, After
  <2>2. link' \in Seq(Words) /\ fifo' \in Seq(Words)
    BY <1>2
  <2> QED
    BY <1>0, <1>1, <2>1, <2>2, NoWordIs DEF TypeOK
<1>4. Rest'
  BY <1>0, <1>1, <1>2 DEF Rest
<1> QED
  BY <1>3, <1>4, RestNext

LEMMA UnchangedPath ==
  ASSUME PathInv,
         UNCHANGED <<timestamp, ins_out, ins_ethertype, ins_word_cntr>>,
         UNCHANGED <<lat_out, lat_ethertype, lat_word_cntr, lat_latency>>,
         UNCHANGED <<ip_out, ip_cntr, ip_cycles, ip_active, flt_out, flt_state>>,
         UNCHANGED <<cfg, trace, src, link, fifo, due, took, since, apart>>
  PROVE  PathInv'
<1>1. /\ AtLink' = AtLink /\ AtLatency' = AtLatency /\ AtGap' = AtGap /\ AtFifo' = AtFifo
      /\ AtFilter' = AtFilter
  BY DEF AtLink, AtLatency, AtGap, AtFifo, AtFilter
<1>2. /\ TypeOK /\ OrderInv /\ FilterInv /\ InsertInv /\ LatencyInv /\ GapInv /\ RightInv
  BY DEF PathInv
<1>3. TypeOK'
  BY <1>2 DEF TypeOK
<1>4. OrderInv'
  BY <1>1, <1>2 DEF OrderInv
<1>5. FilterInv'
  BY <1>1, <1>2 DEF FilterInv
<1>6. InsertInv'
  BY <1>2 DEF InsertInv
<1>7. LatencyInv' /\ GapInv' /\ RightInv'
  BY <1>1, <1>2 DEF LatencyInv, GapInv, RightInv
<1> QED
  BY <1>3, <1>4, <1>5, <1>6, <1>7 DEF PathInv

LEMMA StepKeepsPath == PathInv /\ [Next]_vars => PathInv'
<1> SUFFICES ASSUME PathInv, [Next]_vars PROVE PathInv'
  OBVIOUS
<1>1. ASSUME NEW sends \in BOOLEAN, NEW arrives \in BOOLEAN, ClockEdge156(sends, arrives)
      PROVE  PathInv'
  BY <1>1, EdgeKeepsPath
<1>2. ASSUME NEW sink_ready \in BOOLEAN, ClockEdge(sink_ready) PROVE PathInv'
  BY <1>2, FilterKeepsPath
<1>3. CASE SwTrace
  BY <1>3, TraceKeepsPath
<1>4. CASE SwSetting
  BY <1>4, SettingKeepsPath
<1>5. CASE SwReset
  BY <1>5, ResetKeepsPath
<1>6. CASE SwPeriod
  BY <1>6, UnchangedPath
  DEF SwPeriod, cores, tcVars, insVars, latVars, ipVars, fltVars, streams
<1>7. CASE UNCHANGED vars
  BY <1>7, UnchangedPath
  DEF vars, cores, tcVars, insVars, latVars, ipVars, fltVars, streams
<1> QED
  BY <1>1, <1>2, <1>3, <1>4, <1>5, <1>6, <1>7 DEF Next

-----------------------------------------------------------------------------
(* The words on the path follow one another as the trace has them, the     *)
(* state of each core belongs to the word at its input, and what it knows  *)
(* of the packet is right, for all traces, settings, periods, idle lines,  *)
(* depths of the queues and ranges of the counters.                        *)
THEOREM PathInvariant == Spec => []PathInv
BY InitPath, StepKeepsPath, PTL DEF Spec

(* nt_recv_filter_mac.v: the receiver sees the words of the packets that   *)
(* match, all of them, no others, and in order.                            *)
THEOREM WordsInOrder == Spec => []MatchesInOrder
<1>1. PathInv => MatchesInOrder
  BY DEF PathInv, FilterInv, MatchesInOrder, Place
<1> QED
  BY <1>1, PathInvariant, PTL

(* nt_recv_filter_mac.v: when the path is empty, no packet that matches is *)
(* missing.                                                                *)
THEOREM NothingMissing == Spec => []NothingLost
<1>1. PathInv => NothingLost
  <2> SUFFICES ASSUME PathInv, Quiet PROVE due.pkt > Len(trace)
    BY DEF NothingLost
  <2>1. due = End(trace) /\ Len(trace) \in Nat
    BY QuietIsRest, TraceLength DEF PathInv, TypeOK
  <2>2. due.pkt = Len(trace) + 1
    BY <2>1 DEF End
  <2> QED
    BY <2>1, <2>2
<1> QED
  BY <1>1, PathInvariant, PTL

(* nt_recv_latency.v, nt_recv_interpackettime.v: what is reported with a   *)
(* word is the time since its packet was stamped and the cycles since its  *)
(* predecessor arrived.                                                    *)
THEOREM LatencyAndGapRight == Spec => []MeasuredRight
<1>1. PathInv => MeasuredRight
  BY DEF PathInv, RightInv, Right, MeasuredRight
<1> QED
  BY <1>1, PathInvariant, PTL
=============================================================================
