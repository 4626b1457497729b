------------------------------- MODULE Measure -------------------------------
(***************************************************************************)
(* The measuring path from one interface to another: packets are stamped   *)
(* and, once across the MACs and whatever is between them, measured        *)
(* (Latency, InterPacketTime), wait in the receive FIFO and are            *)
(* filtered (FilterMac), as the block design connects these cores          *)
(* (fluent10g_create_bd_connections.tcl).  All of them share the time      *)
(* and the settings of nt_timestamp_top.v.                                 *)
(*                                                                         *)
(* A packet is a record of its size in words, the bytes in its last word,  *)
(* its type and whether its address matches the filter's.                  *)
(***************************************************************************)
EXTENDS StampedStream, Latency, InterPacketTime, FilterMac, Sequences

CONSTANTS
  Traces,       (* sequences of packets, for software to choose from       *)
  Settings,     (* values of mode, position and width                      *)
  Periods,      (* values of cycles_per_tick                               *)
  IdleWords,    (* what the data lines hold while no word is there         *)
  LinkDepth,    (* words between the two interfaces                        *)
  FifoDepth     (* words of the receive FIFO                               *)

WordBytes == 8

SettingTypes == [mode : {"disabled", "header", "fixed"}, word : 0 .. WordRange - 1,
                 byte : 0 .. WordBytes - 1, width : {2, 3}]
Packets      == [words : Nat, lastkeep : 1 .. WordBytes, type : PacketTypes, match : BOOLEAN]

(* A packet has two words or more, and no more than the cores' counters of *)
(* its words can tell apart.  No stamp is put into its first word, which   *)
(* is part of the destination address: before that word the latency core   *)
(* would read one from the idle lines and, if software then moves the      *)
(* stamps further back, report it with a packet that ends before them.     *)
ASSUME MeasureAssumption ==
  /\ Settings \subseteq SettingTypes
  /\ \A s \in Settings :
       s.byte + s.width <= WordBytes /\ (s.mode = "fixed" => s.word > 0)
  /\ Traces \subseteq Seq(Packets)
  /\ \A t \in Traces : \A p \in 1 .. Len(t) : t[p].words \in 2 .. WordRange
  /\ IdleWords \subseteq Words
  /\ \A w \in IdleWords : ~w.valid /\ ~w.last
  /\ Periods \subseteq 0 .. TickRange - 1

VARIABLES
  cfg, cycles_per_tick,   (* registers of nt_timestamp_cpuregs.v           *)
  trace,                  (* the packets being sent                        *)
  src,                    (* the next word of them: packet and position    *)
  link, fifo,
  (* History.                                                              *)
  due,          (* the word the receiver must see next                     *)
  took,         (* what the packet at the latency core has taken           *)
  since,        (* cycles since a packet last reached the next core        *)
  apart,        (* from its predecessor, for the packet that is there      *)
  still         (* cycles since the time or its period changed             *)

cores   == <<tcVars, insVars, latVars, ipVars, fltVars>>
streams == <<trace, src, link, fifo, due>>
vars    == <<cores, cfg, cycles_per_tick, streams, took, since, apart, still>>

-----------------------------------------------------------------------------
Word(p, k) ==
  LET last == k + 1 = trace[p].words
  IN  [NoWord EXCEPT !.valid = TRUE, !.last = last, !.pkt = p, !.pos = k,
                     !.keep  = IF last THEN trace[p].lastkeep ELSE WordBytes,
                     !.type  = IF k = 1 THEN trace[p].type ELSE "other",
                     !.match = (k = 0 /\ trace[p].match)]

Start == [pkt |-> 1, pos |-> 0]
Following(w, packets) ==
  IF w.pos + 1 < packets[w.pkt].words THEN [w EXCEPT !.pos = @ + 1]
                                      ELSE [pkt |-> w.pkt + 1, pos |-> 0]

(* The word w, or the first word of the next packet that is to pass.       *)
Candidates(w, packets) ==
  {v \in {w} \cup [pkt : w.pkt + 1 .. Len(packets) + 1, pos : {0}] :
     /\ v.pkt <= Len(packets) => packets[v.pkt].match
     /\ \A p \in w.pkt .. v.pkt - 1 : ~packets[p].match}
Passing(w, packets) == CHOOSE v \in Candidates(w, packets) : TRUE

AllSent == src.pkt > Len(trace)

Quiet ==
  /\ AllSent /\ link = <<>> /\ fifo = <<>>
  /\ ~ins_out.valid /\ ~lat_out.valid /\ ~ip_out.valid /\ ~flt_out.valid

(* The k-th word of a packet holds its stamp: the field for it lies within *)
(* the packet.                                                             *)
Size(pkt) == WordBytes * (pkt.words - 1) + pkt.lastkeep
Holds(pkt, k, setting) ==
  \/ setting.mode = "header" /\ pkt.type = "v6" /\ k = 2
  \/ setting.mode = "header" /\ pkt.type = "v4" /\ k = 3
  \/ /\ setting.mode = "fixed" /\ k = setting.word
     /\ Size(pkt) >= WordBytes * setting.word + setting.byte + setting.width

-----------------------------------------------------------------------------
Init ==
  /\ TickCounterInit /\ InsertInit /\ LatencyInit /\ InterPacketInit /\ FilterInit
  /\ cfg \in Settings /\ cycles_per_tick \in Periods
  /\ trace = <<>> /\ src = Start /\ due = Start
  /\ link = <<>> /\ fifo = <<>>
  /\ took = NoLatency /\ since = 0 /\ apart = 0 /\ still = 0

rx_ready        == Len(fifo) < FifoDepth

(* The words as the properties see them when they enter a core.            *)
Sent(w) ==
  IF w.valid /\ Holds(trace[w.pkt], w.pos, cfg) THEN [w EXCEPT !.truth.time = timestamp] ELSE w

Takes(w) ==
  IF w.valid /\ Holds(trace[w.pkt], w.pos, cfg)
    THEN [valid |-> TRUE, value |-> (timestamp - w.truth.time) % StampRange(cfg)] ELSE took
Arrived(w) ==
  IF w.valid THEN [w EXCEPT !.truth = [time |-> 0, tuser |->
                     IF w.last THEN [latency |-> Takes(w), cycles |-> 0] ELSE NoTuser]] ELSE w

Distance(w) == IF w.valid /\ w.pos = 0 THEN (since + 1) % GapRange ELSE apart
Spaced(w) == IF w.valid /\ w.last THEN [w EXCEPT !.truth.tuser.cycles = Distance(w)] ELSE w

Observe(rst, w) ==
  /\ took' = IF rx_ready /\ w.valid THEN IF w.last THEN NoLatency ELSE Takes(w) ELSE took
  /\ since' = IF rst \/ (rx_ready /\ lat_out.valid /\ lat_out.pos = 0)
                THEN 0 ELSE (since + 1) % GapRange
  /\ apart' = IF rst THEN 0 ELSE IF rx_ready THEN Distance(lat_out) ELSE apart
  /\ still' = IF Tick(cycles_per_tick) THEN 0
              ELSE IF still < TickRange THEN still + 1 ELSE still

(* sent and arrived are the words, or what is there instead, at the        *)
(* stamping and at the latency core.  leaves: a word leaves the link.      *)
Clock156(rst, sent, arrived) ==
  LET leaves == arrived.valid /\ rx_ready
      takes  == Len(link) < LinkDepth \/ leaves
  IN  /\ TickCounterClock(cycles_per_tick)
      /\ InsertClock(rst, Sent(sent), takes, cfg, timestamp)
      /\ src' = IF sent.valid /\ takes THEN Following(src, trace) ELSE src
      /\ link' = (IF leaves THEN Tail(link) ELSE link)
                   \o (IF ins_out.valid /\ takes THEN <<ins_out>> ELSE <<>>)
      /\ LatencyClock(rst, Arrived(arrived), rx_ready, cfg, timestamp)
      /\ InterPacketClock(rst, Spaced(lat_out), rx_ready)
      /\ fifo' = fifo \o (IF ip_out.valid /\ rx_ready THEN <<ip_out>> ELSE <<>>)
      /\ Observe(rst, arrived)

ClockEdge156(sends, arrives) ==
  /\ sends => ~AllSent
  /\ arrives => link # <<>>
  /\ \E idle \in IdleWords :
       Clock156(FALSE, IF sends THEN Word(src.pkt, src.pos) ELSE idle,
                       IF arrives THEN Head(link) ELSE idle)
  /\ UNCHANGED <<fltVars, cfg, cycles_per_tick, trace, due>>

(* The filter runs at another clock, behind the FIFO.                      *)
ClockEdge(sink_ready) ==
  /\ FilterClock(FALSE, IF fifo = <<>> THEN NoWord ELSE Head(fifo), sink_ready)
  /\ fifo' = IF fifo # <<>> /\ sink_ready THEN Tail(fifo) ELSE fifo
  /\ due' = IF flt_out.valid /\ sink_ready THEN Passing(Following(due, trace), trace) ELSE due
  /\ UNCHANGED <<tcVars, insVars, latVars, ipVars, cfg, cycles_per_tick, trace, src, link,
                 took, since, apart, still>>

-----------------------------------------------------------------------------
(* Software sends a trace when the last one has arrived, and changes the   *)
(* setting of the stamps or resets the cores only then.                    *)
SwTrace ==
  /\ Quiet
  /\ trace' \in Traces
  /\ src' = Start
  /\ due' = Passing(Start, trace')
  /\ UNCHANGED <<cores, cfg, cycles_per_tick, link, fifo, took, since, apart, still>>

SwSetting ==
  /\ Quiet
  /\ cfg' \in Settings
  /\ UNCHANGED <<cores, cycles_per_tick, streams, took, since, apart, still>>

SwPeriod ==
  /\ Quiet
  /\ cycles_per_tick' \in Periods \ {cycles_per_tick}
  /\ still' = 0
  /\ UNCHANGED <<cores, cfg, streams, took, since, apart>>

SwReset ==
  /\ Quiet
  /\ Clock156(TRUE, NoWord, NoWord)
  /\ FilterClock(TRUE, NoWord, FALSE)
  /\ UNCHANGED <<cfg, cycles_per_tick, trace, due>>

Next ==
  \/ \E sends, arrives \in BOOLEAN : ClockEdge156(sends, arrives)
  \/ \E sink_ready \in BOOLEAN : ClockEdge(sink_ready)
  \/ SwTrace \/ SwSetting \/ SwPeriod \/ SwReset

Spec == Init /\ [][Next]_vars

-----------------------------------------------------------------------------
(* The last word of a packet leaves the measuring cores, and reaches the   *)
(* receiver if the packet passes the filter, with what was to be measured, *)
(* the other words with nothing: the ticks between the stamping and the    *)
(* reading of that word of the packet that both settings and type select,  *)
(* if it has one, however often the time began anew, the words stalled or  *)
(* none was there in between; and the cycles since the packet before it    *)
(* arrived, passed or dropped.                                             *)
MeasuredRight ==
  \A w \in {ip_out, flt_out} : w.valid => w.tuser = w.truth.tuser

(* The receiver sees the words of the packets that match, no others, and   *)
(* in order: the filter's state, which moves on even when no word does,    *)
(* never loses the packet it belongs to.                                   *)
MatchesInOrder == flt_out.valid => due = [pkt |-> flt_out.pkt, pos |-> flt_out.pos]

(* When everything has come to rest, no packet that matches is missing.    *)
NothingLost == Quiet => due.pkt > Len(trace)

(* The time stands still for at most one period, also when software has    *)
(* just made the period shorter than what has been counted of it.          *)
TimeGoesOn == cycles_per_tick > 0 => still <= cycles_per_tick
=============================================================================
