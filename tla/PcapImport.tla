----------------------------- MODULE PcapImport -----------------------------
(***************************************************************************)
(* pcap_import.c: packets and their time stamps become a trace of packets  *)
(* and gaps in clock cycles.  A pcap is a sequence of                      *)
(* [sec, nsec, caplen, len].  Cycles are 32/5 ns long (156.25 MHz); the    *)
(* rounding error is kept in units of 1/32 cycle, in which every gap is a  *)
(* whole number.                                                           *)
(***************************************************************************)
EXTENDS PcapTrace

CONSTANTS
  Pcaps,        (* the pcap files that may be given to the program         *)
  MaxPktSize,   (* PCAP_MAX_PKT_SIZE                                       *)
  SecNs,        (* nanoseconds of a second: 10^9                           *)
  UsecPerSec,   (* where timersub and timeradd carry: 10^6                 *)
  MaxCycles     (* the largest uint32_t                                    *)

ASSUME ImportAssumption ==
  /\ MaxPktSize \in Nat /\ SecNs \in Nat /\ UsecPerSec \in Nat
  /\ MaxCycles \in Nat

PcapPacket == [sec : Nat, nsec : Nat, caplen : Nat, len : Nat]

ASSUME PcapsAssumption == Pcaps \subseteq Seq(PcapPacket)

VARIABLES
  phase,      (* "loop", "done", "error": the program has exited           *)
  pcap,       (* the file                                                  *)
  n_pkts,     (* n_pkts, also the packets read from the file               *)
  err,        (* ts_rounding_err                                           *)
  trace,      (* the packets written                                       *)
  cycles      (* history: all gaps written, without the last packet's      *)

importVars == <<phase, pcap, n_pkts, err, trace, cycles>>

Ns(p) == p.sec * SecNs + p.nsec

ImportInit ==
  /\ phase = "loop"
  /\ pcap \in Pcaps
  /\ n_pkts = 0 /\ err = 0
  /\ trace = <<>>
  /\ cycles = 0

(* The macro of sys/time.h.  It carries at a million, but nsec holds       *)
(* nanoseconds.                                                            *)
TimerSub(a, b) ==
  LET usec == a.nsec - b.nsec
  IN  IF usec < 0 THEN [sec |-> a.sec - b.sec - 1, nsec |-> usec + UsecPerSec]
                  ELSE [sec |-> a.sec - b.sec, nsec |-> usec]

(* The gap in 1/32 cycles: ns * 156.25e6 / 1e9 = ns * 5 / 32.              *)
Gap32(p, prev) == 5 * Ns(TimerSub(p, prev))

Down32(x) == x \div 32
Up32(x)   == (x + 31) \div 32

RoundedUpAlways(x) == Up32(x)   (* a faulty variant                        *)

(* The next gap in cycles, rounded so that the error stays small.          *)
Rounded(x) == IF err < 32 THEN Up32(x) ELSE Down32(x)

(* The packet that write_packet writes, with the gap to its successor.     *)
Written(i, gap) ==
  [id |-> i, delta |-> gap, snap |-> pcap[i].caplen, wire |-> pcap[i].len]

TooLong == n_pkts < Len(pcap) /\ pcap[n_pkts + 1].caplen > MaxPktSize

(* pcap_pkt_handler: the previous packet is written, now that the gap to   *)
(* its successor is known.  A negative gap is undefined behaviour in the   *)
(* conversion to unsigned.                                                 *)
HandlePacket ==
  /\ phase = "loop" /\ n_pkts < Len(pcap) /\ ~TooLong
  /\ n_pkts' = n_pkts + 1
  /\ \/ n_pkts = 0 /\ UNCHANGED <<err, trace, cycles>>
     \/ /\ n_pkts > 0
        /\ LET x   == Gap32(pcap[n_pkts + 1], pcap[n_pkts])
               gap == Rounded(x)
           IN  \/ /\ x >= 0
                  /\ err' = err + 32 * gap - x
                  /\ trace' = Append(trace, Written(n_pkts, gap))
                  /\ cycles' = cycles + gap
               \/ /\ x < 0
                  /\ \E any \in 0 .. MaxCycles :
                       /\ trace' = Append(trace, Written(n_pkts, any))
                       /\ cycles' = cycles + any
                  /\ UNCHANGED err
  /\ UNCHANGED <<phase, pcap>>

(* The gap behind the last packet: the longest packet at 64 bit a cycle.   *)
LastGap == (8 * MaxPktSize + 63) \div 64

(* What is in the buffer of the previous packet if there was none.         *)
Garbage == [id : {0}, delta : {LastGap}, snap : 0 .. 1, wire : 0 .. 1]

(* main, after the loop: the last packet.                                  *)
WriteLast ==
  /\ phase = "loop" /\ n_pkts = Len(pcap)
  /\ \/ n_pkts > 0 /\ trace' = Append(trace, Written(n_pkts, LastGap))
     \/ n_pkts = 0 /\ \E g \in Garbage : trace' = Append(trace, g)
  /\ phase' = "done"
  /\ UNCHANGED <<pcap, n_pkts, err, cycles>>

(* error: a packet that is too long, or a read or write that fails.  What  *)
(* has been written stays in the file.                                     *)
ImportError ==
  /\ phase = "loop"
  /\ phase' = "error"
  /\ UNCHANGED <<pcap, n_pkts, err, trace, cycles>>

ImportNext == HandlePacket \/ WriteLast \/ ImportError

(* The gaps written, from the first packet to the last one seen, add up to *)
(* the time between them, rounded up by less than two cycles.              *)
RoundedUp ==
  n_pkts > 0 =>
    /\ 32 * cycles >= 5 * (Ns(pcap[n_pkts]) - Ns(pcap[1]))
    /\ 32 * cycles < 5 * (Ns(pcap[n_pkts]) - Ns(pcap[1])) + 64

(* The pcaps for which the carry of timersub does not matter.              *)
InOneSecond(f) ==
  \A i, j \in 1 .. Len(f) :
    f[i].sec = f[j].sec /\ (i <= j => f[i].nsec <= f[j].nsec)

(* Replayed by the gaps of the trace, a packet never leaves before the     *)
(* time the pcap records, and less than two cycles after it, however many  *)
(* gaps have been rounded before (pcap_pkt_handler, 155-164), if all       *)
(* packets lie in one second.                                              *)
TimeIsKept == InOneSecond(pcap) => RoundedUp

(* The same for every pcap whose times increase: "for nano-second          *)
(* precision pcap files the 'tv_usec' value actually contains nanoseconds" *)
(* (pcap_import.c 148).  Not so: timersub takes it for microseconds.       *)
TimeIsAlwaysKept == RoundedUp
=============================================================================
