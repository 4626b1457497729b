------------------------------ MODULE PcapPath ------------------------------
(***************************************************************************)
(* A pcap on its way through the tester: imported into a trace, replayed,  *)
(* received by the other port, captured and exported.  The cores are taken *)
(* at what Replay, Pacing and CaptureReceive check of them: every packet   *)
(* arrives, the gap to its predecessor is the one the trace asks for (rate *)
(* control warns if it is not), and the memory holds whole records, which  *)
(* words of ones align to a beat.  CaptureReceive keeps that promise for   *)
(* capture lengths of a byte or more, so a length of 0 is left out.        *)
(***************************************************************************)
EXTENDS PcapImport, PcapExport

CONSTANTS
  CapLens,    (* capture lengths                                           *)
  LenRange,   (* 2^11, the lengths that fit into the meta data of a record *)
  GapRange    (* 2^28, the gaps that do                                    *)

(* A gap of 10^6 ns, in cycles, is far below 2^28.                         *)
ASSUME PathAssumption ==
  /\ CapLens \subseteq Nat \ {0} /\ CapUsecPerSec \in Nat
  /\ WordBytes \in Nat \ {0} /\ CapWordBytes = WordBytes
  /\ CapBeatWords \in Nat \ {0}
  /\ LenRange \in Nat \ {0} /\ GapRange \in Nat \ {0}
  /\ 5 * CapUsecPerSec <= 32 * GapRange

VARIABLES
  caplen,     (* the length the receiver is configured with                *)
  stored,     (* the capture memory: whole records                         *)
  begins,     (* history: where in it each record, and the next, begins    *)
  leaves      (* history: the cycle in which each packet is to leave       *)

pathVars == <<caplen, stored, begins, leaves>>

vars == <<importVars, exportVars, pathVars>>

Captured(p) == IF p.wire > caplen THEN caplen ELSE p.wire

MemWord(cy, len, ones) == [cycles |-> cy, len |-> len, ones |-> ones]

(* In front of the first packet there may have been any gap.               *)
Meta(i) ==
  MemWord(IF i = 1 THEN 9 ELSE trace[i - 1].delta % GapRange,
          trace[i].wire % LenRange, FALSE)

(* Payload may look like meta data.                                        *)
Record(i) ==
  <<Meta(i)>> \o [k \in 1 .. WordsFor(Captured(trace[i])) |-> MemWord(k, k, FALSE)]

PadWords(n) == (CapBeatWords - (n % CapBeatWords)) % CapBeatWords

Padding(words) == [k \in 1 .. PadWords(Len(words)) |-> MemWord(0, 0, TRUE)]

Init ==
  /\ ImportInit
  /\ ExportIdle
  /\ caplen \in CapLens
  /\ stored = <<>> /\ begins = <<0>> /\ leaves = <<>>

Import ==
  /\ ImportNext
  /\ leaves' = IF n_pkts' = n_pkts THEN leaves ELSE Append(leaves, cycles')
  /\ UNCHANGED <<exportVars, caplen, stored, begins>>

(* The next packet of the trace is replayed, received and captured.        *)
Capture ==
  /\ phase = "done" /\ Len(begins) <= Len(trace)
  /\ stored' = stored \o Record(Len(begins))
  /\ begins' = Append(begins, Len(stored'))
  /\ UNCHANGED <<importVars, exportVars, caplen, leaves>>

(* All have been; the memory is aligned, and its content is the input file *)
(* of the export program.                                                  *)
StopCapture ==
  /\ phase = "done" /\ Len(begins) = Len(trace) + 1
  /\ \E arg \in CapLens : ExportOpen(stored \o Padding(stored), arg)
  /\ UNCHANGED <<importVars, pathVars>>

Export == ExportNext /\ UNCHANGED <<importVars, pathVars>>

(* Both programs have exited.                                              *)
Exited ==
  /\ phase = "error" \/ xphase \in {"done", "error"}
  /\ UNCHANGED vars

Next == Import \/ Capture \/ StopCapture \/ Export \/ Exited

Spec == Init /\ [][Next]_vars
-----------------------------------------------------------------------------
(* A trace that was captured completely is exported completely: no error,  *)
(* every packet once, in order, with its length and as many bytes as were  *)
(* captured, whatever padding lies between (write_packet and main of the   *)
(* export program), if the program is told the capture length that the     *)
(* receiver had.  An empty pcap is left out: import writes a packet of     *)
(* uninitialised data then.  So are packets that the cores cannot send, or *)
(* whose length does not fit into the meta data: import lets them pass.    *)
Comparable ==
  /\ pcap # <<>> /\ max_caplen = caplen
  /\ \A i \in 1 .. Len(pcap) :
       pcap[i].len \in 1 .. LenRange - 1 /\ pcap[i].caplen <= pcap[i].len

PacketsSurvive ==
  Comparable =>
    /\ xphase # "error"
    /\ xphase = "done" =>
         /\ Len(exported) = Len(pcap)
         /\ \A i \in 1 .. Len(pcap) :
              /\ exported[i].len = pcap[i].len
              /\ exported[i].caplen = IF pcap[i].len > caplen THEN caplen ELSE pcap[i].len

(* Times survive as well: rounding up and down in import adds less than    *)
(* two cycles (12.8 ns), cutting off fractions in export loses at most a   *)
(* nanosecond for each packet.  The packets lie in one second, and within  *)
(* the time that timeradd can add without a carry.                         *)
CarryFree ==
  InOneSecond(pcap) /\ Ns(pcap[Len(pcap)]) - Ns(pcap[1]) + 12 < CapUsecPerSec

TimesAgree ==
  xphase = "done" /\ Comparable /\ CarryFree =>
    \A i \in 1 .. Len(pcap) :
      LET sent == Ns(pcap[i]) - Ns(pcap[1])
      IN  Ns(exported[i].ts) \in sent - (i - 1) .. sent + 12
=============================================================================
