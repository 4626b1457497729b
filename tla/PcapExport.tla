----------------------------- MODULE PcapExport -----------------------------
(***************************************************************************)
(* pcap_export.c: the content of the capture memory becomes a pcap.  The   *)
(* memory is a sequence of words [cycles, len, ones]: the two fields that  *)
(* the program extracts from a word, and whether all its bits are set.     *)
(***************************************************************************)
EXTENDS Integers, Sequences

CONSTANTS
  CapWordBytes,    (* 8                                                    *)
  CapBeatWords,    (* words of 64 byte: 8                                  *)
  CapUsecPerSec    (* where timeradd carries: 10^6                         *)

VARIABLES
  xphase,     (* "idle", "loop", "done", "error"                           *)
  memory,     (* the file                                                  *)
  max_caplen, (* the argument                                              *)
  xpos,       (* words read                                                *)
  now,        (* pkt_hdr.ts                                                *)
  exported    (* the packets dumped                                        *)

exportVars == <<xphase, memory, max_caplen, xpos, now, exported>>

ExportIdle ==
  /\ xphase = "idle"
  /\ memory = <<>> /\ max_caplen = 0 /\ xpos = 0
  /\ now = [sec |-> 0, nsec |-> 0]
  /\ exported = <<>>

(* main up to the loop.                                                    *)
ExportOpen(file, caplen) ==
  /\ xphase = "idle"
  /\ xphase' = IF Len(file) % CapBeatWords = 0 THEN "loop" ELSE "error"
  /\ memory' = file /\ max_caplen' = caplen
  /\ UNCHANGED <<xpos, now, exported>>

PaddingUnread(bytes) == bytes \div CapWordBytes   (* a faulty variant      *)

CapWords(bytes) == (bytes + CapWordBytes - 1) \div CapWordBytes

CapLen(w) == IF w.len > max_caplen THEN max_caplen ELSE w.len

(* cycles / CLK_FREQ * 1e9 in floating point, cut off: where the quotient  *)
(* is a whole number, the quotient or one less.                            *)
NsOf(cycles) ==
  {(32 * cycles) \div 5} \cup
    (IF cycles > 0 /\ cycles % 5 = 0 THEN {(32 * cycles) \div 5 - 1} ELSE {})

(* The macro of sys/time.h, which carries at a million.                    *)
TimerAdd(t, nsec) ==
  IF t.nsec + nsec >= CapUsecPerSec
    THEN [sec |-> t.sec + 1, nsec |-> t.nsec + nsec - CapUsecPerSec]
    ELSE [sec |-> t.sec, nsec |-> t.nsec + nsec]

(* A faulty variant: the gap in front of the first packet counts.          *)
FirstGapCounts(w) == {TimerAdd(now, ns) : ns \in NsOf(w.cycles)}

(* The time of the packet whose meta data is w: 0 for the first one.       *)
Stamps(w) ==
  IF exported = <<>> THEN {now} ELSE {TimerAdd(now, ns) : ns \in NsOf(w.cycles)}

Fits(w) == xpos + 1 + CapWords(CapLen(w)) <= Len(memory)

ReadPacket ==
  /\ xphase = "loop" /\ xpos < Len(memory)
  /\ LET w == memory[xpos + 1]
     IN  /\ ~w.ones /\ Fits(w)
         /\ xpos' = xpos + 1 + CapWords(CapLen(w))
         /\ \E ts \in Stamps(w) :
              /\ now' = ts
              /\ exported' = Append(exported,
                               [ts |-> ts, caplen |-> CapLen(w), len |-> w.len])
  /\ UNCHANGED <<xphase, memory, max_caplen>>

(* The loop ends at a word of ones or at the end of the file.              *)
ExportDone ==
  /\ xphase = "loop"
  /\ xpos = Len(memory) \/ (xpos < Len(memory) /\ memory[xpos + 1].ones)
  /\ xphase' = "done"
  /\ UNCHANGED <<memory, max_caplen, xpos, now, exported>>

(* error: the file ends inside a packet.                                   *)
ExportCut ==
  /\ xphase = "loop" /\ xpos < Len(memory)
  /\ ~memory[xpos + 1].ones /\ ~Fits(memory[xpos + 1])
  /\ xphase' = "error"
  /\ UNCHANGED <<memory, max_caplen, xpos, now, exported>>

ExportNext == ReadPacket \/ ExportDone \/ ExportCut
=============================================================================
