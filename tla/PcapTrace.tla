----------------------------- MODULE PcapTrace -----------------------------
(***************************************************************************)
(* The trace format: how pcap_import.c lays packets out in 8 byte words,   *)
(* and, as the reference the replay core is compared with, the stream of   *)
(* words a trace stands for (check_output in nt_gen_replay_top_test.py).   *)
(* A packet is a record [id, delta, snap, wire]: gap in clock cycles,      *)
(* captured bytes and bytes on the wire.                                   *)
(***************************************************************************)
EXTENDS Integers, Sequences, SequencesExt

CONSTANTS
  WordBytes,     (* bytes of a trace word: 8                               *)
  WordsPerBeat   (* trace words per 64 byte beat: 8                        *)

TraceWord(delta, snap, wire) == [delta |-> delta, snap |-> snap, wire |-> wire]

WordsFor(bytes) == (bytes + WordBytes - 1) \div WordBytes

(* The bits of the i-th payload word of a packet.  They are arbitrary, so  *)
(* they may well look like the meta data of a packet.                      *)
Payload(p, i) == TraceWord(10 * p.id + i, WordBytes, WordBytes)

(* write_packet: meta data, then the payload aligned to words.             *)
PacketWords(p) ==
  <<TraceWord(p.delta, p.snap, p.wire)>>
    \o [i \in 1 .. WordsFor(p.snap) |-> Payload(p, i)]

(* main: all packets, then words of ones up to the next multiple of a beat.*)
TraceWords(packets) ==
  LET words == FlattenSeq([i \in DOMAIN packets |-> PacketWords(packets[i])])
      pad   == (WordsPerBeat - (Len(words) % WordsPerBeat)) % WordsPerBeat
  IN  words \o [i \in 1 .. pad |-> TraceWord(-1, -1, -1)]

TraceBeats(packets) == Len(TraceWords(packets)) \div WordsPerBeat

(* The stream words of a packet: its payload, zeros for what was not       *)
(* captured, the gap in the first word, an end mark and the count of valid *)
(* bytes in the last one.                                                  *)
PacketStream(p) ==
  LET n == WordsFor(p.wire)
  IN  [i \in 1 .. n |->
        [tvalid |-> TRUE,
         tdata  |-> IF i <= WordsFor(p.snap) THEN Payload(p, i) ELSE TraceWord(0, 0, 0),
         tlast  |-> i = n,
         tkeep  |-> IF i = n THEN p.wire - (n - 1) * WordBytes ELSE WordBytes,
         tuser  |-> IF i = 1 THEN p.delta ELSE 0]]

TraceOutput(packets) ==
  FlattenSeq([i \in DOMAIN packets |-> PacketStream(packets[i])])
=============================================================================
